CONSTANTS
  p1 = p1
  p2 = p2
  p3 = p3
  Tasks = {p1, p2, p3}
  NoChan = NoChan
  NoTask = NoTask
  Byte = {1, 2}
  Payloads <- Counting
  SIZE = 2
  MaxLen = 2
  Readers = {p1}
  Writers = {p1, p2, p3}
  Calls <- OneReader
  Interruptible = {p1, p2, p3}
  PipeSig <- SameBit
SPECIFICATION Spec
INVARIANTS TypeOK StreamLock NoLostLockWakeup NoLostDataWakeup FreedWhenUnused
