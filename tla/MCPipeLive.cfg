CONSTANTS
  p1 = p1
  p2 = p2
  p3 = p3
  Tasks = {p1, p2}
  NoChan = NoChan
  NoTask = NoTask
  Byte = {1, 2}
  Payloads <- Counting
  SIZE = 2
  MaxLen = 1
  Readers = {p1}
  Writers = {p2}
  Calls <- SelectAndIoctl
  Interruptible = {p1, p2}
  PipeSig <- SameBit
SPECIFICATION FairSpec
INVARIANT SelectorIsTold
PROPERTY CallsGoOn
