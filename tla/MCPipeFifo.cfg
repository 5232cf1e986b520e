CONSTANTS
  p1 = p1
  p2 = p2
  p3 = p3
  Tasks = {p1, p2}
  NoChan = NoChan
  NoTask = NoTask
  Byte = {1, 2, 3}
  Payloads <- Counting
  SIZE = 3
  MaxLen = 3
  Readers = {p1}
  Writers = {p2}
  Calls <- ReaderAndWriter
  Interruptible = {p1, p2}
  PipeSig <- SameBit
SPECIFICATION Spec
 
PROPERTIES ImplementsFifo
