CONSTANTS
  p1 = p1
  Nil = Nil
  Junk = Junk
SPECIFICATION MCSpec
INVARIANTS  WalkIsComplete
  
CHECK_DEADLOCK FALSE
