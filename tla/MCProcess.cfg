CONSTANTS
  R = R
  A = A
  B = B
  C = C
  Nil = Nil
  One = One
  Root = R
  Procs = {R, A, B, C}
  Calls = {"vfork", "resume", "exit"}
  Waits <- AnyChild
  ForkAfterWait = FALSE
  Pgrps = {A}
  Catches <- Nobody
  Interrupted <- Nobody
  Failures = {"create", "open"}
  Contended = TRUE
  CtrlC = FALSE
SPECIFICATION MCSpec
INVARIANTS FamilyIsWhole HeldAndReported
PROPERTIES EchildIsTrue WaitEnds
CHECK_DEADLOCK FALSE
