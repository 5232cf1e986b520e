CONSTANTS
  P = P
  Q = Q
  F = F
  G = G
  H = H
  N = N
  p1 = p1
  p2 = p2
  Nil = Nil
  Root = P
  Procs = {P, Q}
  Files = {F, G, H}
  NOFILE = 3
  Names = {N}
  Calls = {"creat", "pipe", "close", "dup", "dup2"}
  PipeRoom = TRUE
SPECIFICATION MCSpec
INVARIANTS
  OpenCountsAgree FreeOrUsed RemovalIsKept MutualExclusion SegmentLifetime
   MemoryIsWhole SocketsAreHeld
SYMMETRY Sym
CHECK_DEADLOCK FALSE
