CONSTANTS
  c1 = c1
  c2 = c2
  s1 = s1
  s2 = s2
  l1 = l1
  l2 = l2
  Clients = {c1, c2}
  Servers = {s1, s2}
  Tasks = {c1, c2, s1, s2}
  Listeners = {l1}
  Backlog = 1
  Calls = {"close", "clientclose"}
  Interruptible = {c1}
  NoStream = NoStream
  NoTask = NoTask
  NoSock = NoSock
  NoChan = NoChan
SPECIFICATION MCSpec
INVARIANTS AcceptLock QueuedOnce SocketsAreWhole
PROPERTY ConnectReturns
CHECK_DEADLOCK FALSE
