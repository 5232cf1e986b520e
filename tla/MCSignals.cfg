CONSTANTS
  Sigs <- SomeSigs
  Masks <- TrapMasks
  Senders = {8}
  Timers = {14}
  Traps = {8}
  Handled = {8}
  Calls = {"sigaction", "sigprocmask", "kill"}
  HandlerCalls = {"sigblock"}
  CtrlC = FALSE
  MaxStack = 14
SPECIFICATION MCSpec
INVARIANTS   HandlersDoNotNest SignalsAreTaken
PROPERTY SignalsEnd
CHECK_DEADLOCK FALSE
