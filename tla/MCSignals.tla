------------------------------ MODULE MCSignals -----------------------------
(* Small instances of Signals.  In instance "trap", given by the constants, a  *)
(* program runs into hardware traps; in "jobs" it gets the signals of job      *)
(* control, from other tasks and from the timer; in "break" the user types ^C  *)
(* while handlers sleep; in "kill" only one signal is caught, and the stack    *)
(* has room for its contexts.                                                  *)
EXTENDS Signals

SomeSigs == {SIGKILL, SIGTSTP, SIGCONT, SIGALRM, SIGINT, SIGUSR1, SIGMSG,
             SIGILL, SIGFPE}
Jobs == {SIGKILL, SIGTSTP, SIGCONT, SIGALRM}
UserBreak == {SIGINT, SIGUSR1, SIGMSG}
TrapOrIll == {SIGILL, SIGFPE}
NoneOrAll(S) == {{}, S}
TrapMasks == NoneOrAll(TrapOrIll)

VARIABLE instance

J == INSTANCE Signals WITH
  Senders <- Jobs, Traps <- {}, Handled <- {SIGCONT, SIGALRM},
  Masks <- NoneOrAll(Jobs), CtrlC <- FALSE, MaxStack <- 12,
  Calls <- {"sigaction", "sigprocmask", "sigsuspend", "kill", "read"},
  HandlerCalls <- {"kill"}
B == INSTANCE Signals WITH
  Senders <- {SIGUSR1}, Timers <- {}, Traps <- {}, Handled <- UserBreak,
  Masks <- NoneOrAll(UserBreak), CtrlC <- TRUE, MaxStack <- 13,
  Calls <- {"sigaction", "sigblock", "sigsuspend", "read"},
  HandlerCalls <- {"kill", "read"}

K == INSTANCE Signals WITH
  Senders <- {SIGKILL, SIGUSR1}, Timers <- {}, Traps <- {}, Handled <- {SIGUSR1},
  Masks <- NoneOrAll({SIGKILL, SIGUSR1}), CtrlC <- FALSE, MaxStack <- 14,
  Calls <- {"sigaction", "sigprocmask", "sigsuspend", "read"}, HandlerCalls <- {}

MCInit == Init /\ instance \in {"trap", "jobs", "break", "kill"}
MCNext == \/ instance = "trap" /\ Next /\ UNCHANGED instance
          \/ instance = "jobs" /\ J!Next /\ UNCHANGED instance
          \/ instance = "break" /\ B!Next /\ UNCHANGED instance
          \/ instance = "kill" /\ K!Next /\ UNCHANGED instance

\* The processor runs every task that is ready, so that what it runs makes
\* progress however often new signals interrupt it; handlers return.
Fair == /\ WF_vars(instance = "kill" /\ K!Sleep)
        /\ WF_vars(instance = "kill" /\ K!Deliver)
        /\ SF_vars(instance = "kill" /\ K!sig_exit)
        /\ SF_vars(instance = "kill" /\ K!sig_trampoline)
MCSpec == MCInit /\ [][MCNext]_<<vars, instance>> /\ Fair

\* sigsuspend() returns with the mask it was called with (SuspendRestoresMask), and
\* SIGKILL ends the process, whatever it waits for: KillTerminates where the bound on
\* the stack never delays the launch handler.
SignalsEnd == SuspendRestoresMask /\ ((instance = "kill") => KillTerminates)
=============================================================================
