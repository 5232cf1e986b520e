------------------------------- MODULE Signals ------------------------------
(* Unix signals of one process: library/kern_sig.c, the delivery of signals in *)
(* library/machdep_68k.c and the sleep of library/ix_sleep.c that a signal     *)
(* ends.  Signals come from kill() of other tasks, from the timer interrupt,   *)
(* from ^C and from hardware traps; the launch handler turns them into signal  *)
(* contexts on the user stack.  The process is not traced (STRC is off).       *)
EXTENDS Integers, Sequences, FiniteSets

CONSTANTS
  Sigs,        \* the signals that exist in the instance
  Masks,       \* the masks programs use
  Senders,     \* SUBSET Sigs: sent by kill() from other tasks
  Timers,      \* SUBSET Sigs: sent by the timer interrupt
  Traps,       \* SUBSET Sigs: raised by the hardware
  Handled,     \* SUBSET Sigs: passed to sigaction()
  Calls,       \* SUBSET CallKinds: the calls the main program makes
  HandlerCalls,\* SUBSET CallKinds: the calls signal handlers make
  CtrlC,       \* does the user type ^C
  MaxStack     \* bound on the number of signal contexts

SIGINT == 2
SIGILL == 4
SIGFPE == 8
SIGKILL == 9
SIGALRM == 14
SIGSTOP == 17
SIGTSTP == 18
SIGCONT == 19
SIGCHLD == 20
SIGVTALRM == 26
SIGPROF == 27
SIGUSR1 == 30
SIGUSR2 == 31
SIGMSG == 32

stopsigmask == {SIGSTOP, SIGTSTP, 21, 22}
defaultignmask == {SIGCONT, 23, 16, SIGCHLD, 28, 29, SIGMSG}
sigcantmask == {SIGKILL, SIGSTOP}
trapsigs == {SIGILL, 10, SIGFPE, 5, 7}
Actions == {"SIG_DFL", "SIG_IGN", "catch"}
CallKinds == {"sigaction", "sigprocmask", "sigblock", "sigsuspend", "kill",
              "read"}

ASSUME SignalsAssumption ==
  /\ Sigs \subseteq 1 .. 32
  /\ Senders \subseteq Sigs
  /\ Timers \subseteq Sigs \cap {SIGALRM, SIGVTALRM, SIGPROF}
  /\ Traps \subseteq Sigs \cap trapsigs
  /\ Handled \subseteq Sigs \ sigcantmask
  /\ Masks \subseteq SUBSET Sigs
  /\ Calls \subseteq CallKinds /\ HandlerCalls \subseteq CallKinds
  /\ CtrlC \in BOOLEAN /\ MaxStack \in Nat

VARIABLES
  p_sig, p_sigmask, p_sigignore, p_sigcatch,   \* of struct user
  u_signal, u_sigmask, somask, u_oldmask,
  p_stat, p_wchan, queued,  \* tsleep(): state, channel, entry in a sleep queue
  sleepSig,                 \* the exec signal bit u_sleep_sig
  ctrl, lastctrl,           \* SIGBREAKF_CTRL_C in tc_SigRecvd and u_lastrcvsig
  stack,                    \* the signal contexts on the user stack
  pc, chan,                 \* chan: the argument of the sleep in progress
  calls, doomed             \* history: sigsuspend() calls in progress, and
                            \* has a trap come while masked or ignored

dispositions == <<p_sigignore, p_sigcatch, u_signal, u_sigmask>>
maskVars == <<p_sigmask, somask, u_oldmask>>
sleepVars == <<p_stat, p_wchan, queued, sleepSig>>
ctrlVars == <<ctrl, lastctrl>>
history == <<calls, doomed>>
vars == <<p_sig, dispositions, maskVars, sleepVars, ctrlVars, stack, pc, chan,
          history>>

Labels == {"user", "suspret"}        \* where the launch handler interrupts
Pcs == Labels \cup {"ts0", "ts1", "ts2", "wait", "psig", "dead", "switch_user",
                    "switch_suspret"}

Init ==
  /\ p_sig = {} /\ p_sigmask = {} /\ somask = FALSE /\ u_oldmask = {}
  /\ p_sigignore = (defaultignmask \ {SIGCONT}) \cap Sigs       \* siginit()
  /\ p_sigcatch = {}
  /\ u_signal = [s \in Sigs |-> "SIG_DFL"]
  /\ u_sigmask = [s \in Sigs |-> {}]
  /\ p_stat = "SRUN" /\ p_wchan = "none" /\ queued = FALSE /\ sleepSig = FALSE
  /\ ctrl = FALSE /\ lastctrl = FALSE
  /\ stack = <<>> /\ pc = "user" /\ chan = "self"
  /\ calls = <<>> /\ doomed = FALSE

-----------------------------------------------------------------------------
(* CURSIG: what issig() returns and which pending signals it drops.            *)

\* issig(): the signal is returned, for psig() to act on.
Taken(s) ==
  /\ s \notin p_sigignore
  /\ \/ u_signal[s] = "catch"
     \/ u_signal[s] = "SIG_DFL" /\ s \notin stopsigmask \cup defaultignmask

\* The lowest of a set of signals, 0 when there is none: ffs().
ffs(S) == IF S = {} THEN 0 ELSE CHOOSE s \in S : \A r \in S : s <= r

\* CURSIG() for pending signals P under mask M, and P after it: every signal
\* before the one returned was dropped.
CURSIG(P, M) == ffs({s \in P \ M : Taken(s)})
AfterCURSIG(P, M) ==
  P \ {s \in P \ M : CURSIG(P, M) = 0 \/ s < CURSIG(P, M)}

-----------------------------------------------------------------------------
(* Posting a signal: _psignal() and setrun().                                  *)

\* A faulty Converted: the mask is forgotten.
ConvertedIgnored(s) == s \in trapsigs /\ s \in p_sigignore

\* _psignal(): trap signals cannot be ignored or masked, they become SIGILL.
Converted(s) == s \in trapsigs /\ s \in p_sigignore \cup p_sigmask

\* A faulty Pending: a stop signal does not cancel a pending SIGCONT.
PendingUncancelled(s) ==
  (IF s = SIGCONT THEN p_sig \ stopsigmask ELSE p_sig) \cup {s}

\* The pending signals after _psignal(s) of a signal that is not ignored.
Pending(s) ==
  (CASE s = SIGCONT -> p_sig \ stopsigmask
     [] s \in stopsigmask -> p_sig \ {SIGCONT}
     [] OTHER -> p_sig) \cup {s}

\* A faulty setrun: a task that sleeps on another channel is not signalled.
setrunSelfOnly == sleepSig \/ (p_wchan = "self" /\ queued)

\* setrun() for a task that is not running, or that runs under Forbid(): a
\* sleeper on its own user structure is woken through its queue entry, any
\* other sleeper by its signal bit.
setrun == sleepSig \/ (IF p_wchan = "self" THEN queued ELSE p_stat = "SSLEEP")

\* _psignal(t, s) from another task or from an interrupt.
psignal(s) ==
  LET sig == IF Converted(s) THEN SIGILL ELSE s IN
  /\ sig \in Sigs
  /\ IF Converted(s)
       THEN /\ p_sigignore' = p_sigignore \ {SIGILL}
            /\ p_sigmask' = p_sigmask \ {SIGILL}
            /\ p_sigcatch' = p_sigcatch \ {SIGILL}
       ELSE UNCHANGED <<p_sigignore, p_sigmask, p_sigcatch>>
  /\ p_sig' = IF sig \in p_sigignore' THEN p_sig ELSE Pending(sig)
  /\ sleepSig' = IF sig \in p_sigignore' \cup p_sigmask' THEN sleepSig
                 ELSE setrun
  /\ UNCHANGED <<u_signal, u_sigmask, somask, u_oldmask, p_stat, p_wchan, queued>>

\* Other tasks run only while this one is not under Forbid(): Wait() breaks the
\* Forbid() of the sleep.
Preemptible == pc \notin {"ts0", "ts1", "ts2", "psig", "dead"}

\* kill() by another task, or a SIGCHLD, SIGPIPE... that it causes.
Kill(s) ==
  /\ Preemptible /\ s \in Senders
  /\ psignal(s)
  /\ UNCHANGED <<ctrlVars, stack, pc, chan, history>>

\* ix_timer(), the vertical blank interrupt: it comes under Forbid() too.  One in
\* the middle of psig() is taken as coming after it.
Timer(s) ==
  /\ pc \notin {"psig", "dead"} /\ s \in Timers
  /\ psignal(s)
  /\ UNCHANGED <<ctrlVars, stack, pc, chan, history>>

\* The console handler sends SIGBREAKF_CTRL_C.
Break ==
  /\ CtrlC /\ Preemptible /\ ~ctrl
  /\ ctrl' = TRUE
  /\ UNCHANGED <<p_sig, dispositions, maskVars, sleepVars, lastctrl, stack, pc,
                 chan, history>>

-----------------------------------------------------------------------------
(* Delivery.  A context of kind "resume" continues what was interrupted, one   *)
(* of kind "catch" or "exit" calls the handler or sig_exit(); on is TRUE once  *)
(* the call has begun.  mask is what do_sigreturn() loads into p_sigmask when  *)
(* it takes the context up.                                                    *)

Context == [kind : {"resume", "catch", "exit"}, sig : Sigs \cup {0},
            mask : SUBSET Sigs, on : BOOLEAN, pc : Labels]

\* A faulty ResumeContext: it does not keep the mask.
ResumeContextOpen(l) ==
  [kind |-> "resume", sig |-> 0, mask |-> {}, on |-> FALSE, pc |-> l]

\* setup_sigcontext() of sig_launch(), and the start of trap().
ResumeContext(l) ==
  [kind |-> "resume", sig |-> 0, mask |-> p_sigmask, on |-> FALSE, pc |-> l]
\* sendsig()
Frame(k, s, m) == [kind |-> k, sig |-> s, mask |-> m, on |-> FALSE, pc |-> "user"]

\* The bound MaxStack: room for a context and a frame for each signal.
RoomForSignals == Len(stack) + 1 + Cardinality(Sigs) <= MaxStack

Top == stack[Len(stack)]
Below == SubSeq(stack, 1, Len(stack) - 1)

\* Where force_task_switch() or a preempted task continues.
Continue(l) == CASE l = "switch_user" -> "user"
                 [] l = "switch_suspret" -> "suspret"
                 [] OTHER -> l

\* A signal was taken: every sigsuspend() in progress has had one.
MarkCalls == calls' = [i \in DOMAIN calls |-> [calls[i] EXCEPT !.got = TRUE]]

\* sig_launch() before it looks for signals: save the context, and turn ^C into
\* SIGINT (or SIGMSG, delivered at once when it is caught and not masked).
LaunchBreak(l) ==
  LET new == ctrl /\ ~lastctrl
      toInt == SIGMSG \notin p_sigcatch
      post == IF toInt THEN SIGINT ELSE SIGMSG IN
  /\ ctrl' = (ctrl /\ ~(new /\ toInt))
  /\ lastctrl' = ctrl'
  /\ IF new /\ ~toInt /\ SIGMSG \notin p_sigmask
       THEN /\ stack' = stack \o <<ResumeContext(l),
                                   Frame("catch", SIGMSG, p_sigmask)>>
            /\ p_sigmask' = p_sigmask \cup u_sigmask[SIGMSG] \cup {SIGMSG}
            /\ MarkCalls /\ UNCHANGED p_sig
       ELSE /\ stack' = Append(stack, ResumeContext(l))
            /\ p_sig' = IF new /\ post \in Sigs \ p_sigignore THEN Pending(post)
                        ELSE p_sig
            /\ UNCHANGED <<p_sigmask, calls>>

\* sig_launch(), when exec dispatches the task: nothing while it sleeps or is
\* under Forbid().
Launch ==
  /\ Preemptible /\ pc # "wait" /\ p_stat # "SSLEEP"
  /\ \/ pc # Continue(pc)
     \/ ctrl # lastctrl
     \/ CURSIG(p_sig, p_sigmask) # 0
  /\ RoomForSignals
  /\ LaunchBreak(Continue(pc))
  /\ pc' = "psig"
  /\ UNCHANGED <<dispositions, somask, u_oldmask, sleepVars, chan, doomed>>

\* psig() of one signal: it is no longer pending and gets a context.  The mask
\* that sendsig() stores for the return of the handler is loaded and replaced
\* at once by that of the context below, so it is not kept.
PushSignal(s) ==
  IF u_signal[s] = "catch"
    THEN /\ p_sigmask' = p_sigmask \cup u_sigmask[s] \cup {s}
         /\ stack' = Append(stack, Frame("catch", s, p_sigmask'))
         /\ somask' = FALSE
    ELSE /\ stack' = Append(stack, Frame("exit", s, p_sigmask))
         /\ UNCHANGED <<p_sigmask, somask>>

\* A faulty psig: the signal stays pending.
psigKeeps ==
  LET s == CURSIG(p_sig, p_sigmask) IN
  /\ pc = "psig" /\ s # 0
  /\ p_sig' = AfterCURSIG(p_sig, p_sigmask)
  /\ PushSignal(s)
  /\ MarkCalls
  /\ UNCHANGED <<dispositions, u_oldmask, sleepVars, ctrlVars, pc, chan, doomed>>

\* psig(): one turn of its loop, in supervisor mode.
psig ==
  LET s == CURSIG(p_sig, p_sigmask) IN
  /\ pc = "psig" /\ s # 0
  /\ p_sig' = AfterCURSIG(p_sig, p_sigmask) \ {s}
  /\ PushSignal(s)
  /\ MarkCalls
  /\ UNCHANGED <<dispositions, u_oldmask, sleepVars, ctrlVars, pc, chan, doomed>>

\* do_sigreturn() of the last context of stk.
do_sigreturn(stk) ==
  LET c == stk[Len(stk)] IN
  /\ p_sigmask' = c.mask
  /\ pc' = c.pc
  /\ stack' = IF c.kind = "resume" THEN SubSeq(stk, 1, Len(stk) - 1)
              ELSE [stk EXCEPT ![Len(stk)].on = TRUE]

\* The end of sig_launch() and trap(): without a new frame they return, with
\* p_sigmask as it is.
psigDone ==
  /\ pc = "psig" /\ CURSIG(p_sig, p_sigmask) = 0
  /\ p_sig' = AfterCURSIG(p_sig, p_sigmask)
  /\ IF Top.kind = "resume"
       THEN pc' = Top.pc /\ stack' = Below /\ UNCHANGED p_sigmask
       ELSE do_sigreturn(stack)
  /\ UNCHANGED <<dispositions, somask, u_oldmask, sleepVars, ctrlVars, chan, history>>

\* sig_trampoline(): the handler returns, sigreturn() takes up the next context.
sig_trampoline ==
  /\ pc = "user" /\ stack # <<>> /\ Top.kind = "catch"
  /\ do_sigreturn(Below)
  /\ UNCHANGED <<p_sig, dispositions, somask, u_oldmask, sleepVars, ctrlVars, chan,
                 history>>

\* sig_exit(): the process ends.
sig_exit ==
  /\ pc = "user" /\ stack # <<>> /\ Top.kind = "exit"
  /\ p_sigmask' = Sigs /\ p_sigignore' = Sigs
  /\ pc' = "dead"
  /\ UNCHANGED <<p_sig, p_sigcatch, u_signal, u_sigmask, somask, u_oldmask,
                 sleepVars, ctrlVars, stack, chan, history>>

-----------------------------------------------------------------------------
(* The system calls.                                                           *)

\* The program, or the handler that interrupts it, makes a call of kind k.
InUser(k) ==
  /\ pc = "user"
  /\ k \in IF stack = <<>> THEN Calls ELSE HandlerCalls
  /\ stack # <<>> => Top.kind = "catch"

\* setsigvec()
setsigvec(s, act, m) ==
  /\ u_signal' = [u_signal EXCEPT ![s] = act]
  /\ u_sigmask' = [u_sigmask EXCEPT ![s] = m \ sigcantmask]
  /\ IF act = "SIG_IGN" \/ (act = "SIG_DFL" /\ s \in defaultignmask)
       THEN /\ p_sig' = p_sig \ {s}
            /\ p_sigignore' = p_sigignore \cup ({s} \ {SIGCONT})
            /\ p_sigcatch' = p_sigcatch \ {s}
       ELSE /\ p_sigignore' = p_sigignore \ {s}
            /\ p_sigcatch' = IF act = "SIG_DFL" THEN p_sigcatch \ {s}
                             ELSE p_sigcatch \cup {s}
            /\ UNCHANGED p_sig

\* sigaction() and sigvec(), which refuse SIGKILL and SIGSTOP.
sigaction(s, act, m) ==
  /\ InUser("sigaction") /\ s \in Handled
  /\ setsigvec(s, act, m)
  /\ UNCHANGED <<maskVars, sleepVars, ctrlVars, stack, pc, chan, history>>

\* The end of sigprocmask(), sigsetmask() and sigsuspend(): a signal that is no
\* longer masked is taken before the call returns, by a forced task switch.
TakeUnmasked(M) ==
  /\ p_sig' = AfterCURSIG(p_sig, M)
  /\ pc' = IF CURSIG(p_sig, M) # 0 THEN "switch_user" ELSE "user"

\* sigprocmask(); SIG_SETMASK is sigsetmask().
sigprocmask(how, m) ==
  LET M == CASE how = "SIG_BLOCK" -> p_sigmask \cup (m \ sigcantmask)
             [] how = "SIG_UNBLOCK" -> p_sigmask \ m
             [] how = "SIG_SETMASK" -> m \ sigcantmask IN
  /\ InUser("sigprocmask")
  /\ p_sigmask' = M
  /\ TakeUnmasked(M)
  /\ UNCHANGED <<dispositions, somask, u_oldmask, sleepVars, ctrlVars, stack, chan,
                 history>>

\* sigblock(), which looks for no signal.
sigblock(m) ==
  /\ InUser("sigblock")
  /\ p_sigmask' = p_sigmask \cup (m \ sigcantmask)
  /\ UNCHANGED <<p_sig, dispositions, somask, u_oldmask, sleepVars, ctrlVars, stack,
                 pc, chan, history>>

\* A faulty sigsuspend: the mask is taken as it is.
sigsuspendAll(m) ==
  /\ InUser("sigsuspend") /\ RoomForSignals
  /\ u_oldmask' = p_sigmask
  /\ somask' = TRUE
  /\ p_sigmask' = m
  /\ chan' = "self"
  /\ pc' = "ts0"
  /\ calls' = Append(calls, [mask |-> p_sigmask, got |-> FALSE])
  /\ UNCHANGED <<p_sig, dispositions, sleepVars, ctrlVars, stack, doomed>>

\* sigsuspend() and sigpause(), up to ix_sleep().
sigsuspend(m) ==
  /\ InUser("sigsuspend") /\ RoomForSignals
  /\ u_oldmask' = p_sigmask
  /\ somask' = TRUE
  /\ p_sigmask' = m \ sigcantmask
  /\ chan' = "self"
  /\ pc' = "ts0"
  /\ calls' = Append(calls, [mask |-> p_sigmask, got |-> FALSE])
  /\ UNCHANGED <<p_sig, dispositions, sleepVars, ctrlVars, stack, doomed>>

\* A call that sleeps until another task wakes it, a read() from a pipe say.
read ==
  /\ InUser("read")
  /\ chan' = "file"
  /\ pc' = "ts0"
  /\ UNCHANGED <<p_sig, dispositions, maskVars, sleepVars, ctrlVars, stack, history>>

\* A faulty AfterSleep: sigsuspend() goes on without a task switch.
AfterSleepAtOnce(r) ==
  CASE r = 0 -> IF chan = "self" THEN "ts0" ELSE "user"
    [] OTHER -> IF chan = "self" THEN "suspret" ELSE "switch_user"

\* A faulty AfterSleep: read() sleeps again, whatever ended its sleep.
AfterSleepRetries(r) ==
  CASE r = 0 -> IF chan = "self" THEN "ts0" ELSE "user"
    [] OTHER -> IF chan = "self" THEN "switch_suspret" ELSE "ts0"

\* After ix_sleep(): sigsuspend() sleeps again unless there is a signal to take,
\* which setrun() then has taken; read() is done or takes the signal.
AfterSleep(r) ==
  CASE r = 0 -> IF chan = "self" THEN "ts0" ELSE "user"
    [] OTHER -> IF chan = "self" THEN "switch_suspret" ELSE "switch_user"

\* tsleep(): a signal that is there ends it at once.
tsleepEnter ==
  /\ pc = "ts0"
  /\ p_sig' = AfterCURSIG(p_sig, p_sigmask)
  /\ pc' = IF CURSIG(p_sig, p_sigmask) # 0 THEN AfterSleep(-1) ELSE "ts1"
  /\ UNCHANGED <<dispositions, maskVars, sleepVars, ctrlVars, stack, chan, history>>

\* tsleep(): p_stat and p_wchan.
tsleepMark ==
  /\ pc = "ts1"
  /\ p_stat' = "SSLEEP" /\ p_wchan' = chan
  /\ pc' = "ts2"
  /\ UNCHANGED <<p_sig, dispositions, maskVars, queued, sleepSig, ctrlVars, stack,
                 chan, history>>

\* tsleep(): the entry in the sleep queue, and Wait().
tsleepQueue ==
  /\ pc = "ts2"
  /\ queued' = TRUE
  /\ pc' = "wait"
  /\ UNCHANGED <<p_sig, dispositions, maskVars, p_stat, p_wchan, sleepSig, ctrlVars,
                 stack, chan, history>>

\* ix_wakeup() of the channel read() sleeps on.
WakeFile ==
  /\ pc = "wait" /\ p_wchan = "file"
  /\ sleepSig' = TRUE
  /\ UNCHANGED <<p_sig, dispositions, maskVars, p_stat, p_wchan, queued, ctrlVars,
                 stack, pc, chan, history>>

\* tsleep() after Wait(): ^C becomes SIGINT, the bits that ended the wait are
\* cleared (a bit that this SIGINT sets is not one of them), and the queue entry
\* is removed.
tsleepWake ==
  LET toInt == ctrl /\ SIGMSG \notin p_sigcatch /\ SIGINT \in Sigs \ p_sigignore
      P == IF toInt THEN Pending(SIGINT) ELSE p_sig IN
  /\ pc = "wait" /\ (sleepSig \/ ctrl)
  /\ ctrl' = FALSE
  /\ sleepSig' = (~sleepSig /\ toInt /\ SIGINT \notin p_sigmask /\ setrun)
  /\ p_sig' = AfterCURSIG(P, p_sigmask)
  /\ queued' = FALSE /\ p_wchan' = "none" /\ p_stat' = "SRUN"
  /\ pc' = AfterSleep(IF CURSIG(P, p_sigmask) # 0 THEN -1 ELSE 0)
  /\ UNCHANGED <<dispositions, maskVars, lastctrl, stack, chan, history>>

\* A faulty SuspReturn: the mask of the call stays.
SuspReturnMasked ==
  /\ pc = "suspret"
  /\ UNCHANGED p_sigmask
  /\ TakeUnmasked(u_oldmask)
  /\ calls' = SubSeq(calls, 1, Len(calls) - 1)
  /\ UNCHANGED <<dispositions, somask, u_oldmask, sleepVars, ctrlVars, stack, chan,
                 doomed>>

\* sigsuspend() after the task switch.
SuspReturn ==
  /\ pc = "suspret"
  /\ p_sigmask' = u_oldmask
  /\ TakeUnmasked(u_oldmask)
  /\ calls' = SubSeq(calls, 1, Len(calls) - 1)
  /\ UNCHANGED <<dispositions, somask, u_oldmask, sleepVars, ctrlVars, stack, chan,
                 doomed>>

\* kill() of the process itself: setrun() forces a task switch.
killSelf(s) ==
  /\ InUser("kill") /\ s \in Senders
  /\ psignal(s)
  /\ pc' = IF s \in p_sigignore' \cup p_sigmask' THEN "user" ELSE "switch_user"
  /\ UNCHANGED <<ctrlVars, stack, chan, history>>

\* trap() and trapsignal(): a trap that is caught and not masked gets its context
\* from sendsig(), which reads p_sigmask before trapsignal() adds to it; any
\* other is posted.  psig() follows.
trap(s) ==
  /\ pc = "user" /\ s \in Traps /\ RoomForSignals
  /\ stack # <<>> => Top.kind = "catch"
  /\ IF s \in p_sigcatch \ p_sigmask
       THEN /\ stack' = stack \o <<ResumeContext("user"), Frame("catch", s, p_sigmask)>>
            /\ p_sigmask' = p_sigmask \cup u_sigmask[s] \cup {s}
            /\ UNCHANGED <<p_sig, dispositions, somask, u_oldmask, sleepVars, doomed>>
       ELSE /\ psignal(s)
            /\ stack' = Append(stack, ResumeContext("user"))
            /\ doomed' = (doomed \/ s \in p_sigignore \cup p_sigmask)
  /\ pc' = "psig"
  /\ UNCHANGED <<ctrlVars, chan, calls>>

-----------------------------------------------------------------------------
Syscall ==
  \/ \E s \in Handled, act \in Actions, m \in Masks : sigaction(s, act, m)
  \/ \E how \in {"SIG_BLOCK", "SIG_UNBLOCK", "SIG_SETMASK"}, m \in Masks :
        sigprocmask(how, m)
  \/ \E m \in Masks : sigblock(m)
  \/ \E m \in Masks : sigsuspend(m)
  \/ read
  \/ \E s \in Senders : killSelf(s)

Deliver == Launch \/ psig \/ psigDone
Sleep == tsleepEnter \/ tsleepMark \/ tsleepQueue \/ tsleepWake \/ SuspReturn

Next ==
  \/ Syscall \/ Sleep \/ Deliver \/ sig_trampoline \/ sig_exit
  \/ \E s \in Senders : Kill(s)
  \/ \E s \in Timers : Timer(s)
  \/ \E s \in Traps : trap(s)
  \/ WakeFile
  \/ Break

Spec == Init /\ [][Next]_vars

\* The processor runs every task that is ready, so that what it runs makes
\* progress however often new signals interrupt it; handlers return.
FairSpec ==
  /\ Spec /\ WF_vars(Sleep) /\ WF_vars(Deliver)
  /\ SF_vars(sig_exit) /\ SF_vars(sig_trampoline)

-----------------------------------------------------------------------------
(* Properties.                                                                 *)

\* Every variable of the signal state is of its type.
TypeOK ==
  /\ p_sig \subseteq Sigs /\ p_sigmask \subseteq Sigs
  /\ p_sigignore \subseteq Sigs /\ p_sigcatch \subseteq Sigs
  /\ u_signal \in [Sigs -> Actions] /\ u_sigmask \in [Sigs -> SUBSET Sigs]
  /\ somask \in BOOLEAN /\ u_oldmask \subseteq Sigs
  /\ p_stat \in {"SRUN", "SSLEEP"} /\ p_wchan \in {"none", "self", "file"}
  /\ queued \in BOOLEAN /\ sleepSig \in BOOLEAN
  /\ ctrl \in BOOLEAN /\ lastctrl \in BOOLEAN
  /\ stack \in Seq(Context) /\ Len(stack) <= MaxStack
  /\ pc \in Pcs /\ chan \in {"self", "file"}
  /\ calls \in Seq([mask : SUBSET Sigs, got : BOOLEAN]) /\ doomed \in BOOLEAN

\* SIGKILL and SIGSTOP get past every mask: neither p_sigmask nor the mask of a
\* context or of sigsuspend() that will be loaded into it ever holds them, as
\* the "&~ sigcantmask" of the calls is to ensure.
KillIsNeverMasked ==
  pc # "dead" =>
    /\ (p_sigmask \cup u_oldmask) \cap sigcantmask = {}
    /\ \A i \in DOMAIN stack : stack[i].mask \cap sigcantmask = {}

\* A signal that is ignored is not pending: setsigvec() takes it back ("never to
\* be seen again") and _psignal() refuses it.
IgnoredIsNotPending == pc # "dead" => p_sig \cap p_sigignore = {}

\* A stop signal and SIGCONT cancel each other in _psignal(): never both.
StopOrContinue == ~(SIGCONT \in p_sig /\ p_sig \cap stopsigmask # {})

\* What is pending agrees with the actions and with itself, whatever _psignal(),
\* setsigvec() and the handlers did in between: the two properties above.
PendingAgrees == IgnoredIsNotPending /\ StopOrContinue

\* The signals that can get their context before they are masked: trapsignal()
\* and the ^C of sig_launch() call sendsig() first.
AtOnce == Traps \cup {SIGMSG}

\* The handler of any other signal is not entered again before it has returned:
\* psig() masks its signal, and each context brings back the mask of what it
\* interrupts.
HandlersDoNotNest ==
  \A i, j \in DOMAIN stack :
    (/\ i # j /\ stack[i].sig \notin AtOnce
     /\ stack[i].kind = "catch" /\ stack[j].kind = "catch") =>
      stack[i].sig # stack[j].sig

\* A task that waits in ix_sleep() while a signal of another task is there for
\* it to take has been sent its signal bit: no signal is lost between the test of
\* tsleep() and Wait().  (Those of the timer interrupt can be.)
SleeperIsTold ==
  (pc = "wait" /\ CURSIG(p_sig \ Timers, p_sigmask) # 0) => sleepSig

\* sigsuspend() returns with the signal mask it was called with.
SuspendRestoresMask ==
  [][SuspReturn => p_sigmask' = calls[Len(calls)].mask]_vars

\* sigsuspend() does not return before a signal has been taken.  (A stop signal
\* can cancel a SIGCONT that is caught after it has ended the sleep.)
SuspendTakesSignal ==
  (pc = "suspret" /\ SIGCONT \notin p_sigcatch) => calls[Len(calls)].got

\* sigaction.2: "Signal routines execute with the signal that caused their
\* invocation blocked."
HandlerMasksItsSignal ==
  [][\A i \in DOMAIN stack' :
       (/\ stack'[i].on /\ stack'[i].kind = "catch"
        /\ (i \notin DOMAIN stack \/ ~stack[i].on))
       => stack'[i].sig \in p_sigmask']_vars

\* A trap signal that is masked or ignored is fatal: the program does not go on
\* from the instruction that trapped.
TrapIsFatal ==
  (doomed /\ pc = "user") =>
    \E i \in DOMAIN stack : stack[i].kind = "exit"

\* What is sent is noticed: the variables are of their types, a sleeper is told of
\* its signal, sigsuspend() does not return without one, and a trap that cannot
\* be handled is fatal.
SignalsAreTaken == TypeOK /\ SleeperIsTold /\ SuspendTakesSignal /\ TrapIsFatal

\* SIGKILL ends the process, whatever it waits for.
KillTerminates == (SIGKILL \in p_sig) ~> (pc = "dead")
=============================================================================
