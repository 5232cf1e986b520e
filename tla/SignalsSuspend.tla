---------------------------- MODULE SignalsSuspend ---------------------------
(* Proofs about Signals: sigsuspend() and traps.                               *)
EXTENDS SignalsMasks

-----------------------------------------------------------------------------
(* sigsuspend(), when no handler calls it.                                     *)

\* The program is in sigsuspend() itself, not in a handler that interrupts it.
InSuspend == pc \in {"suspret", "switch_suspret"} \/ (Sleeping /\ chan = "self")

\* SuspendIsOne in terms of InSuspend.
LEMMA SuspendStated ==
  /\ SuspendIsOne <=>
       /\ InSuspend => stack = <<>>
       /\ \A i \in DOMAIN stack : stack[i].pc = "suspret" => i = 1
       /\ Len(calls) = IF Suspended THEN 1 ELSE 0
       /\ Suspended => calls[1].mask = u_oldmask
  /\ Suspended <=> IF stack = <<>> THEN InSuspend ELSE stack[1].pc = "suspret"
<1>1. Suspended <=> IF stack = <<>> THEN InSuspend ELSE stack[1].pc = "suspret"
  BY DEF Suspended, InSuspend
<1>2. (InSuspend => stack = <<>>) <=>
        /\ pc \in {"suspret", "switch_suspret"} => stack = <<>>
        /\ (Sleeping /\ chan = "self") => stack = <<>>
  BY DEF InSuspend
<1> QED
  BY <1>1, <1>2 DEF SuspendIsOne

\* SuspendStated of the next state.
LEMMA SuspendStatedNext ==
  /\ SuspendIsOne' <=>
       /\ InSuspend' => stack' = <<>>
       /\ \A i \in DOMAIN stack' : stack'[i].pc = "suspret" => i = 1
       /\ Len(calls') = IF Suspended' THEN 1 ELSE 0
       /\ Suspended' => calls'[1].mask = u_oldmask'
  /\ Suspended' <=> IF stack' = <<>> THEN InSuspend' ELSE stack'[1].pc = "suspret"
<1>1. Suspended' <=> IF stack' = <<>> THEN InSuspend' ELSE stack'[1].pc = "suspret"
  BY DEF Suspended, InSuspend
<1>2. (InSuspend' => stack' = <<>>) <=>
        /\ pc' \in {"suspret", "switch_suspret"} => stack' = <<>>
        /\ (Sleeping' /\ chan' = "self") => stack' = <<>>
  BY DEF InSuspend
<1> QED
  BY <1>1, <1>2 DEF SuspendIsOne

\* A step that leaves the contexts alone and neither enters nor leaves
\* sigsuspend().
LEMMA SameSuspend ==
  ASSUME SuspendIsOne, UNCHANGED <<stack, calls, u_oldmask>>, InSuspend' <=> InSuspend
  PROVE  SuspendIsOne' /\ (Suspended' <=> Suspended)
  BY SuspendStated, SuspendStatedNext

\* The quiet steps but sigsuspend() and its return are of this kind, as sig_exit().
LEMMA QuietSuspend ==
  ASSUME Types, Quiet \/ sig_exit, ~SuspReturn, \A m \in Masks : ~sigsuspend(m)
  PROVE  UNCHANGED <<stack, calls, u_oldmask>> /\ (InSuspend' <=> InSuspend)
<1> USE DEF InSuspend, Sleeping
<1>1. CASE Syscall
  <2>1. CASE \E s \in Handled, act \in Actions, m \in Masks : sigaction(s, act, m)
    BY <2>1 DEF sigaction, maskVars, history
  <2>2. CASE \E how \in {"SIG_BLOCK", "SIG_UNBLOCK", "SIG_SETMASK"}, m \in Masks : sigprocmask(how, m)
    <3>1. UNCHANGED <<stack, calls, u_oldmask, chan>> /\ pc = "user" /\ pc' \in {"user", "switch_user"}
      BY <2>2 DEF sigprocmask, TakeUnmasked, history, InUser
    <3> QED
      BY <3>1
  <2>3. CASE \E m \in Masks : sigblock(m)
    BY <2>3 DEF sigblock, history
  <2>4. CASE read
    BY <2>4 DEF read, history, maskVars, InUser
  <2>5. CASE \E s \in Senders : killSelf(s)
    <3>1. UNCHANGED <<stack, calls, u_oldmask, chan>> /\ pc = "user" /\ pc' \in {"user", "switch_user"}
      BY <2>5 DEF killSelf, psignal, history, InUser
    <3> QED
      BY <3>1
  <2> QED
    BY <1>1, <2>1, <2>2, <2>3, <2>4, <2>5 DEF Syscall
<1>2. CASE Sleep
  <2>1. UNCHANGED <<stack, calls, u_oldmask, chan>>
    BY <1>2 DEF Sleep, tsleepEnter, tsleepMark, tsleepQueue, tsleepWake, history, maskVars
  <2>2. pc \in {"ts0", "ts1", "ts2", "wait"}
    BY <1>2 DEF Sleep, tsleepEnter, tsleepMark, tsleepQueue, tsleepWake
  <2>3. \/ pc' \in {"ts1", "ts2", "wait"}
        \/ pc' \in {AfterSleep(-1), AfterSleep(0)}
    BY <1>2 DEF Sleep, tsleepEnter, tsleepMark, tsleepQueue, tsleepWake
  <2>4. CASE chan = "self"
    BY <2>1, <2>2, <2>3, <2>4 DEF AfterSleep
  <2>5. CASE chan # "self"
    BY <2>1, <2>2, <2>3, <2>5 DEF AfterSleep
  <2> QED
    BY <2>4, <2>5
<1>3. CASE WakeFile \/ Break \/ sig_exit
  BY <1>3 DEF WakeFile, Break, sig_exit, maskVars, history
<1>4. CASE (\E s \in Senders : Kill(s)) \/ (\E s \in Timers : Timer(s))
  BY <1>4 DEF Kill, Timer, psignal, history
<1> QED
  BY <1>1, <1>2, <1>3, <1>4 DEF Quiet

\* Contexts are pushed: the first one resumes sigsuspend() if that is interrupted.
LEMMA PushSuspend ==
  ASSUME Types, SuspendIsOne, Types', pc' = "psig", u_oldmask' = u_oldmask, stack' # <<>>,
         Len(calls') = Len(calls), \A i \in 1 .. Len(calls) : calls'[i].mask = calls[i].mask,
         \A i \in DOMAIN stack :  i \in DOMAIN stack' /\ stack'[i].pc = stack[i].pc,
         \A i \in DOMAIN stack' : i \notin DOMAIN stack =>
           \/ i = Len(stack) + 1 /\ (stack'[i].pc = "suspret" <=> InSuspend)
           \/ i # 1 /\ stack'[i].pc = "user"
  PROVE  SuspendIsOne' /\ (Suspended' <=> Suspended)
<1>1. ~InSuspend'
  BY DEF InSuspend, Sleeping
<1>2. /\ DOMAIN stack = 1 .. Len(stack) /\ Len(stack) \in Nat
      /\ DOMAIN stack' = 1 .. Len(stack') /\ Len(stack') \in Nat /\ Len(stack') # 0
      /\ stack = <<>> <=> Len(stack) = 0
  BY StackElements DEF Types
<1>3. Suspended' <=> stack'[1].pc = "suspret"
  BY SuspendStatedNext
<1>4. Suspended' <=> Suspended
  <2>1. CASE stack = <<>>
    <3>1. 1 \in DOMAIN stack' /\ 1 \notin DOMAIN stack /\ 1 = Len(stack) + 1
      BY <1>2, <2>1
    <3>2. stack'[1].pc = "suspret" <=> InSuspend
      BY <3>1
    <3> QED
      BY <1>3, <2>1, <3>2, SuspendStated
  <2>2. CASE stack # <<>>
    <3>1. 1 \in DOMAIN stack
      BY <1>2, <2>2
    <3> QED
      BY <1>3, <2>2, <3>1, SuspendStated
  <2> QED
    BY <2>1, <2>2
<1>5. ASSUME NEW i \in DOMAIN stack', stack'[i].pc = "suspret" PROVE i = 1
  <2>1. CASE i \in DOMAIN stack
    BY <1>5, <2>1, SuspendStated
  <2>2. CASE i \notin DOMAIN stack
    <3>1. i = Len(stack) + 1 /\ InSuspend
      BY <1>5, <2>2
    <3>2. stack = <<>>
      BY <3>1, SuspendStated
    <3> QED
      BY <1>2, <3>1, <3>2
  <2> QED
    BY <2>1, <2>2
<1>6. Suspended => calls'[1].mask = calls[1].mask
  BY SuspendStated
<1> QED
  BY <1>1, <1>4, <1>5, <1>6, SuspendStated, SuspendStatedNext

\* A context is taken up: the one that resumes sigsuspend() is the first one.
LEMMA TakenUpSuspend ==
  ASSUME Types, StackIsBuilt, SuspendIsOne, NEW n, TakenUp(n), UNCHANGED <<calls, u_oldmask>>
  PROVE  SuspendIsOne' /\ (Suspended' <=> Suspended)
<1>1. /\ n \in 1 .. Len(stack) /\ pc' = stack[n].pc /\ pc' \in Labels
      /\ stack' \in Seq(Context) /\ Len(stack') = IF stack[n].kind = "resume" THEN n - 1 ELSE n
      /\ \A i \in 1 .. Len(stack') : stack'[i].pc = stack[i].pc
  BY DEF TakenUp, Alike
<1>2. /\ DOMAIN stack = 1 .. Len(stack) /\ Len(stack) \in Nat
      /\ DOMAIN stack' = 1 .. Len(stack') /\ Len(stack') \in Nat
      /\ stack = <<>> <=> Len(stack) = 0
      /\ stack' = <<>> <=> Len(stack') = 0
  BY <1>1, StackElements DEF Types
<1>3. InSuspend' <=> stack[n].pc = "suspret"
  BY <1>1 DEF InSuspend, Sleeping, Labels
<1>4. stack # <<>> /\ (Suspended <=> stack[1].pc = "suspret")
  BY <1>1, <1>2, SuspendStated
<1>5. stack[n].pc = "suspret" => n = 1
  BY <1>1, <1>2, SuspendStated
<1>6. stack' = <<>> => n = 1
  BY <1>1, <1>2
<1>7. stack[1].kind = "resume"
  BY <1>4 DEF StackIsBuilt
<1>8. InSuspend' => stack' = <<>>
  BY <1>1, <1>2, <1>3, <1>5, <1>7
<1>9. Suspended' <=> Suspended
  <2>1. CASE stack' = <<>>
    BY <1>3, <1>4, <1>6, <2>1, SuspendStatedNext
  <2>2. CASE stack' # <<>>
    BY <1>1, <1>2, <1>4, <2>2, SuspendStatedNext
  <2> QED
    BY <2>1, <2>2
<1>10. \A i \in DOMAIN stack' : stack'[i].pc = "suspret" => i = 1
  BY <1>1, <1>2, SuspendStated
<1> QED
  BY <1>8, <1>9, <1>10, SuspendStated, SuspendStatedNext

\* What the steps that push contexts do to sigsuspend().
LEMMA PushesSuspend ==
  ASSUME Types, StackIsBuilt, SuspendIsOne, Types', Launch \/ psig \/ \E s \in Traps : trap(s)
  PROVE  SuspendIsOne' /\ (Suspended' <=> Suspended)
<1>1. /\ DOMAIN stack = 1 .. Len(stack) /\ Len(stack) \in Nat
      /\ stack = <<>> <=> Len(stack) = 0
      /\ stack \in Seq(Context)
  BY StackElements DEF Types
<1>2. ASSUME NEW l \in Labels, stack' = Append(stack, ResumeContext(l)), l = "suspret" <=> InSuspend,
             pc' = "psig", u_oldmask' = u_oldmask, calls' = calls
      PROVE  SuspendIsOne' /\ (Suspended' <=> Suspended)
  <2>1. ResumeContext(l) \in Context /\ ResumeContext(l).pc = l
    BY ContextTypes DEF ResumeContext
  <2>2. /\ DOMAIN stack' = 1 .. Len(stack) + 1 /\ stack'[Len(stack) + 1] = ResumeContext(l)
        /\ \A i \in 1 .. Len(stack) : stack'[i] = stack[i]
        /\ stack' \in Seq(Context) /\ Len(stack') = Len(stack) + 1
    BY <1>1, <1>2, <2>1, Pushed
  <2>3. stack' # <<>>
    BY <1>1, <2>2, StackElements
  <2> QED
    BY <1>1, <1>2, <2>1, <2>2, <2>3, PushSuspend
<1>3. ASSUME NEW l \in Labels, NEW s \in Sigs, NEW m \in SUBSET Sigs,
             stack' = stack \o <<ResumeContext(l), Frame("catch", s, m)>>, l = "suspret" <=> InSuspend,
             pc' = "psig", u_oldmask' = u_oldmask,
             Len(calls') = Len(calls), \A i \in 1 .. Len(calls) : calls'[i].mask = calls[i].mask
      PROVE  SuspendIsOne' /\ (Suspended' <=> Suspended)
  <2>1. ResumeContext(l) \in Context /\ ResumeContext(l).pc = l
    BY ContextTypes DEF ResumeContext
  <2>2. Frame("catch", s, m) \in Context /\ Frame("catch", s, m).pc = "user"
    BY ContextTypes DEF Frame
  <2>3. /\ DOMAIN stack' = 1 .. Len(stack) + 2 /\ stack'[Len(stack) + 1] = ResumeContext(l)
        /\ stack'[Len(stack) + 2] = Frame("catch", s, m)
        /\ \A i \in 1 .. Len(stack) : stack'[i] = stack[i]
        /\ stack' \in Seq(Context) /\ Len(stack') = Len(stack) + 2
    BY <1>1, <1>3, <2>1, <2>2, PushedTwo
  <2>4. stack' # <<>>
    BY <1>1, <2>3, StackElements
  <2>5. ASSUME NEW i \in DOMAIN stack', i \notin DOMAIN stack
        PROVE  \/ i = Len(stack) + 1 /\ (stack'[i].pc = "suspret" <=> InSuspend)
               \/ i # 1 /\ stack'[i].pc = "user"
    <3>1. i = Len(stack) + 1 \/ i = Len(stack) + 2
      BY <1>1, <2>3, <2>5
    <3> QED
      BY <1>1, <1>3, <2>1, <2>2, <2>3, <3>1
  <2> QED
    BY <1>1, <1>3, <2>3, <2>4, <2>5, PushSuspend
<1>4. CASE Launch
  <2>1. u_oldmask' = u_oldmask
    BY <1>4 DEF Launch
  <2>2. PICK l \in Labels :
          /\ pc \in {"user", "switch_user"} => l = "user"
          /\ pc \in {"suspret", "switch_suspret"} => l = "suspret"
          /\ pc \in {"user", "switch_user", "suspret", "switch_suspret"}
          /\ \/ stack' = Append(stack, ResumeContext(l)) /\ calls' = calls
             \/ /\ stack' = stack \o <<ResumeContext(l), Frame("catch", SIGMSG, p_sigmask)>>
                /\ SIGMSG \in p_sigcatch \ p_sigmask /\ MarkCalls
    BY <1>4, LaunchTypes
  <2>3. l = "suspret" <=> InSuspend
    BY <2>2 DEF InSuspend, Sleeping
  <2>4. pc' = "psig"
    BY <1>4 DEF Launch
  <2>5. CASE stack' = Append(stack, ResumeContext(l)) /\ calls' = calls
    BY <1>2, <2>1, <2>3, <2>4, <2>5
  <2>6. CASE /\ stack' = stack \o <<ResumeContext(l), Frame("catch", SIGMSG, p_sigmask)>>
             /\ SIGMSG \in p_sigcatch \ p_sigmask /\ MarkCalls
    <3>1. SIGMSG \in Sigs /\ p_sigmask \in SUBSET Sigs
      BY <2>6 DEF Types
    <3>2. Len(calls') = Len(calls) /\ \A i \in 1 .. Len(calls) : calls'[i].mask = calls[i].mask
      BY <2>6, Marked
    <3> QED
      BY ZenonT(30), <1>3, <2>1, <2>3, <2>4, <2>6, <3>1, <3>2
  <2> QED
    BY <2>2, <2>5, <2>6
<1>5. CASE psig
  <2>1. u_oldmask' = u_oldmask /\ pc' = "psig" /\ pc = "psig" /\ MarkCalls
    BY <1>5 DEF psig
  <2>2. PICK c \in Context : stack' = Append(stack, c) /\ c.pc = "user"
    <3>1. PICK k \in {"catch", "exit"}, s \in Sigs, m \in SUBSET Sigs : stack' = Append(stack, Frame(k, s, m))
      <4>1. p_sigmask \in SUBSET Sigs /\ p_sigmask' \in SUBSET Sigs
        BY DEF Types
      <4> QED
        BY <1>5, <4>1, PsigTypes
    <3>2. Frame(k, s, m) \in Context /\ Frame(k, s, m).pc = "user"
      BY ContextTypes DEF Frame
    <3> QED
      BY <3>1, <3>2
  <2>3. /\ DOMAIN stack' = 1 .. Len(stack) + 1 /\ stack'[Len(stack) + 1] = c
        /\ \A i \in 1 .. Len(stack) : stack'[i] = stack[i]
        /\ stack' \in Seq(Context) /\ Len(stack') = Len(stack) + 1
    BY <1>1, <2>2, Pushed
  <2>4. stack # <<>> /\ Len(stack) + 1 # 1 /\ stack' # <<>>
    BY <1>1, <2>1, <2>3, StackElements DEF StackIsBuilt
  <2>5. Len(calls') = Len(calls) /\ \A i \in 1 .. Len(calls) : calls'[i].mask = calls[i].mask
    BY <2>1, Marked
  <2> QED
    BY <1>1, <2>1, <2>2, <2>3, <2>4, <2>5, PushSuspend
<1>6. ASSUME NEW s \in Traps, trap(s) PROVE SuspendIsOne' /\ (Suspended' <=> Suspended)
  <2>1. u_oldmask' = u_oldmask /\ pc' = "psig" /\ pc = "user" /\ calls' = calls
    BY <1>6 DEF trap, psignal
  <2>2. "user" \in Labels /\ ("user" = "suspret" <=> InSuspend)
    BY <2>1 DEF InSuspend, Sleeping, Labels
  <2>3. s \in Sigs /\ p_sigmask \in SUBSET Sigs
    BY SignalsAssumption DEF Types
  <2>4. \/ stack' = Append(stack, ResumeContext("user"))
        \/ stack' = stack \o <<ResumeContext("user"), Frame("catch", s, p_sigmask)>>
    BY <1>6, TrapTypes
  <2>5. CASE stack' = Append(stack, ResumeContext("user"))
    BY <1>2, <2>1, <2>2, <2>5
  <2>6. CASE stack' = stack \o <<ResumeContext("user"), Frame("catch", s, p_sigmask)>>
    BY ZenonT(30), <1>3, <2>1, <2>2, <2>3, <2>6
  <2> QED
    BY ZenonT(30), <2>4, <2>5, <2>6
<1> QED
  BY <1>4, <1>5, <1>6

\* Every step keeps SuspendIsOne.
LEMMA NextSuspend ==
  ASSUME OneSuspend, Types, StackIsBuilt, SuspendIsOne, [Next]_vars, Types'
  PROVE  SuspendIsOne'
<1>1. CASE UNCHANGED vars
  <2>1. UNCHANGED <<stack, calls, u_oldmask>> /\ (InSuspend' <=> InSuspend)
    BY <1>1 DEF vars, maskVars, history, InSuspend, Sleeping
  <2> QED
    BY <2>1, SameSuspend
<1>2. ASSUME NEW m \in Masks, sigsuspend(m) PROVE SuspendIsOne'
  <2>1. /\ pc = "user" /\ stack = <<>> /\ stack' = <<>> /\ u_oldmask' = p_sigmask
        /\ pc' = "ts0" /\ chan' = "self" /\ calls' = Append(calls, [mask |-> p_sigmask, got |-> FALSE])
    BY <1>2 DEF sigsuspend, InUser, OneSuspend
  <2>2. ~Suspended /\ Suspended' /\ InSuspend'
    BY <2>1, SuspendStated, SuspendStatedNext DEF InSuspend, Sleeping
  <2>3. Len(calls) = 0 /\ calls \in Seq([mask : SUBSET Sigs, got : BOOLEAN])
    BY <2>2, SuspendStated DEF Types
  <2>4. [mask |-> p_sigmask, got |-> FALSE] \in [mask : SUBSET Sigs, got : BOOLEAN]
    BY DEF Types
  <2>5. Len(calls') = 1 /\ calls'[1] = [mask |-> p_sigmask, got |-> FALSE]
    BY <2>1, <2>3, <2>4
  <2>6. \A i \in DOMAIN stack' : stack'[i].pc = "suspret" => i = 1
    BY <2>1
  <2> QED
    BY <2>1, <2>2, <2>5, <2>6, SuspendStatedNext
<1>3. CASE SuspReturn
  <2>1. /\ pc = "suspret" /\ pc' \in {"user", "switch_user"} /\ stack' = stack
        /\ calls' = SubSeq(calls, 1, Len(calls) - 1)
    BY <1>3 DEF SuspReturn, TakeUnmasked
  <2>2. InSuspend /\ ~InSuspend'
    BY <2>1 DEF InSuspend, Sleeping
  <2>3. stack = <<>> /\ Suspended /\ ~Suspended' /\ Len(calls) = 1
    BY <2>1, <2>2, SuspendStated, SuspendStatedNext
  <2>4. Len(calls') = 0
    <3>1. calls \in Seq([mask : SUBSET Sigs, got : BOOLEAN]) /\ Len(calls) - 1 = 0
      BY <2>3 DEF Types
    <3>2. calls' = SubSeq(calls, 1, 0)
      BY <2>1, <3>1
    <3> QED
      BY <3>1, <3>2
  <2>5. \A i \in DOMAIN stack' : stack'[i].pc = "suspret" => i = 1
    BY <2>1, <2>3
  <2> QED
    BY <2>2, <2>3, <2>4, <2>5, SuspendStatedNext
<1>4. CASE (Quiet \/ sig_exit) /\ ~SuspReturn /\ \A m \in Masks : ~sigsuspend(m)
  BY <1>4, QuietSuspend, SameSuspend
<1>5. CASE Launch \/ psig \/ \E s \in Traps : trap(s)
  BY <1>5, PushesSuspend
<1>6. CASE psigDone \/ sig_trampoline
  <2>1. UNCHANGED <<calls, u_oldmask>>
    BY <1>6 DEF psigDone, sig_trampoline, history
  <2> QED
    BY <1>6, <2>1, DoneTakesUp, TrampolineTakesUp, TakenUpSuspend
<1> QED
  BY <1>1, <1>2, <1>3, <1>4, <1>5, <1>6, NextCases

-----------------------------------------------------------------------------
(* sigsuspend() returns after a signal.                                        *)

\* sigsuspend() is interrupted and has had no signal yet.
Waits == stack # <<>> /\ stack[1].pc = "suspret" /\ ~calls[1].got

\* A signal posted to a process that has one to take does not take that away: a
\* stop signal is not caught, and SIGCONT is taken only when it is.
LEMMA PendingKeepsReady ==
  ASSUME StopsNotCaught, Types, CatchAgrees, Ready, NEW s,
         p_sig' = Pending(s) \/ p_sig' = p_sig, p_sigmask' \subseteq p_sigmask,
         p_sigignore' \subseteq p_sigignore, u_signal' = u_signal,
         SIGCONT \in p_sigcatch => SIGCONT \in p_sigcatch'
  PROVE  Ready'
<1>1. CASE SIGCONT \in p_sigcatch
  BY <1>1 DEF Ready
<1>2. CASE SIGCONT \notin p_sigcatch
  <2>1. PICK r \in p_sig \ p_sigmask : Taken(r)
    BY <1>2 DEF Ready
  <2>2. r \in Sigs
    BY <2>1 DEF Types
  <2>3. r # SIGCONT
    <3>1. u_signal[SIGCONT] = "catch" /\ SIGCONT \in Sigs => SIGCONT \in p_sigcatch
      BY DEF CatchAgrees, SIGCONT, SIGILL
    <3>2. SIGCONT \in defaultignmask
      BY DEF defaultignmask
    <3> QED
      BY <1>2, <2>1, <2>2, <3>1, <3>2 DEF Taken
  <2>4. r \notin stopsigmask
    BY <2>1, <2>2 DEF Taken, CatchAgrees, StopsNotCaught
  <2>5. r \in p_sig'
    BY <2>1, <2>3, <2>4 DEF Pending
  <2>6. Taken(r)'
    BY <2>1 DEF Taken
  <2> QED
    BY <2>1, <2>5, <2>6 DEF Ready
<1> QED
  BY <1>1, <1>2

\* _psignal() in particular, with the exception of SIGCONT.
LEMMA PsignalKeepsReady ==
  ASSUME StopsNotCaught, Types, CatchAgrees, NEW s, psignal(s)
  PROVE  /\ SIGCONT \in p_sigcatch => SIGCONT \in p_sigcatch'
         /\ Ready => Ready'
<1>1. SIGCONT \in p_sigcatch => SIGCONT \in p_sigcatch'
  BY PsignalPosts DEF SIGCONT, SIGILL
<1>2. PICK r : p_sig' = Pending(r) \/ p_sig' = p_sig
  BY PsignalPosts
<1>3. p_sigmask' \subseteq p_sigmask /\ p_sigignore' \subseteq p_sigignore /\ u_signal' = u_signal
  BY PsignalPosts
<1> QED
  BY <1>1, <1>2, <1>3, PendingKeepsReady

\* CURSIG() leaves the signal that it returns.
LEMMA CursigReady ==
  ASSUME NEW P, P \subseteq Sigs, CURSIG(P, p_sigmask) # 0, p_sig' = AfterCURSIG(P, p_sigmask),
         UNCHANGED <<p_sigmask, p_sigignore, u_signal>>
  PROVE  Ready'
<1>1. PICK s : s \in p_sig' /\ s \notin p_sigmask /\ Taken(s)
  BY CursigIsFirst
<1>2. s \in p_sig' \ p_sigmask' /\ Taken(s)'
  BY <1>1 DEF Taken
<1> QED
  BY <1>2 DEF Ready

\* Once a signal was taken no sigsuspend() waits for one.
LEMMA MarkedHasSignal ==
  ASSUME Types, SuspendIsOne, MarkCalls, Suspended' <=> Suspended
  PROVE  ~Waits'
<1>1. CASE Suspended
  <2>1. Len(calls) = 1
    BY <1>1 DEF SuspendIsOne
  <2>2. calls'[1].got
    BY <2>1, Marked
  <2> QED
    BY <2>2 DEF Waits
<1>2. CASE ~Suspended
  BY <1>2, SuspendStatedNext DEF Waits
<1> QED
  BY <1>1, <1>2

\* What it takes to have SuspendHasSignal of the next state.
LEMMA HasSignalProved ==
  ASSUME pc' = "switch_suspret" => Ready',
         pc' = "suspret" => calls'[1].got \/ SIGCONT \in p_sigcatch',
         Waits' => pc' = "psig" /\ Len(stack') = 1 /\ Ready'
  PROVE  SuspendHasSignal'
  BY DEF SuspendHasSignal, Waits

\* The quiet steps and sig_exit() keep SuspendHasSignal.
LEMMA QuietHasSignal ==
  ASSUME OneSuspend, StopsNotCaught, Types, StackIsBuilt, CatchAgrees, SuspendIsOne, SuspendHasSignal,
         Quiet \/ sig_exit
  PROVE  SuspendHasSignal'
<1>1. pc # "psig" /\ stack' = stack
  BY QuietKeepsStack DEF sig_exit
<1>2. ~Waits
  BY <1>1 DEF SuspendHasSignal, Waits
<1>3. ~Waits'
  <2>1. CASE SuspReturn
    <3>1. stack = <<>>
      BY <2>1 DEF SuspReturn, SuspendIsOne
    <3> QED
      BY <1>1, <3>1 DEF Waits
  <2>2. CASE \E m \in Masks : sigsuspend(m)
    BY <1>1, <2>2 DEF Waits, sigsuspend, InUser, OneSuspend
  <2>3. CASE ~SuspReturn /\ \A m \in Masks : ~sigsuspend(m)
    BY <1>2, <2>3, QuietSuspend DEF Waits
  <2> QED
    BY <2>1, <2>2, <2>3
<1>4. ASSUME pc' \notin {"switch_suspret", "suspret"} PROVE SuspendHasSignal'
  BY <1>3, <1>4, HasSignalProved
<1>5. CASE Syscall
  <2>1. pc' \notin {"switch_suspret", "suspret"}
    BY ZenonT(30), <1>5 DEF Syscall, sigaction, sigprocmask, TakeUnmasked, sigblock, sigsuspend, read, killSelf, InUser
  <2> QED
    BY <1>4, <2>1
<1>6. CASE tsleepMark \/ tsleepQueue \/ SuspReturn \/ sig_exit
  <2>1. pc' \notin {"switch_suspret", "suspret"}
    BY <1>6 DEF tsleepMark, tsleepQueue, SuspReturn, TakeUnmasked, sig_exit
  <2> QED
    BY <1>4, <2>1
<1>7. CASE tsleepEnter
  <2>1. UNCHANGED <<p_sigmask, p_sigignore, u_signal>> /\ p_sig' = AfterCURSIG(p_sig, p_sigmask)
    BY <1>7 DEF tsleepEnter, maskVars, dispositions
  <2>2. pc' # "suspret" /\ (pc' = "switch_suspret" => CURSIG(p_sig, p_sigmask) # 0)
    BY <1>7 DEF tsleepEnter, AfterSleep
  <2>3. pc' = "switch_suspret" => Ready'
    BY <2>1, <2>2, CursigReady DEF Types
  <2> QED
    BY <1>3, <2>2, <2>3, HasSignalProved
<1>8. CASE tsleepWake
  <2>1. PICK P : /\ P \subseteq Sigs /\ p_sig' = AfterCURSIG(P, p_sigmask)
                 /\ pc' = AfterSleep(IF CURSIG(P, p_sigmask) # 0 THEN -1 ELSE 0)
    <3>1. p_sig \subseteq Sigs /\ (SIGINT \in Sigs => Pending(SIGINT) \subseteq Sigs)
      BY PendingAdds DEF Types
    <3> QED
      BY <1>8, <3>1 DEF tsleepWake
  <2>2. UNCHANGED <<p_sigmask, p_sigignore, u_signal>>
    BY <1>8 DEF tsleepWake, maskVars, dispositions
  <2>3. pc' # "suspret" /\ (pc' = "switch_suspret" => CURSIG(P, p_sigmask) # 0)
    BY <2>1 DEF AfterSleep
  <2>4. pc' = "switch_suspret" => Ready'
    BY ZenonT(30), <2>1, <2>2, <2>3, CursigReady
  <2> QED
    BY <1>3, <2>3, <2>4, HasSignalProved
<1>9. CASE WakeFile \/ Break
  <2>1. UNCHANGED <<p_sig, p_sigmask, dispositions, pc, calls>>
    BY <1>9 DEF WakeFile, Break, maskVars, history
  <2>2. Ready' <=> Ready
    BY ZenonT(30), <2>1 DEF Ready, Taken, dispositions
  <2> QED
    BY <1>3, <2>1, <2>2, HasSignalProved DEF SuspendHasSignal, dispositions
<1>10. CASE (\E s \in Senders : Kill(s)) \/ (\E s \in Timers : Timer(s))
  <2>1. PICK s : psignal(s) /\ UNCHANGED <<pc, calls>>
    BY <1>10 DEF Kill, Timer, history
  <2>2. (SIGCONT \in p_sigcatch => SIGCONT \in p_sigcatch') /\ (Ready => Ready')
    BY <2>1, PsignalKeepsReady
  <2> QED
    BY <1>3, <2>1, <2>2, HasSignalProved DEF SuspendHasSignal
<1> QED
  BY <1>5, <1>6, <1>7, <1>8, <1>9, <1>10 DEF Quiet, Sleep

\* The stack that a context is pushed on keeps its first context.
LEMMA FirstContext ==
  ASSUME Types, NEW l \in Labels,
         \/ stack' = Append(stack, ResumeContext(l))
         \/ \E s \in Sigs : stack' = stack \o <<ResumeContext(l), Frame("catch", s, p_sigmask)>>
  PROVE  /\ stack # <<>> => stack'[1] = stack[1]
         /\ stack = <<>> => stack'[1].pc = l
         /\ (stack = <<>> /\ stack' = Append(stack, ResumeContext(l))) => Len(stack') = 1
<1> DEFINE c == ResumeContext(l)
           n == Len(stack)
<1>1. /\ stack \in Seq(Context) /\ n \in Nat /\ (stack = <<>> <=> n = 0)
      /\ c \in Context /\ c.pc = l
  BY StackElements, ContextTypes DEF Types, ResumeContext
<1>2. stack' = Append(stack, c) \/ \E d \in Context : stack' = stack \o <<c, d>>
  BY ZenonT(30), ContextTypes DEF Types
<1> HIDE DEF c
<1>3. /\ \A i \in 1 .. n : stack'[i] = stack[i]
      /\ stack'[n + 1] = c
      /\ stack' = Append(stack, c) => Len(stack') = n + 1
  <2>1. CASE stack' = Append(stack, c)
    BY <1>1, <2>1, Pushed
  <2>2. ASSUME NEW d \in Context, stack' = stack \o <<c, d>>, stack' # Append(stack, c)
        PROVE  (\A i \in 1 .. n : stack'[i] = stack[i]) /\ stack'[n + 1] = c
    BY <1>1, <2>2, PushedTwo
  <2> QED
    BY ZenonT(30), <1>2, <2>1, <2>2
<1> HIDE DEF n
<1>4. (n # 0 => 1 \in 1 .. n) /\ (n = 0 => n + 1 = 1)
  BY <1>1
<1> QED
  BY ZenonT(30), <1>1, <1>3, <1>4 DEF c

\* Every step keeps SuspendHasSignal.
LEMMA NextTakes ==
  ASSUME OneSuspend, StopsNotCaught, Types, StackIsBuilt, CatchAgrees, SuspendIsOne, SuspendHasSignal,
         [Next]_vars, Types'
  PROVE  SuspendHasSignal'
<1>1. CASE UNCHANGED vars
  BY <1>1 DEF vars, maskVars, dispositions, history, SuspendHasSignal, Ready, Taken
<1>2. CASE Launch
  <2>1. PICK l \in Labels :
          /\ pc \in {"user", "switch_user"} => l = "user"
          /\ pc \in {"user", "switch_user", "suspret", "switch_suspret"} /\ pc' = "psig"
          /\ \/ /\ stack' = Append(stack, ResumeContext(l))
                /\ p_sig' \in {p_sig} \cup {Pending(s) : s \in {SIGINT, SIGMSG} \cap (Sigs \ p_sigignore)}
                /\ p_sigmask' = p_sigmask /\ calls' = calls
             \/ MarkCalls
    BY ZenonT(30), <1>2, LaunchTypes
  <2>2. CASE MarkCalls
    <3>1. ~Waits'
      BY <1>2, <2>2, PushesSuspend, MarkedHasSignal
    <3> QED
      BY <2>1, <3>1, HasSignalProved
  <2>3. CASE /\ stack' = Append(stack, ResumeContext(l))
             /\ p_sig' \in {p_sig} \cup {Pending(s) : s \in {SIGINT, SIGMSG} \cap (Sigs \ p_sigignore)}
             /\ p_sigmask' = p_sigmask /\ calls' = calls
    <3>1. ASSUME Waits' PROVE Len(stack') = 1 /\ Ready'
      <4>1. stack = <<>>
        BY <2>1, <2>3, <3>1, FirstContext DEF Waits, SuspendHasSignal
      <4>2. l = "suspret" /\ Len(stack') = 1
        BY ZenonT(30), <2>3, <3>1, <4>1, FirstContext DEF Waits
      <4>3. Ready
        BY <2>1, <2>3, <3>1, <4>2 DEF Waits, SuspendHasSignal, Ready
      <4>4. p_sigignore' = p_sigignore /\ u_signal' = u_signal /\ p_sigcatch' = p_sigcatch
        BY <1>2 DEF Launch, dispositions
      <4>5. PICK r : p_sig' = Pending(r) \/ p_sig' = p_sig
        BY <2>3
      <4> QED
        BY ZenonT(30), <2>3, <4>2, <4>3, <4>4, <4>5, PendingKeepsReady
    <3> QED
      BY <2>1, <3>1, HasSignalProved
  <2> QED
    BY <2>1, <2>2, <2>3
<1>3. CASE psig
  <2>1. MarkCalls /\ pc' = "psig"
    BY <1>3, PsigTypes
  <2>2. ~Waits'
    BY <1>3, <2>1, PushesSuspend, MarkedHasSignal
  <2> QED
    BY <2>1, <2>2, HasSignalProved
<1>4. ASSUME NEW s \in Traps, trap(s) PROVE SuspendHasSignal'
  <2>1. /\ pc = "user" /\ pc' = "psig" /\ calls' = calls
        /\ \/ stack' = Append(stack, ResumeContext("user"))
           \/ stack' = stack \o <<ResumeContext("user"), Frame("catch", s, p_sigmask)>>
    BY <1>4, TrapTypes DEF trap
  <2>2. s \in Sigs /\ "user" \in Labels
    BY ZenonT(30), SignalsAssumption DEF Labels
  <2>3. ~Waits'
    BY ZenonT(30), <2>1, <2>2, FirstContext DEF Waits, SuspendHasSignal
  <2> QED
    BY ZenonT(30), <2>1, <2>3, HasSignalProved
<1>5. CASE psigDone
  <2>1. TakenUp(Len(stack)) /\ UNCHANGED <<calls, dispositions>> /\ pc = "psig"
    BY ZenonT(30), <1>5, DoneTakesUp DEF psigDone, history
  <2>2. /\ Len(stack) \in Nat \ {0} /\ pc' = stack[Len(stack)].pc /\ pc' \in Labels
        /\ stack' \in Seq(Context)
        /\ Len(stack') = IF stack[Len(stack)].kind = "resume" THEN Len(stack) - 1 ELSE Len(stack)
        /\ \A i \in 1 .. Len(stack') : stack'[i].pc = stack[i].pc
        /\ stack # <<>>
    <3>1. Len(stack) \in Nat /\ (stack = <<>> <=> Len(stack) = 0)
      BY ZenonT(30), StackElements DEF Types
    <3>2. /\ Len(stack) \in 1 .. Len(stack)
          /\ pc' = stack[Len(stack)].pc /\ pc' \in Labels /\ stack' \in Seq(Context)
          /\ Len(stack') = IF stack[Len(stack)].kind = "resume" THEN Len(stack) - 1 ELSE Len(stack)
      BY ZenonT(30), <2>1 DEF TakenUp
    <3>3. \A i \in 1 .. Len(stack') : stack'[i].pc = stack[i].pc
      BY ZenonT(30), <2>1 DEF TakenUp, Alike
    <3>4. Len(stack) \in Nat \ {0}
      <4> DEFINE k == Len(stack)
      <4>1. k \in Nat /\ k \in 1 .. k
        BY ZenonT(30), <3>1, <3>2
      <4> HIDE DEF k
      <4>2. k \in Nat \ {0}
        BY <4>1
      <4> QED
        BY ZenonT(30), <4>2 DEF k
    <3> QED
      BY ZenonT(30), <3>1, <3>2, <3>3, <3>4
  <2>3. ASSUME Waits PROVE SIGCONT \in p_sigcatch /\ Len(stack) = 1
    <3>1. Ready /\ Len(stack) = 1
      BY <2>3 DEF SuspendHasSignal, Waits
    <3>2. CURSIG(p_sig, p_sigmask) = 0 /\ p_sig \subseteq Sigs
      BY <1>5 DEF psigDone, Types
    <3>3. \A s \in p_sig \ p_sigmask : ~Taken(s)
      BY <3>2, CursigIsFirst
    <3> QED
      BY <3>1, <3>3 DEF Ready
  <2>4. ~Waits'
    <3>1. SUFFICES ASSUME Waits' PROVE FALSE
      OBVIOUS
    <3>2. stack' # <<>> /\ stack'[1].pc = "suspret" /\ ~calls[1].got
      BY <2>1, <3>1 DEF Waits
    <3>3. 1 \in 1 .. Len(stack')
      BY <2>2, <3>2, StackElements
    <3>4. Waits
      BY <2>2, <3>2, <3>3 DEF Waits
    <3>5. stack[1].kind = "resume" /\ Len(stack) = 1
      BY <2>2, <2>3, <3>4 DEF StackIsBuilt
    <3> QED
      BY <2>2, <3>3, <3>5
  <2>5. ASSUME pc' = "suspret" PROVE calls'[1].got \/ SIGCONT \in p_sigcatch'
    <3>1. Len(stack) \in DOMAIN stack
      BY <2>2, StackElements DEF Types
    <3>2. Len(stack) = 1 /\ stack[1].pc = "suspret"
      BY ZenonT(30), <2>2, <2>5, <3>1 DEF SuspendIsOne
    <3> QED
      BY ZenonT(30), <2>1, <2>2, <2>3, <3>2 DEF Waits, dispositions
  <2> QED
    BY ZenonT(30), <2>2, <2>4, <2>5, HasSignalProved DEF Labels
<1>6. CASE sig_trampoline
  <2> DEFINE n == Len(stack) - 1
  <2>1. TakenUp(n) /\ UNCHANGED <<calls, dispositions>> /\ pc = "user"
    BY <1>6, TrampolineTakesUp DEF sig_trampoline, history
  <2>2. /\ n \in 1 .. Len(stack) /\ Len(stack) \in Nat /\ pc' = stack[n].pc /\ pc' \in Labels
        /\ stack' \in Seq(Context) /\ Len(stack') \in Nat
        /\ Len(stack') = n - 1 \/ Len(stack') = n
        /\ \A i \in 1 .. Len(stack') : stack'[i].pc = stack[i].pc
        /\ stack # <<>> /\ (stack' = <<>> <=> Len(stack') = 0)
    <3>1. n \in 1 .. Len(stack) /\ Len(stack) \in Nat /\ stack # <<>>
      BY SMTT(30), <2>1, StackElements DEF TakenUp, Types
    <3>2. /\ pc' = stack[n].pc /\ pc' \in Labels /\ stack' \in Seq(Context)
          /\ Len(stack') = n - 1 \/ Len(stack') = n
          /\ \A i \in 1 .. Len(stack') : stack'[i].pc = stack[i].pc
      BY <2>1 DEF TakenUp, Alike
    <3> QED
      BY <3>1, <3>2, StackElements
  <2>3. ~Waits
    BY <2>1 DEF SuspendHasSignal, Waits
  <2>4. ~Waits'
    BY <2>1, <2>2, <2>3 DEF Waits
  <2>5. ASSUME pc' = "suspret" PROVE calls'[1].got
    <3>1. n \in DOMAIN stack
      BY <2>2, StackElements DEF Types
    <3>2. stack[1].pc = "suspret"
      BY ZenonT(30), <2>2, <2>5, <3>1 DEF SuspendIsOne
    <3> QED
      BY <2>1, <2>2, <2>3, <3>2 DEF Waits
  <2> QED
    BY <2>2, <2>4, <2>5, HasSignalProved DEF Labels
<1> QED
  BY ZenonT(30), <1>1, <1>2, <1>3, <1>4, <1>5, <1>6, QuietHasSignal, NextCases

-----------------------------------------------------------------------------
(* A trap that cannot be handled ends the program.                             *)

\* A frame that ends the program.
ExitFrame == \E i \in DOMAIN stack : stack[i].kind = "exit"

\* What is pushed on the stack leaves the frames below it.
LEMMA PushKeepsExit ==
  ASSUME Types, ExitFrame, NEW c \in Context, NEW d \in Context,
         stack' = Append(stack, c) \/ stack' = stack \o <<c, d>>
  PROVE  ExitFrame'
<1> DEFINE n == Len(stack)
<1>1. stack \in Seq(Context) /\ n \in Nat /\ DOMAIN stack = 1 .. n
  BY StackElements DEF Types
<1>2. PICK i \in 1 .. n : stack[i].kind = "exit"
  BY <1>1 DEF ExitFrame
<1>3. (DOMAIN stack' = 1 .. n + 1 \/ DOMAIN stack' = 1 .. n + 2) /\ stack'[i] = stack[i]
  <2>1. CASE stack' = Append(stack, c)
    BY <1>1, <2>1, Pushed
  <2>2. CASE stack' = stack \o <<c, d>>
    BY <1>1, <2>2, PushedTwo
  <2> QED
    BY <2>1, <2>2
<1> HIDE DEF n
<1>4. i \in DOMAIN stack'
  BY <1>1, <1>2, <1>3
<1> QED
  BY <1>2, <1>3, <1>4 DEF ExitFrame

\* Taking up the last context does not remove such a frame, nor does taking up the
\* one below the frame of a handler.
LEMMA TakenUpKeepsExit ==
  ASSUME Types, ExitFrame, NEW n, TakenUp(n),
         n = Len(stack) \/ (n = Len(stack) - 1 /\ Top.kind = "catch")
  PROVE  ExitFrame'
<1> DEFINE k == Len(stack)
           h == Len(stack')
<1>1. /\ stack \in Seq(Context) /\ k \in Nat /\ DOMAIN stack = 1 .. k
      /\ stack' \in Seq(Context) /\ h \in Nat /\ DOMAIN stack' = 1 .. h
      /\ n \in 1 .. k /\ h = IF stack[n].kind = "resume" THEN n - 1 ELSE n
      /\ \A i \in 1 .. h : stack'[i].kind = stack[i].kind
  BY StackElements DEF Types, TakenUp, Alike
<1>2. PICK i \in 1 .. k : stack[i].kind = "exit"
  BY <1>1 DEF ExitFrame
<1>3. n = k \/ (n = k - 1 /\ stack[k].kind = "catch")
  BY DEF Top
<1> HIDE DEF k, h
<1>4. i \in 1 .. n
  BY <1>1, <1>2, <1>3
<1>5. i \in 1 .. h
  <2>1. CASE stack[n].kind = "resume"
    <3>1. i # n /\ h = n - 1
      BY <1>1, <1>2, <2>1
    <3> QED
      BY <1>1, <1>4, <3>1
  <2>2. CASE stack[n].kind # "resume"
    BY <1>1, <1>4, <2>2
  <2> QED
    BY <2>1, <2>2
<1> QED
  BY ZenonT(30), <1>1, <1>2, <1>5 DEF ExitFrame

\* A SIGILL that is there when SIGILL has its default action: psig() takes a signal
\* that ends the program.
LEMMA IllIsTaken ==
  ASSUME IllIsDefault, Types, CatchAgrees, SIGILL \in (p_sig \ p_sigmask) \ p_sigignore
  PROVE  /\ Taken(SIGILL)
         /\ CURSIG(p_sig, p_sigmask) # 0
         /\ \A s \in Sigs : s <= SIGILL => u_signal[s] # "catch"
<1>1. \A s \in Sigs : s <= SIGILL => s \in 1 .. SIGILL
  BY SignalsAssumption DEF SIGILL
<1>2. \A s \in Sigs : s <= SIGILL => u_signal[s] = "SIG_DFL"
  BY <1>1 DEF CatchAgrees, IllIsDefault
<1>3. SIGILL \in Sigs /\ SIGILL <= SIGILL /\ SIGILL \notin stopsigmask \cup defaultignmask
  BY DEF Types, SIGILL, stopsigmask, defaultignmask, SIGSTOP, SIGTSTP, SIGCONT, SIGCHLD, SIGMSG
<1>4. Taken(SIGILL)
  BY <1>2, <1>3 DEF Taken
<1>5. CURSIG(p_sig, p_sigmask) # 0
  BY ZenonT(30), <1>4, CursigIsFirst DEF Types
<1> QED
  BY <1>2, <1>4, <1>5

\* Every step keeps TrapEnds.
LEMMA NextTrapEnds ==
  ASSUME IllIsDefault, Types, StackIsBuilt, CatchAgrees, TrapEnds, [Next]_vars, Types'
  PROVE  TrapEnds'
<1>1. TrapEnds <=> (doomed => ExitFrame \/ (pc = "psig" /\ SIGILL \in (p_sig \ p_sigmask) \ p_sigignore))
  BY DEF TrapEnds, ExitFrame
<1>2. TrapEnds' <=> (doomed' => \/ ExitFrame'
                                \/ pc' = "psig" /\ SIGILL \in (p_sig' \ p_sigmask') \ p_sigignore')
  BY DEF TrapEnds, ExitFrame
<1>3. ASSUME doomed' = doomed, pc # "psig", ExitFrame => ExitFrame' PROVE TrapEnds'
  BY <1>1, <1>2, <1>3
<1>4. CASE UNCHANGED vars
  BY <1>4 DEF vars, maskVars, dispositions, history, TrapEnds
<1>5. CASE Quiet \/ sig_exit
  <2>1. stack' = stack /\ pc # "psig"
    BY <1>5, QuietKeepsStack DEF sig_exit
  <2>2. doomed' = doomed
    BY ZenonT(30), <1>5 DEF Quiet, sig_exit, Syscall, Sleep, sigaction, sigprocmask, sigblock, sigsuspend, read, killSelf,
                tsleepEnter, tsleepMark, tsleepQueue, tsleepWake, SuspReturn, WakeFile, Break, Kill, Timer, history
  <2> QED
    BY <1>3, <2>1, <2>2 DEF ExitFrame
<1>6. CASE Launch
  <2>1. PICK l \in Labels :
          /\ pc \in {"user", "switch_user", "suspret", "switch_suspret"}
          /\ \/ stack' = Append(stack, ResumeContext(l))
             \/ /\ stack' = stack \o <<ResumeContext(l), Frame("catch", SIGMSG, p_sigmask)>>
                /\ SIGMSG \in p_sigcatch
    BY ZenonT(30), <1>6, LaunchTypes
  <2>2. doomed' = doomed
    BY <1>6 DEF Launch
  <2>3. ResumeContext(l) \in Context /\ (SIGMSG \in p_sigcatch => Frame("catch", SIGMSG, p_sigmask) \in Context)
    BY ContextTypes DEF Types
  <2>4. ExitFrame => ExitFrame'
    BY ZenonT(30), <2>1, <2>3, PushKeepsExit
  <2> QED
    BY ZenonT(30), <1>3, <2>1, <2>2, <2>4
<1>7. CASE psig
  <2>1. PICK s \in p_sig \ p_sigmask :
          /\ s \in Sigs /\ \A r \in p_sig \ p_sigmask : Taken(r) => s <= r
          /\ pc = "psig" /\ pc' = "psig"
          /\ \/ stack' = Append(stack, Frame("catch", s, p_sigmask')) /\ u_signal[s] = "catch"
             \/ stack' = Append(stack, Frame("exit", s, p_sigmask))
    BY <1>7, PsigTypes
  <2>2. Frame("catch", s, p_sigmask') \in Context /\ Frame("exit", s, p_sigmask) \in Context
    BY <2>1, ContextTypes DEF Types
  <2>3. doomed' = doomed
    BY <1>7 DEF psig
  <2>4. CASE ExitFrame
    <3>1. ExitFrame'
      BY ZenonT(30), <2>1, <2>2, <2>4, PushKeepsExit
    <3> QED
      BY <1>2, <3>1
  <2>5. CASE SIGILL \in (p_sig \ p_sigmask) \ p_sigignore
    <3>1. stack' = Append(stack, Frame("exit", s, p_sigmask))
      BY <2>1, <2>5, IllIsTaken
    <3>2. Len(stack) + 1 \in DOMAIN stack' /\ stack'[Len(stack) + 1] = Frame("exit", s, p_sigmask)
      <4> DEFINE c == Frame("exit", s, p_sigmask)
      <4>1. stack \in Seq(Context) /\ Len(stack) \in Nat /\ c \in Context /\ stack' = Append(stack, c)
        BY ZenonT(30), <2>2, <3>1, StackElements DEF Types
      <4> HIDE DEF c
      <4>2. DOMAIN stack' = 1 .. Len(stack) + 1 /\ stack'[Len(stack) + 1] = c
        BY <4>1, Pushed
      <4> QED
        BY <4>1, <4>2 DEF c
    <3> QED
      BY <1>2, <3>2 DEF ExitFrame, Frame
  <2> QED
    BY <1>1, <1>2, <2>3, <2>4, <2>5
<1>8. CASE psigDone
  <2>1. TakenUp(Len(stack)) /\ doomed' = doomed /\ CURSIG(p_sig, p_sigmask) = 0
    BY <1>8, DoneTakesUp DEF psigDone, history
  <2>2. ExitFrame => ExitFrame'
    BY <2>1, TakenUpKeepsExit
  <2>3. SIGILL \notin (p_sig \ p_sigmask) \ p_sigignore
    BY <2>1, IllIsTaken
  <2> QED
    BY <1>1, <1>2, <2>1, <2>2, <2>3
<1>9. CASE sig_trampoline
  <2>1. TakenUp(Len(stack) - 1) /\ doomed' = doomed /\ pc = "user" /\ Top.kind = "catch"
    BY <1>9, TrampolineTakesUp DEF sig_trampoline, history
  <2>2. ExitFrame => ExitFrame'
    BY <2>1, TakenUpKeepsExit
  <2> QED
    BY <1>3, <2>1, <2>2
<1>10. ASSUME NEW s \in Traps, trap(s) PROVE TrapEnds'
  <2>1. s \in Sigs /\ s \in trapsigs /\ ResumeContext("user") \in Context /\ Frame("catch", s, p_sigmask) \in Context
    BY ContextTypes, SignalsAssumption DEF Types, Labels
  <2>2. pc = "user" /\ pc' = "psig"
    BY ZenonT(30), <1>10, TrapTypes
  <2>3. ExitFrame => ExitFrame'
    <3>1. \/ stack' = stack \o <<ResumeContext("user"), Frame("catch", s, p_sigmask)>>
          \/ stack' = Append(stack, ResumeContext("user"))
      BY <1>10, TrapTypes
    <3> QED
      BY <2>1, <3>1, PushKeepsExit
  <2>4. CASE doomed' = doomed
    BY <1>3, <2>2, <2>3, <2>4
  <2>5. CASE psignal(s) /\ s \in p_sigignore \cup p_sigmask
    <3>1. Converted(s)
      BY <2>1, <2>5 DEF Converted
    <3>2. /\ p_sigignore' = p_sigignore \ {SIGILL} /\ p_sigmask' = p_sigmask \ {SIGILL}
          /\ p_sig' = Pending(SIGILL)
      BY <2>5, <3>1, PsignalPosts
    <3>3. SIGILL \in Pending(SIGILL)
      BY DEF Pending
    <3> QED
      BY <1>2, <2>2, <3>2, <3>3
  <2>6. \/ doomed' = doomed
        \/ psignal(s) /\ doomed' = (doomed \/ s \in p_sigignore \cup p_sigmask)
    BY ZenonT(30), <1>10, TrapTypes
  <2>7. doomed \in BOOLEAN /\ doomed' \in BOOLEAN
    BY DEF Types
  <2> QED
    BY ZenonT(30), <2>4, <2>5, <2>6, <2>7
<1> QED
  BY <1>4, <1>5, <1>6, <1>7, <1>8, <1>9, <1>10, NextCases
=============================================================================
