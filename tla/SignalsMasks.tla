----------------------------- MODULE SignalsMasks ----------------------------
(* Proofs about Signals: the masks, what is pending, the sleep and handlers.    *)
EXTENDS SignalsBase

-----------------------------------------------------------------------------
(* The masks and the actions.                                                  *)

\* A context that a step puts on the stack: it keeps the mask of before or after
\* the step, and a frame that calls a handler is for a signal that is caught.
NewContext(c) ==
  /\ c.mask \in {p_sigmask, p_sigmask'}
  /\ c.kind = "catch" => c.sig \in Sigs /\ u_signal[c.sig] = "catch"

LEMMA StackChanges ==
  ASSUME Types, StackIsBuilt, CatchAgrees, Next, Types'
  PROVE  /\ pc # "dead"
         /\ \A i \in DOMAIN stack' :
              \/ i \in DOMAIN stack /\ Alike(stack'[i], stack[i])
              \/ NewContext(stack'[i])
<1> DEFINE n == Len(stack)
<1>1. stack \in Seq(Context) /\ n \in Nat /\ DOMAIN stack = 1 .. n
  BY StackElements DEF Types
<1>2. CASE Quiet \/ sig_exit
  BY <1>2, QuietKeepsStack DEF Alike, sig_exit
<1>3. ASSUME NEW c \in Context, stack' = Append(stack, c), NewContext(c)
      PROVE  \A i \in DOMAIN stack' :
              \/ i \in DOMAIN stack /\ Alike(stack'[i], stack[i])
              \/ NewContext(stack'[i])
  BY <1>1, <1>3, Pushed DEF Alike
<1>4. ASSUME NEW c \in Context, NEW d \in Context, stack' = stack \o <<c, d>>, NewContext(c), NewContext(d)
      PROVE  \A i \in DOMAIN stack' :
              \/ i \in DOMAIN stack /\ Alike(stack'[i], stack[i])
              \/ NewContext(stack'[i])
  <2>1. /\ DOMAIN stack' = 1 .. n + 2 /\ stack'[n + 1] = c /\ stack'[n + 2] = d
        /\ \A i \in 1 .. n : stack'[i] = stack[i]
    BY <1>1, <1>4, PushedTwo
  <2>2. \A i \in 1 .. n + 2 : i \in 1 .. n \/ i = n + 1 \/ i = n + 2
    BY <1>1
  <2> QED
    BY <1>1, <1>4, <2>1, <2>2 DEF Alike
<1>5. \A l : NewContext(ResumeContext(l))
  BY DEF NewContext, ResumeContext
<1>6. ASSUME NEW s \in p_sigcatch
      PROVE  Frame("catch", s, p_sigmask) \in Context /\ NewContext(Frame("catch", s, p_sigmask))
  BY <1>6, ContextTypes DEF Types, CatchAgrees, NewContext, Frame
<1>7. CASE Launch
  <2>1. PICK l \in Labels :
          /\ pc \in {"user", "switch_user", "suspret", "switch_suspret"}
          /\ \/ stack' = Append(stack, ResumeContext(l))
             \/ /\ stack' = stack \o <<ResumeContext(l), Frame("catch", SIGMSG, p_sigmask)>>
                /\ SIGMSG \in p_sigcatch
    BY ZenonT(30), <1>7, LaunchTypes
  <2>2. ResumeContext(l) \in Context
    BY ContextTypes
  <2> QED
    BY <1>3, <1>4, <1>5, <1>6, <2>1, <2>2
<1>8. CASE psig
  <2>1. PICK s \in Sigs :
          /\ pc = "psig"
          /\ \/ /\ u_signal[s] = "catch"
                /\ stack' = Append(stack, Frame("catch", s, p_sigmask'))
             \/ stack' = Append(stack, Frame("exit", s, p_sigmask))
    BY <1>8, PsigTypes
  <2>2. Frame("catch", s, p_sigmask') \in Context /\ Frame("exit", s, p_sigmask) \in Context
    BY <2>1, ContextTypes DEF Types
  <2>3. /\ u_signal[s] = "catch" => NewContext(Frame("catch", s, p_sigmask'))
        /\ NewContext(Frame("exit", s, p_sigmask))
    BY DEF NewContext, Frame
  <2> QED
    BY <1>3, <2>1, <2>2, <2>3
<1>9. ASSUME NEW k, TakenUp(k)
      PROVE  \A i \in DOMAIN stack' : i \in DOMAIN stack /\ Alike(stack'[i], stack[i])
  <2>1. DOMAIN stack' = 1 .. Len(stack') /\ Len(stack') \in Nat
    BY <1>9, StackElements DEF TakenUp
  <2>2. k \in 1 .. n /\ Len(stack') \in {k, k - 1}
    BY <1>9 DEF TakenUp
  <2> QED
    BY <1>1, <1>9, <2>1, <2>2 DEF TakenUp
<1>10. CASE psigDone \/ sig_trampoline
  <2>1. pc # "dead"
    BY <1>10 DEF psigDone, sig_trampoline
  <2> QED
    BY <1>9, <1>10, <2>1, DoneTakesUp, TrampolineTakesUp
<1>11. ASSUME NEW s \in Traps, trap(s)
      PROVE  /\ pc # "dead"
             /\ \A i \in DOMAIN stack' :
                  \/ i \in DOMAIN stack /\ Alike(stack'[i], stack[i])
                  \/ NewContext(stack'[i])
  <2>1. /\ pc = "user"
        /\ \/ /\ stack' = stack \o <<ResumeContext("user"), Frame("catch", s, p_sigmask)>>
              /\ s \in p_sigcatch
           \/ stack' = Append(stack, ResumeContext("user"))
    BY <1>11, TrapTypes
  <2>2. ResumeContext("user") \in Context
    BY ContextTypes DEF Labels
  <2> QED
    BY <1>3, <1>4, <1>5, <1>6, <2>1, <2>2
<1> QED
  BY <1>2, <1>7, <1>8, <1>10, <1>11, NextCases

\* Only setsigvec() changes u_signal and u_sigmask; _psignal() may take SIGILL
\* out of p_sigcatch.
LEMMA ActionsChange ==
  ASSUME Next
  PROVE  \/ \E s \in Handled, act \in Actions, m \in Masks : setsigvec(s, act, m)
         \/ /\ u_signal' = u_signal /\ u_sigmask' = u_sigmask
            /\ p_sigcatch' \in {p_sigcatch, p_sigcatch \ {SIGILL}}
<1>1. ASSUME NEW s, psignal(s)
      PROVE  /\ u_signal' = u_signal /\ u_sigmask' = u_sigmask
             /\ p_sigcatch' \in {p_sigcatch, p_sigcatch \ {SIGILL}}
  BY <1>1 DEF psignal
<1>2. CASE Syscall
  BY ZenonT(30), <1>1, <1>2 DEF Syscall, sigaction, sigprocmask, sigblock, sigsuspend, read, killSelf, dispositions
<1>3. CASE Sleep \/ WakeFile \/ Break
  BY <1>3 DEF Sleep, tsleepEnter, tsleepMark, tsleepQueue, tsleepWake, SuspReturn, WakeFile, Break, dispositions
<1>4. CASE (\E s \in Senders : Kill(s)) \/ (\E s \in Timers : Timer(s))
  BY <1>1, <1>4 DEF Kill, Timer
<1>5. CASE Launch \/ psig \/ psigDone \/ sig_trampoline \/ sig_exit
  BY <1>5 DEF Launch, psig, psigDone, sig_trampoline, sig_exit, dispositions
<1>6. CASE \E s \in Traps : trap(s)
  BY <1>1, <1>6 DEF trap, dispositions
<1> QED
  BY <1>2, <1>3, <1>4, <1>5, <1>6, NextCases DEF Quiet

\* Every step keeps CatchAgrees.
LEMMA NextCatch ==
  ASSUME Types, StackIsBuilt, CatchAgrees, [Next]_vars, Types'
  PROVE  CatchAgrees'
<1>1. CASE UNCHANGED vars
  BY <1>1 DEF vars, dispositions, CatchAgrees
<1>2. CASE Next
  <2>1. \A i \in DOMAIN stack' : stack'[i].kind = "catch" => stack'[i].sig \in Handled
    BY <1>2, StackChanges DEF CatchAgrees, NewContext, Alike
  <2>2. CASE \E s \in Handled, act \in Actions, m \in Masks : setsigvec(s, act, m)
    <3>1. PICK s \in Handled, act \in Actions, m \in Masks : setsigvec(s, act, m)
      BY <2>2
    <3>2. s \in Sigs /\ u_signal' = [u_signal EXCEPT ![s] = act]
      BY <3>1, SignalsAssumption DEF setsigvec
    <3>3. /\ s \in p_sigcatch' <=> act = "catch"
          /\ p_sigcatch' \ {s} = p_sigcatch \ {s}
      BY <3>1 DEF setsigvec, Actions
    <3>4. \A r \in Sigs : u_signal'[r] = IF r = s THEN act ELSE u_signal[r]
      BY <3>2 DEF Types
    <3> QED
      BY <2>1, <3>2, <3>3, <3>4 DEF CatchAgrees, Types
  <2>3. CASE /\ u_signal' = u_signal /\ u_sigmask' = u_sigmask
             /\ p_sigcatch' \in {p_sigcatch, p_sigcatch \ {SIGILL}}
    BY <2>1, <2>3 DEF CatchAgrees
  <2> QED
    BY <1>2, <2>2, <2>3, ActionsChange
<1> QED
  BY <1>1, <1>2

\* The signals that p_sigmask gets: none of them is SIGKILL or SIGSTOP.
LEMMA MaskChanges ==
  ASSUME Types, StackIsBuilt, CatchAgrees, KillPasses, Next, pc' # "dead"
  PROVE  (p_sigmask' \cup u_oldmask') \cap sigcantmask = {}
<1>1. (p_sigmask \cup u_oldmask) \cap sigcantmask = {} /\ \A i \in DOMAIN stack : stack[i].mask \cap sigcantmask = {}
  <2>1. pc # "dead"
    <3>1. CASE Quiet
      BY <3>1, QuietKeepsStack
    <3> QED
      BY ZenonT(30), <3>1, NextCases DEF Launch, Preemptible, psig, psigDone, sig_trampoline, sig_exit, trap
  <2> QED
    BY <2>1 DEF KillPasses, KillIsNeverMasked
<1>2. ASSUME NEW s, psignal(s) PROVE (p_sigmask' \cup u_oldmask') \cap sigcantmask = {}
  BY <1>1, <1>2 DEF psignal
<1>3. CASE Syscall
  <2>1. ASSUME NEW m, p_sigmask' \in {m \ sigcantmask, p_sigmask \cup (m \ sigcantmask), p_sigmask \ m, p_sigmask},
               u_oldmask' \in {u_oldmask, p_sigmask}
        PROVE  (p_sigmask' \cup u_oldmask') \cap sigcantmask = {}
    BY <1>1, <2>1
  <2>2. ASSUME NEW how \in {"SIG_BLOCK", "SIG_UNBLOCK", "SIG_SETMASK"}, NEW m \in Masks, sigprocmask(how, m)
        PROVE  (p_sigmask' \cup u_oldmask') \cap sigcantmask = {}
    BY <2>1, <2>2 DEF sigprocmask
  <2>3. CASE \/ \E s \in Handled, act \in Actions, m \in Masks : sigaction(s, act, m)
             \/ read
    BY <1>1, <2>3 DEF sigaction, read, maskVars
  <2>4. ASSUME NEW m \in Masks, sigblock(m) \/ sigsuspend(m)
        PROVE  (p_sigmask' \cup u_oldmask') \cap sigcantmask = {}
    <3>1. /\ p_sigmask' \in {m \ sigcantmask, p_sigmask \cup (m \ sigcantmask)}
          /\ u_oldmask' \in {u_oldmask, p_sigmask}
      BY <2>4 DEF sigblock, sigsuspend
    <3> QED
      BY <2>1, <3>1
  <2>5. CASE \E s \in Senders : killSelf(s)
    BY <1>2, <2>5 DEF killSelf
  <2> QED
    BY <1>3, <2>2, <2>3, <2>4, <2>5 DEF Syscall
<1>4. CASE Sleep \/ WakeFile \/ Break
  BY <1>1, <1>4 DEF Sleep, tsleepEnter, tsleepMark, tsleepQueue, tsleepWake, SuspReturn, WakeFile, Break, maskVars
<1>5. CASE (\E s \in Senders : Kill(s)) \/ (\E s \in Timers : Timer(s))
  BY <1>2, <1>5 DEF Kill, Timer
<1>6. ASSUME NEW s \in Sigs, u_signal[s] = "catch" PROVE (u_sigmask[s] \cup {s}) \cap sigcantmask = {}
  BY <1>6, SignalsAssumption DEF CatchAgrees, KillPasses
<1>7. CASE Launch
  <2>1. u_oldmask' = u_oldmask
    BY <1>7 DEF Launch
  <2>2. p_sigmask' = p_sigmask \/ (SIGMSG \in p_sigcatch /\ p_sigmask' = p_sigmask \cup u_sigmask[SIGMSG] \cup {SIGMSG})
    BY ZenonT(30), <1>7, LaunchTypes
  <2> QED
    BY <1>1, <1>6, <2>1, <2>2 DEF CatchAgrees, Types
<1>8. CASE psig
  <2>1. u_oldmask' = u_oldmask
    BY <1>8 DEF psig
  <2>2. PICK s \in Sigs : p_sigmask' = p_sigmask \/ (u_signal[s] = "catch" /\ p_sigmask' = p_sigmask \cup u_sigmask[s] \cup {s})
    BY <1>8, PsigTypes
  <2> QED
    BY <1>1, <1>6, <2>1, <2>2
<1>9. ASSUME NEW n, TakenUp(n), u_oldmask' = u_oldmask PROVE (p_sigmask' \cup u_oldmask') \cap sigcantmask = {}
  <2>1. n \in DOMAIN stack
    BY <1>9, StackElements DEF TakenUp, Types
  <2> QED
    BY <1>1, <1>9, <2>1 DEF TakenUp
<1>10. CASE psigDone \/ sig_trampoline
  BY <1>9, <1>10, DoneTakesUp, TrampolineTakesUp DEF psigDone, sig_trampoline
<1>11. ASSUME NEW s \in Traps, trap(s) PROVE (p_sigmask' \cup u_oldmask') \cap sigcantmask = {}
  <2>1. CASE psignal(s)
    BY <1>2, <2>1
  <2>2. CASE s \in p_sigcatch \ p_sigmask /\ p_sigmask' = p_sigmask \cup u_sigmask[s] \cup {s}
    <3>1. u_oldmask' = u_oldmask
      BY <1>11, <2>2 DEF trap
    <3> QED
      BY <1>1, <1>6, <2>2, <3>1 DEF CatchAgrees, Types
  <2> QED
    BY ZenonT(30), <1>11, <2>1, <2>2, TrapTypes
<1> QED
  BY <1>3, <1>4, <1>5, <1>7, <1>8, <1>10, <1>11, NextCases DEF Quiet, sig_exit

\* Every step keeps KillPasses.
LEMMA NextKill ==
  ASSUME Types, StackIsBuilt, CatchAgrees, KillPasses, [Next]_vars, Types'
  PROVE  KillPasses'
<1>1. CASE UNCHANGED vars
  BY <1>1 DEF vars, dispositions, maskVars, KillPasses, KillIsNeverMasked
<1>2. CASE Next
  <2>1. \A s \in Sigs : u_sigmask'[s] \cap sigcantmask = {}
    <3>1. CASE \E s \in Handled, act \in Actions, m \in Masks : setsigvec(s, act, m)
      BY <3>1 DEF setsigvec, KillPasses, Types
    <3> QED
      BY <1>2, <3>1, ActionsChange DEF KillPasses
  <2>2. pc' # "dead" => (p_sigmask' \cup u_oldmask') \cap sigcantmask = {}
    BY <1>2, MaskChanges
  <2>3. ASSUME pc' # "dead", NEW i \in DOMAIN stack' PROVE stack'[i].mask \cap sigcantmask = {}
    BY <1>2, <2>2, <2>3, StackChanges DEF NewContext, Alike, KillPasses, KillIsNeverMasked
  <2> QED
    BY <2>1, <2>2, <2>3 DEF KillPasses, KillIsNeverMasked
<1> QED
  BY <1>1, <1>2

-----------------------------------------------------------------------------
(* What is pending.                                                            *)

\* A signal that is added to those pending cancels what it excludes.
LEMMA PendingKeeps ==
  ASSUME StopOrContinue, NEW s
  PROVE  ~(SIGCONT \in Pending(s) /\ Pending(s) \cap stopsigmask # {})
<1>1. CASE s = SIGCONT
  BY <1>1 DEF Pending, stopsigmask, SIGCONT, SIGSTOP, SIGTSTP
<1>2. CASE s # SIGCONT /\ s \in stopsigmask
  BY <1>2 DEF Pending, stopsigmask, SIGCONT, SIGSTOP, SIGTSTP
<1>3. CASE s # SIGCONT /\ s \notin stopsigmask
  BY <1>3 DEF Pending, StopOrContinue
<1> QED
  BY <1>1, <1>2, <1>3

\* Pending(s) adds s to what was pending.
LEMMA PendingAdds ==
  ASSUME NEW s
  PROVE  s \in Pending(s) /\ Pending(s) \subseteq p_sig \cup {s}
  BY DEF Pending

\* How p_sig and p_sigignore change while the process lives.
PendingStep ==
  \/ p_sig' \subseteq p_sig /\ p_sigignore' = p_sigignore
  \/ \E s \in Sigs \ p_sigignore : p_sig' \subseteq Pending(s) /\ p_sigignore' = p_sigignore
  \/ \E s \in Handled, act \in Actions, m \in Masks : setsigvec(s, act, m)
  \/ \E s \in Sigs : psignal(s)

LEMMA PendingChanges ==
  ASSUME Types, StackIsBuilt, Next, ~sig_exit
  PROVE  PendingStep
<1>1. CASE Syscall
  <2>1. ASSUME NEW how \in {"SIG_BLOCK", "SIG_UNBLOCK", "SIG_SETMASK"}, NEW m \in Masks, sigprocmask(how, m)
        PROVE  p_sig' \subseteq p_sig /\ p_sigignore' = p_sigignore
    BY <2>1 DEF sigprocmask, TakeUnmasked, AfterCURSIG, dispositions
  <2>2. CASE read \/ \E m \in Masks : sigblock(m) \/ sigsuspend(m)
    BY <2>2 DEF PendingStep, read, sigblock, sigsuspend, dispositions
  <2>3. CASE \E s \in Senders : killSelf(s)
    BY <2>3, SignalsAssumption DEF PendingStep, killSelf
  <2>4. CASE \E s \in Handled, act \in Actions, m \in Masks : sigaction(s, act, m)
    BY <2>4 DEF PendingStep, sigaction
  <2> QED
    BY <1>1, <2>1, <2>2, <2>3, <2>4 DEF Syscall, PendingStep
<1>2. CASE Sleep
  <2>1. CASE tsleepEnter \/ tsleepMark \/ tsleepQueue \/ SuspReturn
    <3>1. p_sig' \subseteq p_sig /\ p_sigignore' = p_sigignore
      BY <2>1 DEF tsleepEnter, tsleepMark, tsleepQueue, SuspReturn, TakeUnmasked, AfterCURSIG, dispositions
    <3> QED
      BY <3>1 DEF PendingStep
  <2>2. CASE tsleepWake
    <3>1. /\ p_sigignore' = p_sigignore
          /\ \/ p_sig' \subseteq p_sig
             \/ SIGINT \in Sigs \ p_sigignore /\ p_sig' \subseteq Pending(SIGINT)
      BY <2>2 DEF tsleepWake, AfterCURSIG, dispositions
    <3> QED
      BY <3>1 DEF PendingStep
  <2> QED
    BY <1>2, <2>1, <2>2 DEF Sleep
<1>3. CASE WakeFile \/ Break
  BY <1>3 DEF PendingStep, WakeFile, Break, dispositions
<1>4. CASE (\E s \in Senders : Kill(s)) \/ (\E s \in Timers : Timer(s))
  BY <1>4, SignalsAssumption DEF PendingStep, Kill, Timer
<1>5. CASE Launch
  <2>1. p_sigignore' = p_sigignore
    BY <1>5 DEF Launch, dispositions
  <2>2. p_sig' \in {p_sig} \cup {Pending(s) : s \in {SIGINT, SIGMSG} \cap (Sigs \ p_sigignore)}
    BY ZenonT(30), <1>5, LaunchTypes
  <2> QED
    BY <2>1, <2>2 DEF PendingStep
<1>6. CASE psig \/ psigDone \/ sig_trampoline
  <2>1. p_sig' \subseteq p_sig /\ p_sigignore' = p_sigignore
    BY <1>6 DEF psig, psigDone, sig_trampoline, AfterCURSIG, dispositions
  <2> QED
    BY <2>1 DEF PendingStep
<1>7. ASSUME NEW s \in Traps, trap(s) PROVE PendingStep
  <2>1. psignal(s) \/ UNCHANGED <<p_sig, dispositions>>
    BY ZenonT(30), <1>7, TrapTypes
  <2> QED
    BY <2>1, SignalsAssumption DEF PendingStep, dispositions
<1> QED
  BY <1>1, <1>2, <1>3, <1>4, <1>5, <1>6, <1>7, NextCases DEF Quiet

\* Every step keeps PendingAgrees.
LEMMA NextPending ==
  ASSUME Types, StackIsBuilt, CatchAgrees, PendingAgrees, [Next]_vars, Types'
  PROVE  PendingAgrees'
<1>1. CASE UNCHANGED vars
  BY <1>1 DEF vars, dispositions, PendingAgrees, IgnoredIsNotPending, StopOrContinue
<1>2. CASE sig_exit
  BY <1>2 DEF sig_exit, PendingAgrees, IgnoredIsNotPending, StopOrContinue
<1>3. CASE Next /\ ~sig_exit
  <2>1. p_sig \cap p_sigignore = {} /\ StopOrContinue
    BY <1>3, StackChanges DEF PendingAgrees, IgnoredIsNotPending
  <2>2. PendingStep
    BY <1>3, PendingChanges
  <2>3. CASE p_sig' \subseteq p_sig /\ p_sigignore' = p_sigignore
    BY <2>1, <2>3 DEF PendingAgrees, IgnoredIsNotPending, StopOrContinue
  <2>4. ASSUME NEW s, p_sig' \subseteq Pending(s), s \notin p_sigignore', p_sigignore' \subseteq p_sigignore
        PROVE  PendingAgrees'
    <3>1. p_sig' \subseteq p_sig \cup {s}
      BY <2>4, PendingAdds
    <3>2. p_sig' \cap p_sigignore' = {}
      BY <2>1, <2>4, <3>1
    <3>3. ~(SIGCONT \in p_sig' /\ p_sig' \cap stopsigmask # {})
      BY <2>1, <2>4, PendingKeeps
    <3> QED
      BY <3>2, <3>3 DEF PendingAgrees, IgnoredIsNotPending, StopOrContinue
  <2>5. ASSUME NEW s \in Handled, NEW act \in Actions, NEW m \in Masks, setsigvec(s, act, m)
        PROVE  PendingAgrees'
    <3>1. p_sig' \subseteq p_sig
      BY <2>5 DEF setsigvec
    <3>2. p_sig' \cap p_sigignore' = {}
      BY <2>1, <2>5 DEF setsigvec
    <3> QED
      BY <2>1, <3>1, <3>2 DEF PendingAgrees, IgnoredIsNotPending, StopOrContinue
  <2>6. ASSUME NEW s \in Sigs, psignal(s) PROVE PendingAgrees'
    <3> DEFINE sig == IF Converted(s) THEN SIGILL ELSE s
    <3>1. p_sigignore' \subseteq p_sigignore /\ p_sig' = IF sig \in p_sigignore' THEN p_sig ELSE Pending(sig)
      BY <2>6 DEF psignal
    <3> HIDE DEF sig
    <3>2. CASE sig \in p_sigignore'
      BY <2>1, <3>1, <3>2 DEF PendingAgrees, IgnoredIsNotPending, StopOrContinue
    <3>3. CASE sig \notin p_sigignore'
      BY <2>4, <3>1, <3>3
    <3> QED
      BY <3>2, <3>3
  <2> QED
    BY <2>2, <2>3, <2>4, <2>5, <2>6 DEF PendingStep
<1> QED
  BY <1>1, <1>2, <1>3

-----------------------------------------------------------------------------
(* The sleep.                                                                  *)

\* The two courses of _psignal(): the signal as it is, or a SIGILL in place of a
\* trap that is masked or ignored.
LEMMA PsignalPosts ==
  ASSUME NEW s, psignal(s)
  PROVE  /\ u_signal' = u_signal
         /\ \/ /\ ~Converted(s) /\ UNCHANGED <<p_sigignore, p_sigmask, p_sigcatch>>
               /\ \/ s \in p_sigignore /\ p_sig' = p_sig /\ sleepSig' = sleepSig
                  \/ s \in p_sigmask \ p_sigignore /\ p_sig' = Pending(s) /\ sleepSig' = sleepSig
                  \/ s \notin p_sigignore \cup p_sigmask /\ p_sig' = Pending(s) /\ sleepSig' = setrun
            \/ /\ Converted(s) /\ SIGILL \in Sigs
               /\ p_sigignore' = p_sigignore \ {SIGILL} /\ p_sigmask' = p_sigmask \ {SIGILL}
               /\ p_sigcatch' = p_sigcatch \ {SIGILL}
               /\ p_sig' = Pending(SIGILL) /\ sleepSig' = setrun
<1>1. u_signal' = u_signal
  BY DEF psignal
<1>2. CASE Converted(s)
  BY <1>1, <1>2 DEF psignal
<1>3. CASE ~Converted(s)
  BY <1>1, <1>3 DEF psignal
<1> QED
  BY <1>2, <1>3

\* A signal of the timer interrupt is never converted: it is no trap.
LEMMA TimerIsNoTrap ==
  ASSUME NEW s \in Timers
  PROVE  ~Converted(s)
  BY SignalsAssumption DEF Converted, trapsigs, SIGILL, SIGFPE, SIGALRM, SIGVTALRM, SIGPROF

\* Every step keeps SleepIsTold: under the Forbid() of tsleep() only the timer
\* posts signals, and to a task that waits setrun() sends its bit.
LEMMA NextSleep ==
  ASSUME Types, StackIsBuilt, SleepIsTold, [Next]_vars
  PROVE  SleepIsTold'
<1>1. CASE UNCHANGED vars
  BY <1>1 DEF vars, dispositions, maskVars, sleepVars, SleepIsTold, SignalThere, Taken
<1>2. ASSUME pc' \notin {"ts1", "ts2", "wait"} PROVE SleepIsTold'
  BY <1>2 DEF SleepIsTold
<1>3. CASE Syscall
  <2>1. pc' \notin {"ts1", "ts2", "wait"}
    BY ZenonT(30), <1>3 DEF Syscall, sigaction, sigprocmask, TakeUnmasked, sigblock, sigsuspend, read, killSelf, InUser
  <2> QED
    BY <1>2, <2>1
<1>4. CASE tsleepEnter
  <2>1. CASE CURSIG(p_sig, p_sigmask) = 0
    <3>1. p_sig \subseteq Sigs
      BY DEF Types
    <3>2. \A s \in p_sig \ p_sigmask : ~Taken(s)
      BY <2>1, <3>1, CursigIsFirst
    <3>3. p_sig' \subseteq p_sig
      BY <1>4, <3>1, CursigIsFirst DEF tsleepEnter
    <3>4. pc' = "ts1" /\ p_sigmask' = p_sigmask /\ p_sigignore' = p_sigignore /\ u_signal' = u_signal
      BY <1>4, <2>1 DEF tsleepEnter, dispositions, maskVars
    <3>5. ~SignalThere'
      BY <3>2, <3>3, <3>4 DEF SignalThere, Taken
    <3> QED
      BY <3>4, <3>5 DEF SleepIsTold
  <2>2. CASE CURSIG(p_sig, p_sigmask) # 0
    BY <1>2, <1>4, <2>2 DEF tsleepEnter, AfterSleep
  <2> QED
    BY <2>1, <2>2
<1>5. CASE tsleepMark \/ tsleepQueue
  <2>1. UNCHANGED <<p_sig, dispositions, maskVars>> /\ pc' \in {"ts2", "wait"} /\ pc \in {"ts1", "ts2"}
    BY <1>5 DEF tsleepMark, tsleepQueue
  <2>2. ~SignalThere'
    BY <2>1 DEF SleepIsTold, SignalThere, Taken, dispositions, maskVars
  <2> QED
    BY <1>5, <2>1, <2>2 DEF tsleepMark, tsleepQueue, SleepIsTold
<1>6. CASE tsleepWake \/ SuspReturn
  <2>1. pc' \notin {"ts1", "ts2", "wait"}
    BY <1>6 DEF tsleepWake, SuspReturn, AfterSleep, TakeUnmasked
  <2> QED
    BY <1>2, <2>1
<1>7. CASE WakeFile \/ Break
  <2>1. UNCHANGED <<p_sig, dispositions, maskVars, p_stat, p_wchan, queued, pc, chan>> /\ (sleepSig' \/ sleepSig' = sleepSig)
    BY <1>7 DEF WakeFile, Break, sleepVars
  <2>2. SignalThere' => SignalThere
    BY <2>1 DEF SignalThere, Taken, dispositions, maskVars
  <2> QED
    BY <2>1, <2>2 DEF SleepIsTold
<1>8. ASSUME NEW s \in Timers, Timer(s) PROVE SleepIsTold'
  <2>1. psignal(s) /\ UNCHANGED <<pc, chan>> /\ ~Converted(s)
    BY <1>8, TimerIsNoTrap DEF Timer
  <2>2. UNCHANGED <<p_stat, p_wchan, queued>>
    BY <2>1 DEF psignal
  <2>3. p_sig' \subseteq p_sig \cup {s} /\ UNCHANGED <<p_sigignore, p_sigmask, u_signal>>
    BY <2>1, PsignalPosts, PendingAdds
  <2>4. sleepSig' = sleepSig \/ sleepSig' = setrun
    BY <2>1, PsignalPosts
  <2>5. sleepSig => sleepSig'
    BY ZenonT(30), <2>4 DEF setrun
  <2>6. SignalThere' => SignalThere
    BY <2>3 DEF SignalThere, Taken
  <2> QED
    BY <2>1, <2>2, <2>5, <2>6 DEF SleepIsTold
<1>9. ASSUME NEW s \in Senders, Kill(s) PROVE SleepIsTold'
  <2>1. psignal(s) /\ UNCHANGED <<pc, chan>> /\ pc \notin {"ts1", "ts2"}
    BY <1>9 DEF Kill, Preemptible
  <2>2. UNCHANGED <<p_stat, p_wchan, queued>>
    BY <2>1 DEF psignal
  <2>3. ASSUME pc = "wait" PROVE sleepSig' \/ ~SignalThere'
    <3>1. p_stat = "SSLEEP" /\ queued
      BY <2>3 DEF SleepIsTold
    <3>2. setrun
      BY <3>1 DEF setrun
    <3>3. CASE sleepSig' = setrun
      BY <3>2, <3>3
    <3>4. CASE /\ UNCHANGED <<p_sigignore, p_sigmask, u_signal, sleepSig>>
               /\ p_sig' = p_sig \/ (s \in p_sigmask /\ p_sig' = Pending(s))
      <4>1. p_sig' \ p_sigmask \subseteq p_sig \ p_sigmask
        BY <3>4, PendingAdds
      <4>2. SignalThere' => SignalThere
        BY <3>4, <4>1 DEF SignalThere, Taken
      <4> QED
        BY <2>3, <3>4, <4>2 DEF SleepIsTold
    <3> QED
      BY <2>1, <3>3, <3>4, PsignalPosts
  <2> QED
    BY <2>1, <2>2, <2>3 DEF SleepIsTold
<1>10. CASE Launch \/ psig \/ psigDone \/ sig_trampoline \/ sig_exit \/ \E s \in Traps : trap(s)
  <2>1. pc' \notin {"ts1", "ts2", "wait"}
    BY ZenonT(30), <1>10, LaunchTypes, PsigTypes, DoneTakesUp, TrampolineTakesUp, TrapTypes DEF sig_exit, TakenUp, Labels
  <2> QED
    BY ZenonT(30), <1>2, <2>1
<1> QED
  BY <1>1, <1>3, <1>4, <1>5, <1>6, <1>7, <1>8, <1>9, <1>10, NextCases DEF Quiet, Sleep

-----------------------------------------------------------------------------
(* The mask while handlers run, when no handler lowers it.                     *)

\* What BusyIsMasked says of two contexts, or of one and p_sigmask.
LEMMA BusyFacts ==
  ASSUME BusyIsMasked
  PROVE  /\ \A i \in DOMAIN stack : stack[i].kind = "catch" /\ stack[i].sig \notin AtOnce =>
              /\ stack[i].sig \in p_sigmask
              /\ \A j \in DOMAIN stack : i <= j => stack[i].sig \in stack[j].mask
         /\ \A i, j \in DOMAIN stack :
              (i # j /\ stack[i].sig \notin AtOnce /\ stack[i].kind = "catch" /\ stack[j].kind = "catch")
                => stack[i].sig # stack[j].sig
  BY DEF BusyIsMasked, Busy, HandlersDoNotNest

\* What it takes to have BusyIsMasked of the next state.
LEMMA BusyProved ==
  ASSUME \A i \in DOMAIN stack' : stack'[i].kind = "catch" /\ stack'[i].sig \notin AtOnce =>
              /\ stack'[i].sig \in p_sigmask'
              /\ \A j \in DOMAIN stack' : i <= j => stack'[i].sig \in stack'[j].mask,
         \A i, j \in DOMAIN stack' :
              (i # j /\ stack'[i].sig \notin AtOnce /\ stack'[i].kind = "catch" /\ stack'[j].kind = "catch")
                => stack'[i].sig # stack'[j].sig
  PROVE  BusyIsMasked'
  BY DEF BusyIsMasked, Busy, HandlersDoNotNest

\* _psignal() does not open the signal of a handler that runs.
LEMMA PsignalKeepsBusy ==
  ASSUME HandlersKeepMask, CatchAgrees, BusyIsMasked, NEW s \in Senders \cup Timers \cup Traps, psignal(s),
         NEW i \in DOMAIN stack, stack[i].kind = "catch", stack[i].sig \notin AtOnce
  PROVE  stack[i].sig \in p_sigmask'
<1>1. stack[i].sig \in p_sigmask /\ stack[i].sig \in Handled \ Traps
  BY BusyFacts DEF CatchAgrees, AtOnce
<1>2. CASE Converted(s)
  <2>1. s \in (Senders \cup Traps) \cap trapsigs
    BY <1>2, TimerIsNoTrap DEF Converted
  <2>2. SIGILL \notin Handled \ Traps
    BY <2>1 DEF HandlersKeepMask
  <2> QED
    BY <1>1, <1>2, <2>2, PsignalPosts
<1>3. CASE ~Converted(s)
  BY <1>1, <1>3, PsignalPosts
<1> QED
  BY ZenonT(30), <1>2, <1>3

\* The quiet steps do not either.
LEMMA QuietKeepsBusy ==
  ASSUME HandlersKeepMask, Types, CatchAgrees, BusyIsMasked, SuspendIsOne, Quiet \/ sig_exit,
         NEW i \in DOMAIN stack, stack[i].kind = "catch", stack[i].sig \notin AtOnce
  PROVE  stack[i].sig \in p_sigmask'
<1>1. stack[i].sig \in p_sigmask /\ stack[i].sig \in Sigs /\ stack # <<>>
  <2>1. stack[i].sig \in p_sigmask /\ stack[i].sig \in Sigs
    BY ZenonT(30), BusyFacts, SignalsAssumption DEF CatchAgrees
  <2>2. stack # <<>>
    <3>1. DOMAIN stack = 1 .. Len(stack) /\ (stack = <<>> <=> Len(stack) = 0)
      BY StackElements DEF Types
    <3> QED
      BY <3>1
  <2> QED
    BY <2>1, <2>2
<1>2. CASE Syscall
  <2>1. CASE (\E s \in Handled, act \in Actions, m \in Masks : sigaction(s, act, m)) \/ read
    BY <1>1, <2>1 DEF sigaction, read, maskVars
  <2>2. CASE \E how \in {"SIG_BLOCK", "SIG_UNBLOCK", "SIG_SETMASK"}, m \in Masks : sigprocmask(how, m)
    BY <1>1, <2>2 DEF sigprocmask, InUser, HandlersKeepMask
  <2>3. CASE \E m \in Masks : sigblock(m)
    BY <1>1, <2>3 DEF sigblock
  <2>4. CASE \E m \in Masks : sigsuspend(m)
    BY ZenonT(30), <1>1, <2>4 DEF sigsuspend, InUser, HandlersKeepMask
  <2>5. CASE \E s \in Senders : killSelf(s)
    BY ZenonT(30), <2>5, PsignalKeepsBusy DEF killSelf
  <2> QED
    BY <1>2, <2>1, <2>2, <2>3, <2>4, <2>5 DEF Syscall
<1>3. CASE Sleep
  <2>1. ~SuspReturn
    BY ZenonT(30), <1>1 DEF SuspReturn, SuspendIsOne
  <2> QED
    BY ZenonT(30), <1>1, <1>3, <2>1 DEF Sleep, tsleepEnter, tsleepMark, tsleepQueue, tsleepWake, maskVars
<1>4. CASE WakeFile \/ Break \/ sig_exit
  BY <1>1, <1>4 DEF WakeFile, Break, sig_exit, maskVars
<1>5. CASE (\E s \in Senders : Kill(s)) \/ (\E s \in Timers : Timer(s))
  BY ZenonT(30), <1>5, PsignalKeepsBusy DEF Kill, Timer
<1> QED
  BY <1>2, <1>3, <1>4, <1>5 DEF Quiet

\* Contexts are pushed: their masks include the present one, and only a first one
\* is busy, by a signal that was not masked.
LEMMA PushBusy ==
  ASSUME Types, Types', BusyIsMasked,
         \A i \in DOMAIN stack : i \in DOMAIN stack' /\ stack'[i] = stack[i],
         \A i \in DOMAIN stack : stack[i].kind = "catch" /\ stack[i].sig \notin AtOnce =>
           stack[i].sig \in p_sigmask',
         \A i \in DOMAIN stack' \ DOMAIN stack :
           /\ p_sigmask \subseteq stack'[i].mask
           /\ stack'[i].kind = "catch" /\ stack'[i].sig \notin AtOnce =>
                /\ i = Len(stack') /\ i = Len(stack) + 1 /\ stack'[i].sig \notin p_sigmask
                /\ stack'[i].sig \in p_sigmask' /\ stack'[i].sig \in stack'[i].mask
  PROVE  BusyIsMasked'
<1>1. /\ DOMAIN stack = 1 .. Len(stack) /\ Len(stack) \in Nat
      /\ DOMAIN stack' = 1 .. Len(stack') /\ Len(stack') \in Nat
  BY ZenonT(30), StackElements DEF Types
<1>2. ASSUME NEW i \in DOMAIN stack', stack'[i].kind = "catch", stack'[i].sig \notin AtOnce
      PROVE  /\ stack'[i].sig \in p_sigmask'
             /\ \A j \in DOMAIN stack' : i <= j => stack'[i].sig \in stack'[j].mask
  <2>1. CASE i \in DOMAIN stack
    <3>1. stack'[i].sig \in p_sigmask' /\ stack'[i].sig \in p_sigmask
      BY ZenonT(30), <1>2, <2>1, BusyFacts
    <3>2. ASSUME NEW j \in DOMAIN stack', i <= j PROVE stack'[i].sig \in stack'[j].mask
      <4>1. CASE j \in DOMAIN stack
        BY ZenonT(30), <1>2, <2>1, <3>2, <4>1, BusyFacts
      <4>2. CASE j \notin DOMAIN stack
        BY ZenonT(30), <3>1, <4>2
      <4> QED
        BY <4>1, <4>2
    <3> QED
      BY ZenonT(30), <3>1, <3>2
  <2>2. CASE i \notin DOMAIN stack
    <3>1. i = Len(stack') /\ stack'[i].sig \in p_sigmask' /\ stack'[i].sig \in stack'[i].mask
      BY <1>2, <2>2
    <3>2. \A j \in DOMAIN stack' : i <= j => j = i
      BY <1>1, <3>1
    <3> QED
      BY ZenonT(30), <3>1, <3>2
  <2> QED
    BY <2>1, <2>2
<1>3. ASSUME NEW i \in DOMAIN stack', NEW j \in DOMAIN stack', i # j, stack'[i].sig \notin AtOnce,
             stack'[i].kind = "catch", stack'[j].kind = "catch", stack'[i].sig = stack'[j].sig
      PROVE  FALSE
  <2>1. CASE i \in DOMAIN stack /\ j \in DOMAIN stack
    BY ZenonT(30), <1>3, <2>1, BusyFacts
  <2>2. CASE i \in DOMAIN stack /\ j \notin DOMAIN stack
    BY ZenonT(30), <1>3, <2>2, BusyFacts
  <2>3. CASE i \notin DOMAIN stack /\ j \in DOMAIN stack
    BY ZenonT(30), <1>3, <2>3, BusyFacts
  <2>4. CASE i \notin DOMAIN stack /\ j \notin DOMAIN stack
    BY <1>3, <2>4
  <2> QED
    BY ZenonT(30), <2>1, <2>2, <2>3, <2>4
<1> QED
  BY ZenonT(30), <1>2, <1>3, BusyProved

\* Every step keeps BusyIsMasked.
LEMMA NextBusy ==
  ASSUME HandlersKeepMask, Types, StackIsBuilt, CatchAgrees, BusyIsMasked, SuspendIsOne, [Next]_vars, Types'
  PROVE  BusyIsMasked'
<1>1. CASE UNCHANGED vars
  <2>1. stack' = stack /\ p_sigmask' = p_sigmask
    BY ZenonT(30), <1>1 DEF vars, maskVars
  <2> QED
    BY <2>1, BusyFacts, BusyProved
<1>2. CASE Quiet \/ sig_exit
  <2>1. stack' = stack
    BY <1>2, QuietKeepsStack DEF sig_exit
  <2>2. \A i \in DOMAIN stack : stack[i].kind = "catch" /\ stack[i].sig \notin AtOnce => stack[i].sig \in p_sigmask'
    BY ZenonT(30), <1>2, QuietKeepsBusy
  <2> QED
    BY <2>1, <2>2, BusyFacts, BusyProved
<1>3. ASSUME NEW n, TakenUp(n) PROVE BusyIsMasked'
  <2>1. /\ n \in 1 .. Len(stack) /\ Len(stack) \in Nat /\ DOMAIN stack = 1 .. Len(stack)
        /\ stack' \in Seq(Context) /\ DOMAIN stack' = 1 .. Len(stack')
        /\ Len(stack') = n \/ Len(stack') = n - 1
        /\ p_sigmask' = stack[n].mask \/ p_sigmask' = p_sigmask
    BY ZenonT(30), <1>3, StackElements DEF Types, TakenUp
  <2>2. DOMAIN stack' \subseteq 1 .. n /\ DOMAIN stack' \subseteq DOMAIN stack /\ n \in DOMAIN stack
    <3> DEFINE k == Len(stack)
               h == Len(stack')
    <3>1. n \in 1 .. k /\ k \in Nat /\ (h = n \/ h = n - 1)
      BY ZenonT(30), <2>1
    <3> HIDE DEF k, h
    <3>2. ASSUME NEW i \in 1 .. h PROVE i \in 1 .. n /\ i \in 1 .. k
      BY SMTT(30), <3>1
    <3> USE DEF k, h
    <3> QED
      BY ZenonT(30), <2>1, <3>2
  <2>3. \A i \in DOMAIN stack' : /\ stack'[i].kind = stack[i].kind /\ stack'[i].sig = stack[i].sig
                                 /\ stack'[i].mask = stack[i].mask
    BY ZenonT(40), <1>3, <2>1 DEF TakenUp, Alike
  <2>4. ASSUME NEW i \in DOMAIN stack', stack'[i].kind = "catch", stack'[i].sig \notin AtOnce
        PROVE  stack'[i].sig \in p_sigmask'
    <3>1. i \in DOMAIN stack /\ i \in 1 .. n /\ n \in DOMAIN stack
      BY ZenonT(30), <2>2
    <3>2. stack[i].sig \in p_sigmask /\ stack[i].sig \in stack[n].mask
      <4>1. i <= n
        BY SMTT(30), <2>1, <3>1
      <4> QED
        BY <2>3, <2>4, <3>1, <4>1, BusyFacts
    <3> QED
      <4>1. stack'[i].sig = stack[i].sig
        BY ZenonT(30), <2>3
      <4>2. p_sigmask' = stack[n].mask \/ p_sigmask' = p_sigmask
        BY ZenonT(30), <2>1
      <4> QED
        BY <3>2, <4>1, <4>2
  <2>5. \A i \in DOMAIN stack' : stack'[i].kind = "catch" /\ stack'[i].sig \notin AtOnce =>
          \A j \in DOMAIN stack' : i <= j => stack'[i].sig \in stack'[j].mask
    BY ZenonT(30), <2>2, <2>3, BusyFacts
  <2>6. \A i, j \in DOMAIN stack' :
          (i # j /\ stack'[i].sig \notin AtOnce /\ stack'[i].kind = "catch" /\ stack'[j].kind = "catch")
            => stack'[i].sig # stack'[j].sig
    BY <2>2, <2>3, BusyFacts
  <2> QED
    BY ZenonT(30), <2>4, <2>5, <2>6, BusyProved
<1>4. CASE psigDone \/ sig_trampoline
  BY <1>3, <1>4, DoneTakesUp, TrampolineTakesUp
<1> DEFINE KeptBusy == \A i \in DOMAIN stack : stack[i].kind = "catch" /\ stack[i].sig \notin AtOnce =>
                         stack[i].sig \in p_sigmask'
<1>5. ASSUME p_sigmask \subseteq p_sigmask' PROVE KeptBusy
  BY <1>5, BusyFacts
<1>6. /\ DOMAIN stack = 1 .. Len(stack) /\ Len(stack) \in Nat
      /\ stack \in Seq(Context)
  BY ZenonT(30), StackElements DEF Types
<1>7. ASSUME NEW l \in Labels, stack' = Append(stack, ResumeContext(l)), KeptBusy
      PROVE  BusyIsMasked'
  <2>1. ResumeContext(l) \in Context /\ ResumeContext(l).kind = "resume" /\ ResumeContext(l).mask = p_sigmask
    BY ZenonT(30), ContextTypes DEF ResumeContext
  <2>2. /\ DOMAIN stack' = 1 .. Len(stack) + 1 /\ stack'[Len(stack) + 1] = ResumeContext(l)
        /\ \A i \in 1 .. Len(stack) : stack'[i] = stack[i]
    BY <1>6, <1>7, <2>1, Pushed
  <2>3. \A i \in DOMAIN stack' \ DOMAIN stack : stack'[i] = ResumeContext(l)
    BY <1>6, <2>2
  <2>4. \A i \in DOMAIN stack : i \in DOMAIN stack' /\ stack'[i] = stack[i]
    BY <1>6, <2>2
  <2>5. \A i \in DOMAIN stack' \ DOMAIN stack : p_sigmask \subseteq stack'[i].mask /\ stack'[i].kind # "catch"
    BY ZenonT(30), <2>1, <2>3
  <2> QED
    BY <1>7, <2>4, <2>5, PushBusy
<1>8. ASSUME NEW l \in Labels, NEW s \in AtOnce \cap Sigs, KeptBusy,
             stack' = stack \o <<ResumeContext(l), Frame("catch", s, p_sigmask)>>
      PROVE  BusyIsMasked'
  <2>1. ResumeContext(l) \in Context /\ ResumeContext(l).kind = "resume" /\ ResumeContext(l).mask = p_sigmask
    BY ContextTypes DEF ResumeContext
  <2>2. Frame("catch", s, p_sigmask) \in Context
    BY ContextTypes DEF Types
  <2>3. Frame("catch", s, p_sigmask).sig = s /\ Frame("catch", s, p_sigmask).mask = p_sigmask
    BY ZenonT(30) DEF Frame
  <2> DEFINE c == ResumeContext(l)
             d == Frame("catch", s, p_sigmask)
  <2>4. c \in Context /\ d \in Context /\ stack' = stack \o <<c, d>>
    BY <1>8, <2>1, <2>2
  <2>5. \A i \in DOMAIN stack' \ DOMAIN stack : stack'[i] = c \/ stack'[i] = d
    <3> HIDE DEF c, d
    <3>1. /\ DOMAIN stack' = 1 .. Len(stack) + 2 /\ stack'[Len(stack) + 1] = c /\ stack'[Len(stack) + 2] = d
      BY <1>6, <2>4, PushedTwo
    <3>2. ASSUME NEW i \in DOMAIN stack' \ DOMAIN stack PROVE i = Len(stack) + 1 \/ i = Len(stack) + 2
      <4> DEFINE k == Len(stack)
      <4>1. k \in Nat /\ i \in 1 .. k + 2 /\ i \notin 1 .. k
        BY <1>6, <3>1, <3>2
      <4> HIDE DEF k
      <4>2. i = k + 1 \/ i = k + 2
        BY <4>1
      <4> QED
        BY <4>2 DEF k
    <3> QED
      BY <3>1, <3>2
  <2>6. \A i \in DOMAIN stack : i \in DOMAIN stack' /\ stack'[i] = stack[i]
    <3> HIDE DEF c, d
    <3>1. /\ DOMAIN stack' = 1 .. Len(stack) + 2 /\ \A i \in 1 .. Len(stack) : stack'[i] = stack[i]
      BY SMTT(30), <1>6, <2>4, PushedTwo
    <3> QED
      BY <1>6, <3>1
  <2>7. \A i \in DOMAIN stack' \ DOMAIN stack :
          p_sigmask \subseteq stack'[i].mask /\ ~(stack'[i].kind = "catch" /\ stack'[i].sig \notin AtOnce)
    BY ZenonT(30), <2>1, <2>3, <2>5
  <2> QED
    BY <1>8, <2>6, <2>7, PushBusy
<1>9. CASE Launch
  <2>1. \/ \E l \in Labels : stack' = Append(stack, ResumeContext(l)) /\ p_sigmask' = p_sigmask
        \/ \E l \in Labels :
             /\ stack' = stack \o <<ResumeContext(l), Frame("catch", SIGMSG, p_sigmask)>>
             /\ SIGMSG \in p_sigcatch /\ p_sigmask' = p_sigmask \cup u_sigmask[SIGMSG] \cup {SIGMSG}
    BY ZenonT(30), <1>9, LaunchTypes
  <2>2. KeptBusy
    BY ZenonT(30), <1>5, <2>1
  <2>3. SIGMSG \in p_sigcatch => SIGMSG \in AtOnce \cap Sigs
    BY DEF Types, AtOnce
  <2> QED
    BY ZenonT(30), <1>7, <1>8, <2>1, <2>2, <2>3
<1>10. ASSUME NEW s \in Traps, trap(s) PROVE BusyIsMasked'
  <2>1. s \in AtOnce \cap Sigs /\ "user" \in Labels
    BY SignalsAssumption DEF AtOnce, Labels
  <2>2. CASE psignal(s) /\ stack' = Append(stack, ResumeContext("user"))
    <3>1. KeptBusy
      BY ZenonT(30), <2>2, PsignalKeepsBusy
    <3> QED
      BY ZenonT(30), <1>7, <2>1, <2>2, <3>1
  <2>3. CASE /\ stack' = stack \o <<ResumeContext("user"), Frame("catch", s, p_sigmask)>>
             /\ p_sigmask' = p_sigmask \cup u_sigmask[s] \cup {s}
    <3>1. KeptBusy
      BY ZenonT(30), <1>5, <2>3
    <3> QED
      BY <1>8, <2>1, <2>3, <3>1
  <2> QED
    BY <1>10, <2>2, <2>3, TrapTypes
<1>11. CASE psig
  <2>1. PICK s \in p_sig \ p_sigmask, k \in {"catch", "exit"}, m \in SUBSET Sigs :
          /\ stack' = Append(stack, Frame(k, s, m)) /\ s \in Sigs
          /\ p_sigmask \subseteq m /\ p_sigmask \subseteq p_sigmask'
          /\ k = "catch" => s \in p_sigmask' /\ s \in m
    <3>1. p_sigmask \in SUBSET Sigs /\ p_sigmask' \in SUBSET Sigs
      BY ZenonT(30) DEF Types
    <3> QED
      BY ZenonT(30), <1>11, <3>1, PsigTypes
  <2>2. KeptBusy
    BY <1>5, <2>1
  <2>3. Frame(k, s, m) \in Context
    BY ZenonT(30), <2>1, ContextTypes
  <2>4. Frame(k, s, m).sig = s /\ Frame(k, s, m).mask = m /\ Frame(k, s, m).kind = k
    BY ZenonT(30) DEF Frame
  <2>5. /\ DOMAIN stack' = 1 .. Len(stack) + 1 /\ stack'[Len(stack) + 1] = Frame(k, s, m)
        /\ \A i \in 1 .. Len(stack) : stack'[i] = stack[i]
        /\ Len(stack') = Len(stack) + 1
    BY ZenonT(30), <1>6, <2>1, <2>3, Pushed
  <2>6. \A i \in DOMAIN stack' \ DOMAIN stack : stack'[i] = Frame(k, s, m) /\ i = Len(stack) + 1
    BY <1>6, <2>5
  <2>7. \A i \in DOMAIN stack : i \in DOMAIN stack' /\ stack'[i] = stack[i]
    BY SMTT(30), <1>6, <2>5
  <2>8. ASSUME NEW i \in DOMAIN stack' \ DOMAIN stack
        PROVE  /\ p_sigmask \subseteq stack'[i].mask
               /\ stack'[i].kind = "catch" /\ stack'[i].sig \notin AtOnce =>
                    /\ i = Len(stack') /\ i = Len(stack) + 1 /\ stack'[i].sig \notin p_sigmask
                    /\ stack'[i].sig \in p_sigmask' /\ stack'[i].sig \in stack'[i].mask
    BY <2>1, <2>4, <2>5, <2>6
  <2> QED
    BY ZenonT(30), <2>2, <2>7, <2>8, PushBusy
<1> QED
  BY ZenonT(30), <1>1, <1>2, <1>4, <1>9, <1>10, <1>11, NextCases
=============================================================================
