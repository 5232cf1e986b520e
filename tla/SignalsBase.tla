----------------------------- MODULE SignalsBase -----------------------------
(* Proofs about Signals, for any set of signals, of masks and of calls, and    *)
(* any bound on the stack.  IInv is the inductive invariant; the parts of it   *)
(* that need more than SignalsAssumption name what they need.                  *)
EXTENDS Signals, TLAPS

-----------------------------------------------------------------------------
(* What some of the results assume of the program.                             *)

\* A handler does not lower the mask it runs under, and no trap that becomes
\* SIGILL opens that of a handler of SIGILL.
HandlersKeepMask ==
  /\ HandlerCalls \cap {"sigprocmask", "sigsuspend"} = {}
  /\ SIGILL \in Handled \ Traps => (Senders \cup Traps) \cap trapsigs = {}

\* Only the main program calls sigsuspend(): there is one u_oldmask.
OneSuspend == "sigsuspend" \notin HandlerCalls

\* No stop signal is caught, which a SIGCONT could cancel.
StopsNotCaught == Handled \cap stopsigmask = {}

\* SIGILL has its default action, and no signal that psig() takes before it has
\* another one.
IllIsDefault == Handled \cap 1 .. SIGILL = {}

-----------------------------------------------------------------------------
(* The inductive invariant.                                                    *)

\* TypeOK without the bound on the stack.
Types ==
  /\ p_sig \subseteq Sigs /\ p_sigmask \subseteq Sigs
  /\ p_sigignore \subseteq Sigs /\ p_sigcatch \subseteq Sigs
  /\ u_signal \in [Sigs -> Actions] /\ u_sigmask \in [Sigs -> SUBSET Sigs]
  /\ somask \in BOOLEAN /\ u_oldmask \subseteq Sigs
  /\ p_stat \in {"SRUN", "SSLEEP"} /\ p_wchan \in {"none", "self", "file"}
  /\ queued \in BOOLEAN /\ sleepSig \in BOOLEAN
  /\ ctrl \in BOOLEAN /\ lastctrl \in BOOLEAN
  /\ stack \in Seq(Context)
  /\ pc \in Pcs /\ chan \in {"self", "file"}
  /\ calls \in Seq([mask : SUBSET Sigs, got : BOOLEAN]) /\ doomed \in BOOLEAN

\* The first context resumes the main program, and each that resumes a handler
\* lies on a frame; while the program runs the last one is a frame.
StackIsBuilt ==
  /\ stack # <<>> => stack[1].kind = "resume"
  /\ \A i \in 1 .. Len(stack) - 1 : stack[i + 1].kind = "resume" => stack[i].kind # "resume"
  /\ pc \in {"psig", "dead"} => stack # <<>>
  /\ (pc \notin {"psig", "dead"} /\ stack # <<>>) => Top.kind # "resume"

\* p_sigcatch and u_signal agree, but for a SIGILL that a trap became.
CatchAgrees ==
  /\ \A s \in p_sigcatch : u_signal[s] = "catch"
  /\ \A s \in Sigs : u_signal[s] = "catch" => s \in Handled /\ s \in p_sigcatch \cup {SIGILL}
  /\ \A s \in Sigs \ Handled : u_signal[s] = "SIG_DFL"
  /\ \A i \in DOMAIN stack : stack[i].kind = "catch" => stack[i].sig \in Handled

\* KillIsNeverMasked, and the masks of the handlers.
KillPasses ==
  /\ KillIsNeverMasked
  /\ \A s \in Sigs : u_sigmask[s] \cap sigcantmask = {}

\* A frame that psig() has made: its signal is masked until it is gone.
Busy(i) == stack[i].kind = "catch" /\ stack[i].sig \notin AtOnce

BusyIsMasked ==
  /\ \A i \in DOMAIN stack : Busy(i) =>
       /\ stack[i].sig \in p_sigmask
       /\ \A j \in DOMAIN stack : i <= j => stack[i].sig \in stack[j].mask
  /\ HandlersDoNotNest

Sleeping == pc \in {"ts0", "ts1", "ts2", "wait"}

\* sigsuspend() is in progress, in the main program.
Suspended ==
  IF stack = <<>> THEN pc \in {"suspret", "switch_suspret"} \/ (Sleeping /\ chan = "self")
  ELSE stack[1].pc = "suspret"

SuspendIsOne ==
  /\ pc \in {"suspret", "switch_suspret"} => stack = <<>>
  /\ (Sleeping /\ chan = "self") => stack = <<>>
  /\ \A i \in DOMAIN stack : stack[i].pc = "suspret" => i = 1
  /\ Len(calls) = IF Suspended THEN 1 ELSE 0
  /\ Suspended => calls[1].mask = u_oldmask

\* There is a signal that psig() will take, or a SIGCONT that can be cancelled.
Ready ==
  \/ \E s \in p_sig \ p_sigmask : Taken(s)
  \/ SIGCONT \in p_sigcatch

SuspendHasSignal ==
  /\ pc = "switch_suspret" => Ready
  /\ pc = "suspret" => calls[1].got \/ SIGCONT \in p_sigcatch
  /\ (stack # <<>> /\ stack[1].pc = "suspret" /\ ~calls[1].got) =>
       pc = "psig" /\ Len(stack) = 1 /\ Ready

\* There is a signal of another task to take.
SignalThere == \E s \in (p_sig \ Timers) \ p_sigmask : Taken(s)

SleepIsTold ==
  /\ pc \in {"ts1", "ts2"} => ~SignalThere
  /\ pc = "wait" => sleepSig \/ ~SignalThere
  /\ pc \in {"ts2", "wait"} => p_stat = "SSLEEP" /\ p_wchan = chan
  /\ pc = "wait" => queued

TrapEnds ==
  doomed => \/ \E i \in DOMAIN stack : stack[i].kind = "exit"
            \/ pc = "psig" /\ SIGILL \in (p_sig \ p_sigmask) \ p_sigignore

IInv ==
  /\ Types /\ StackIsBuilt /\ CatchAgrees
  /\ KillPasses /\ PendingAgrees /\ SleepIsTold
  /\ OneSuspend => SuspendIsOne
  /\ HandlersKeepMask => BusyIsMasked
  /\ (OneSuspend /\ StopsNotCaught) => SuspendHasSignal
  /\ IllIsDefault => TrapEnds

-----------------------------------------------------------------------------
(* CURSIG.                                                                     *)

\* ffs() of a set of signals is its least element.
LEMMA FfsIsLeast ==
  ASSUME NEW S, S \subseteq Sigs, S # {}
  PROVE  ffs(S) \in S /\ \A r \in S : ffs(S) <= r
<1> DEFINE Found(n) == \/ \A x \in S : n < x
                       \/ \E x \in S : \A r \in S : x <= r
<1>1. S \subseteq 1 .. 32
  BY SignalsAssumption
<1>2. Found(0)
  BY <1>1
<1>3. ASSUME NEW n \in 0 .. 31, Found(n) PROVE Found(n + 1)
  <2>1. CASE n + 1 \in S
    <3>1. CASE \A x \in S : n < x
      BY <1>1, <2>1, <3>1
    <3>2. CASE ~\A x \in S : n < x
      BY <1>3, <3>2
    <3> QED
      BY <3>1, <3>2
  <2>2. CASE n + 1 \notin S
    BY <1>1, <1>3, <2>2
  <2> QED
    BY <2>1, <2>2
<1>4. Found(32) => \E x \in S : \A r \in S : x <= r
  <2>1. PICK z : z \in S
    OBVIOUS
  <2>2. z \in 1 .. 32
    BY <1>1, <2>1
  <2>3. ~(32 < z)
    BY <2>2
  <2> QED
    BY <2>1, <2>3
<1> HIDE DEF Found
<1>5. \A n \in 0 .. 31 : Found(n) => Found(n + 1)
  BY <1>3
<1>6. Found(8)
  BY <1>2, <1>5
<1>7. Found(16)
  BY <1>5, <1>6
<1>8. Found(24)
  BY <1>5, <1>7
<1>9. Found(32)
  BY <1>5, <1>8
<1> QED
  BY <1>4, <1>9 DEF ffs

\* CURSIG() is the first signal that is pending, not masked and taken, 0 if there
\* is none; what it drops is not masked and not taken.
LEMMA CursigIsFirst ==
  ASSUME NEW P, P \subseteq Sigs, NEW M
  PROVE  /\ CURSIG(P, M) = 0 => \A s \in P \ M : ~Taken(s)
         /\ CURSIG(P, M) # 0 =>
              /\ CURSIG(P, M) \in P \ M /\ CURSIG(P, M) \in Sigs /\ Taken(CURSIG(P, M))
              /\ \A s \in P \ M : Taken(s) => CURSIG(P, M) <= s
         /\ AfterCURSIG(P, M) \subseteq P
         /\ CURSIG(P, M) # 0 => CURSIG(P, M) \in AfterCURSIG(P, M)
         /\ \A s \in P : s \in M \/ Taken(s) => s \in AfterCURSIG(P, M)
<1> DEFINE T == {s \in P \ M : Taken(s)}
<1>1. CURSIG(P, M) = ffs(T)
  BY DEF CURSIG
<1>2. 0 \notin Sigs /\ Sigs \subseteq Nat
  BY SignalsAssumption
<1>3. T = {} => CURSIG(P, M) = 0
  BY <1>1 DEF ffs
<1>4. T # {} => CURSIG(P, M) \in T /\ \A r \in T : CURSIG(P, M) <= r
  BY <1>1, FfsIsLeast
<1>5. CURSIG(P, M) = 0 <=> T = {}
  BY <1>2, <1>3, <1>4
<1> HIDE DEF T
<1>6. AfterCURSIG(P, M) \subseteq P
  BY DEF AfterCURSIG
<1>7. \A s \in P : s \in M \/ Taken(s) => s \in AfterCURSIG(P, M)
  <2> SUFFICES ASSUME NEW s \in P, s \in M \/ Taken(s), s \in P \ M,
                      CURSIG(P, M) = 0 \/ s < CURSIG(P, M)
               PROVE  FALSE
    BY DEF AfterCURSIG
  <2>1. s \in T
    BY DEF T
  <2>2. CURSIG(P, M) # 0 /\ CURSIG(P, M) \in T /\ CURSIG(P, M) <= s
    BY <1>4, <1>5, <2>1
  <2>3. CURSIG(P, M) \in Nat /\ s \in Nat
    BY ZenonT(30), <1>2, <2>1, <2>2 DEF T
  <2> QED
    BY <2>2, <2>3
<1> QED
  BY <1>4, <1>5, <1>6, <1>7 DEF T

-----------------------------------------------------------------------------
(* The contexts on the stack.                                                  *)

\* A sequence of contexts has a length and contexts in it.
LEMMA StackElements ==
  ASSUME NEW stk \in Seq(Context)
  PROVE  /\ Len(stk) \in Nat /\ DOMAIN stk = 1 .. Len(stk)
         /\ \A i \in 1 .. Len(stk) : stk[i] \in Context
         /\ stk = <<>> <=> Len(stk) = 0
  OBVIOUS

\* Append() of a context.
LEMMA Pushed ==
  ASSUME NEW stk \in Seq(Context), NEW c \in Context
  PROVE  /\ Append(stk, c) \in Seq(Context) /\ Len(Append(stk, c)) = Len(stk) + 1
         /\ DOMAIN Append(stk, c) = 1 .. Len(stk) + 1
         /\ \A i \in 1 .. Len(stk) : Append(stk, c)[i] = stk[i]
         /\ Append(stk, c)[Len(stk) + 1] = c
  OBVIOUS

\* A context and a frame on it.
LEMMA PushedTwo ==
  ASSUME NEW stk \in Seq(Context), NEW c \in Context, NEW d \in Context
  PROVE  /\ stk \o <<c, d>> \in Seq(Context) /\ Len(stk \o <<c, d>>) = Len(stk) + 2
         /\ DOMAIN (stk \o <<c, d>>) = 1 .. Len(stk) + 2
         /\ \A i \in 1 .. Len(stk) : (stk \o <<c, d>>)[i] = stk[i]
         /\ (stk \o <<c, d>>)[Len(stk) + 1] = c
         /\ (stk \o <<c, d>>)[Len(stk) + 2] = d
<1>1. <<c, d>> \in Seq(Context) /\ Len(<<c, d>>) = 2 /\ <<c, d>>[1] = c /\ <<c, d>>[2] = d
  OBVIOUS
<1>2. Len(stk) \in Nat
  BY StackElements
<1> DEFINE e == <<c, d>>
<1> HIDE DEF e
<1>3. stk \o e \in Seq(Context) /\ Len(stk \o e) = Len(stk) + Len(e)
  BY <1>1 DEF e
<1>4. \A i \in 1 .. Len(stk) : (stk \o e)[i] = stk[i]
  BY <1>1 DEF e
<1>5. \A i \in 1 .. Len(e) : (stk \o e)[Len(stk) + i] = e[i]
  BY <1>1 DEF e
<1> QED
  BY <1>1, <1>2, <1>3, <1>4, <1>5 DEF e

\* The stack without its last context.
LEMMA Popped ==
  ASSUME NEW stk \in Seq(Context), stk # <<>>
  PROVE  /\ SubSeq(stk, 1, Len(stk) - 1) \in Seq(Context)
         /\ Len(stk) \in Nat \ {0} /\ Len(SubSeq(stk, 1, Len(stk) - 1)) = Len(stk) - 1
         /\ DOMAIN SubSeq(stk, 1, Len(stk) - 1) = 1 .. Len(stk) - 1
         /\ \A i \in 1 .. Len(stk) - 1 : SubSeq(stk, 1, Len(stk) - 1)[i] = stk[i]
<1> DEFINE n == Len(stk) - 1
<1>1. n \in Nat /\ Len(stk) \in Nat \ {0} /\ \A i \in 1 .. n : stk[i] \in Context
  BY StackElements
<1> HIDE DEF n
<1>2. SubSeq(stk, 1, n) \in Seq(Context)
  BY <1>1
<1>3. Len(SubSeq(stk, 1, n)) = n
  BY <1>1
<1>4. \A i \in 1 .. n : SubSeq(stk, 1, n)[i] = stk[i]
  BY <1>1
<1> QED
  BY <1>1, <1>2, <1>3, <1>4 DEF n

\* do_sigreturn() takes up the last context of a stack: one that resumes goes, a
\* frame stays and differs in on only.
LEMMA Returned ==
  ASSUME NEW stk \in Seq(Context), stk # <<>>, do_sigreturn(stk)
  PROVE  /\ Len(stk) \in Nat \ {0} /\ stk[Len(stk)] \in Context
         /\ p_sigmask' = stk[Len(stk)].mask /\ pc' = stk[Len(stk)].pc
         /\ stack' \in Seq(Context) /\ DOMAIN stack' = 1 .. Len(stack')
         /\ Len(stack') = IF stk[Len(stk)].kind = "resume" THEN Len(stk) - 1 ELSE Len(stk)
         /\ \A i \in 1 .. Len(stack') :
              /\ stack'[i].kind = stk[i].kind /\ stack'[i].sig = stk[i].sig
              /\ stack'[i].mask = stk[i].mask /\ stack'[i].pc = stk[i].pc
<1> DEFINE n == Len(stk)
           c == stk[n]
<1>1. n \in Nat \ {0} /\ c \in Context
  BY StackElements
<1>2. CASE c.kind = "resume"
  <2>1. stack' = SubSeq(stk, 1, n - 1)
    BY <1>2 DEF do_sigreturn
  <2>2. /\ stack' \in Seq(Context) /\ Len(stack') = n - 1 /\ DOMAIN stack' = 1 .. n - 1
        /\ \A i \in 1 .. n - 1 : stack'[i] = stk[i]
    BY <2>1, Popped, Zenon
  <2> QED
    BY <1>1, <1>2, <2>2 DEF do_sigreturn
<1>3. CASE c.kind # "resume"
  <2> DEFINE d == [c EXCEPT !.on = TRUE]
  <2>1. stack' = [stk EXCEPT ![n] = d]
    BY <1>3 DEF do_sigreturn
  <2>2. d \in Context /\ d.kind = c.kind /\ d.sig = c.sig /\ d.mask = c.mask /\ d.pc = c.pc
    BY ZenonT(30), <1>1 DEF Context
  <2> HIDE DEF d
  <2>3. /\ stack' \in Seq(Context) /\ Len(stack') = n
        /\ \A j \in 1 .. n : stack'[j] = IF j = n THEN d ELSE stk[j]
    BY <1>1, <2>1, <2>2
  <2> QED
    BY <1>1, <1>3, <2>2, <2>3 DEF do_sigreturn
<1> QED
  BY <1>2, <1>3

-----------------------------------------------------------------------------
(* The types.                                                                  *)

\* The contexts that sig_launch(), trap() and sendsig() make.
LEMMA ContextTypes ==
  ASSUME Types
  PROVE  /\ \A l \in Labels : ResumeContext(l) \in Context
         /\ \A k \in {"catch", "exit"}, s \in Sigs, m \in SUBSET Sigs : Frame(k, s, m) \in Context
  BY DEF Types, ResumeContext, Frame, Context, Labels

\* What psignal() leaves is of its type.
LEMMA PsignalTypes ==
  ASSUME Types, NEW s \in Sigs, psignal(s)
  PROVE  /\ p_sig' \subseteq Sigs /\ p_sigmask' \subseteq Sigs
         /\ p_sigignore' \subseteq Sigs /\ p_sigcatch' \subseteq Sigs
         /\ sleepSig' \in BOOLEAN
         /\ u_signal' = u_signal /\ u_sigmask' = u_sigmask /\ somask' = somask
         /\ u_oldmask' = u_oldmask /\ p_stat' = p_stat /\ p_wchan' = p_wchan
         /\ queued' = queued
<1>1. p_sigmask' \subseteq Sigs /\ p_sigignore' \subseteq Sigs /\ p_sigcatch' \subseteq Sigs
  BY DEF Types, psignal
<1>2. p_sig' \subseteq Sigs
  BY DEF Types, psignal, Pending
<1>3. setrun \in BOOLEAN
  BY DEF Types, setrun
<1>4. sleepSig' \in BOOLEAN
  BY <1>3 DEF Types, psignal
<1> QED
  BY <1>1, <1>2, <1>4 DEF psignal

\* The system calls keep the types.
LEMMA SyscallTypes ==
  ASSUME Types, Syscall
  PROVE  Types'
<1> USE SignalsAssumption
<1>1. ASSUME NEW s \in Handled, NEW act \in Actions, NEW m \in Masks, sigaction(s, act, m)
      PROVE  Types'
  <2>1. s \in Sigs /\ m \subseteq Sigs
    OBVIOUS
  <2>2. p_sig' \subseteq Sigs /\ p_sigignore' \subseteq Sigs /\ p_sigcatch' \subseteq Sigs
    <3>1. p_sig \subseteq Sigs /\ p_sigignore \subseteq Sigs /\ p_sigcatch \subseteq Sigs
      BY DEF Types
    <3> QED
      BY ZenonT(30), <1>1, <2>1, <3>1 DEF sigaction, setsigvec
  <2>3. u_signal' \in [Sigs -> Actions] /\ u_sigmask' \in [Sigs -> SUBSET Sigs]
    <3>1. u_signal \in [Sigs -> Actions] /\ u_sigmask \in [Sigs -> SUBSET Sigs]
      BY DEF Types
    <3>2. u_signal' = [u_signal EXCEPT ![s] = act] /\ u_sigmask' = [u_sigmask EXCEPT ![s] = m \ sigcantmask]
      BY <1>1 DEF sigaction, setsigvec
    <3> QED
      BY ZenonT(30), <2>1, <3>1, <3>2
  <2> QED
    BY ZenonT(30), <1>1, <2>2, <2>3 DEF Types, sigaction, maskVars, sleepVars, ctrlVars, history
<1>2. ASSUME NEW how \in {"SIG_BLOCK", "SIG_UNBLOCK", "SIG_SETMASK"}, NEW m \in Masks, sigprocmask(how, m)
      PROVE  Types'
  <2>1. p_sigmask' \subseteq Sigs /\ p_sig' \subseteq p_sig
    BY <1>2 DEF Types, sigprocmask, TakeUnmasked, AfterCURSIG
  <2>2. pc' \in Pcs /\ UNCHANGED <<dispositions, somask, u_oldmask, sleepVars, ctrlVars, stack, chan, history>>
    BY <1>2 DEF Types, sigprocmask, TakeUnmasked, Pcs, Labels
  <2> QED
    BY <2>1, <2>2 DEF Types, dispositions, sleepVars, ctrlVars, history
<1>3. ASSUME NEW m \in Masks, sigblock(m) PROVE Types'
  BY ZenonT(30), <1>3 DEF Types, sigblock, dispositions, sleepVars, ctrlVars, history
<1>4. ASSUME NEW m \in Masks, sigsuspend(m) PROVE Types'
  <2>1. calls' \in Seq([mask : SUBSET Sigs, got : BOOLEAN])
    <3>1. [mask |-> p_sigmask, got |-> FALSE] \in [mask : SUBSET Sigs, got : BOOLEAN]
      BY DEF Types
    <3> QED
      BY <1>4, <3>1 DEF Types, sigsuspend
  <2> QED
    BY ZenonT(30), <1>4, <2>1 DEF Types, sigsuspend, dispositions, sleepVars, ctrlVars, Pcs, Labels
<1>5. ASSUME read PROVE Types'
  BY <1>5 DEF Types, read, dispositions, maskVars, sleepVars, ctrlVars, history, Pcs, Labels
<1>6. ASSUME NEW s \in Senders, killSelf(s) PROVE Types'
  <2>1. psignal(s) /\ s \in Sigs
    BY <1>6 DEF killSelf
  <2> QED
    BY ZenonT(30), <1>6, <2>1, PsignalTypes DEF Types, killSelf, ctrlVars, history, Pcs, Labels
<1> QED
  BY <1>1, <1>2, <1>3, <1>4, <1>5, <1>6 DEF Syscall

\* The sleep keeps the types.
LEMMA SleepTypes ==
  ASSUME Types, Sleep \/ WakeFile
  PROVE  Types'
<1> USE DEF dispositions, maskVars, sleepVars, ctrlVars, history, Pcs, Labels
<1>1. CASE tsleepEnter
  <2>1. p_sig' \subseteq p_sig
    BY <1>1 DEF tsleepEnter, AfterCURSIG
  <2> QED
    BY <1>1, <2>1 DEF Types, tsleepEnter, AfterSleep
<1>2. CASE tsleepMark
  BY <1>2 DEF Types, tsleepMark
<1>3. CASE tsleepQueue
  BY <1>3 DEF Types, tsleepQueue
<1>4. CASE tsleepWake
  <2>1. p_sig' \subseteq p_sig \cup ({SIGINT} \cap Sigs)
    BY <1>4 DEF tsleepWake, AfterCURSIG, Pending
  <2>2. ctrl' \in BOOLEAN /\ sleepSig' \in BOOLEAN
    BY ZenonT(30), <1>4 DEF tsleepWake
  <2> QED
    BY ZenonT(30), <1>4, <2>1, <2>2 DEF Types, tsleepWake, AfterSleep
<1>5. CASE SuspReturn
  <2>1. p_sig' \subseteq p_sig /\ pc' \in {"user", "switch_user"}
    BY <1>5 DEF SuspReturn, TakeUnmasked, AfterCURSIG
  <2>2. SubSeq(calls, 1, Len(calls) - 1) \in Seq([mask : SUBSET Sigs, got : BOOLEAN])
    <3> DEFINE n == Len(calls) - 1
               Call == [mask : SUBSET Sigs, got : BOOLEAN]
    <3>1. calls \in Seq(Call) /\ Len(calls) \in Nat
      BY DEF Types
    <3> HIDE DEF Call
    <3>2. n \in Int /\ \A i \in 1 .. n : calls[i] \in Call
      BY <3>1
    <3> HIDE DEF n
    <3>3. SubSeq(calls, 1, n) \in Seq(Call)
      BY <3>2
    <3> QED
      BY <3>3 DEF n, Call
  <2> QED
    BY <1>5, <2>1, <2>2 DEF Types, SuspReturn
<1>6. CASE WakeFile
  BY <1>6 DEF Types, WakeFile
<1> QED
  BY <1>1, <1>2, <1>3, <1>4, <1>5, <1>6 DEF Sleep

\* A signal is noted in every sigsuspend() in progress.
LEMMA Marked ==
  ASSUME Types, MarkCalls
  PROVE  /\ calls' \in Seq([mask : SUBSET Sigs, got : BOOLEAN])
         /\ Len(calls) \in Nat /\ Len(calls') = Len(calls)
         /\ \A i \in 1 .. Len(calls) : calls'[i].mask = calls[i].mask /\ calls'[i].got
<1> DEFINE Call == [mask : SUBSET Sigs, got : BOOLEAN]
           n == Len(calls)
<1>0. calls \in Seq(Call)
  BY DEF Types
<1> HIDE DEF Call
<1>1. n \in Nat /\ DOMAIN calls = 1 .. n /\ calls \in [1 .. n -> Call]
  BY <1>0
<1>2. calls' = [i \in 1 .. n |-> [calls[i] EXCEPT !.got = TRUE]]
  BY <1>1 DEF MarkCalls
<1>3. \A i \in 1 .. n : /\ [calls[i] EXCEPT !.got = TRUE] \in Call
                        /\ [calls[i] EXCEPT !.got = TRUE].mask = calls[i].mask
                        /\ [calls[i] EXCEPT !.got = TRUE].got
  BY ZenonT(30), <1>1 DEF Call
<1> HIDE DEF n
<1>4. calls' \in [1 .. n -> Call]
  BY <1>2, <1>3
<1>5. calls' \in Seq(Call)
  BY <1>1, <1>4
<1>6. Len(calls') = n
  BY <1>1, <1>4, <1>5
<1> QED
  BY <1>1, <1>2, <1>3, <1>5, <1>6 DEF Call, n

\* What LaunchBreak() leaves is of its type; either it puts a context on the stack
\* or also the frame of SIGMSG.
LEMMA LaunchTypes ==
  ASSUME Types, Launch
  PROVE  /\ Types' /\ pc' = "psig"
         /\ \E l \in Labels :
              /\ pc \in {"user", "switch_user"} => l = "user"
              /\ pc \in {"suspret", "switch_suspret"} => l = "suspret"
              /\ pc \in {"user", "switch_user", "suspret", "switch_suspret"}
              /\ \/ /\ stack' = Append(stack, ResumeContext(l))
                    /\ p_sig' \in {p_sig} \cup {Pending(s) : s \in {SIGINT, SIGMSG} \cap (Sigs \ p_sigignore)}
                    /\ p_sigmask' = p_sigmask /\ calls' = calls
                 \/ /\ stack' = stack \o <<ResumeContext(l), Frame("catch", SIGMSG, p_sigmask)>>
                    /\ SIGMSG \in p_sigcatch \ p_sigmask
                    /\ p_sigmask' = p_sigmask \cup u_sigmask[SIGMSG] \cup {SIGMSG}
                    /\ MarkCalls /\ p_sig' = p_sig
<1> DEFINE l == Continue(pc)
<1>1. /\ pc \in {"user", "switch_user", "suspret", "switch_suspret"} /\ l \in Labels
      /\ pc \in {"user", "switch_user"} => l = "user"
      /\ pc \in {"suspret", "switch_suspret"} => l = "suspret"
  BY DEF Types, Launch, Preemptible, Continue, Pcs, Labels
<1>2. LaunchBreak(l) /\ pc' = "psig"
  BY DEF Launch
<1> HIDE DEF l
<1>3. ctrl' \in BOOLEAN /\ lastctrl' \in BOOLEAN
  BY <1>2 DEF LaunchBreak
<1>4. \/ /\ stack' = Append(stack, ResumeContext(l))
         /\ p_sig' \in {p_sig} \cup {Pending(s) : s \in {SIGINT, SIGMSG} \cap (Sigs \ p_sigignore)}
         /\ p_sigmask' = p_sigmask /\ calls' = calls
      \/ /\ stack' = stack \o <<ResumeContext(l), Frame("catch", SIGMSG, p_sigmask)>>
         /\ SIGMSG \in p_sigcatch \ p_sigmask
         /\ p_sigmask' = p_sigmask \cup u_sigmask[SIGMSG] \cup {SIGMSG}
         /\ MarkCalls /\ p_sig' = p_sig
  BY <1>2 DEF LaunchBreak
<1>5. /\ stack' \in Seq(Context) /\ p_sig' \subseteq Sigs /\ p_sigmask' \subseteq Sigs
      /\ calls' \in Seq([mask : SUBSET Sigs, got : BOOLEAN])
  <2>1. CASE stack' = Append(stack, ResumeContext(l)) /\ calls' = calls /\ p_sigmask' = p_sigmask
             /\ p_sig' \in {p_sig} \cup {Pending(s) : s \in {SIGINT, SIGMSG} \cap (Sigs \ p_sigignore)}
    <3>1. stack' \in Seq(Context)
      BY <1>1, <2>1, ContextTypes, Pushed DEF Types
    <3>2. p_sig' \subseteq Sigs
      BY <2>1 DEF Types, Pending
    <3> QED
      BY <2>1, <3>1, <3>2 DEF Types
  <2>2. CASE /\ stack' = stack \o <<ResumeContext(l), Frame("catch", SIGMSG, p_sigmask)>>
             /\ SIGMSG \in p_sigcatch \ p_sigmask
             /\ p_sigmask' = p_sigmask \cup u_sigmask[SIGMSG] \cup {SIGMSG}
             /\ MarkCalls /\ p_sig' = p_sig
    <3>1. SIGMSG \in Sigs /\ p_sigmask' \subseteq Sigs /\ p_sigmask \in SUBSET Sigs
      BY <2>2 DEF Types
    <3>2. ResumeContext(l) \in Context /\ Frame("catch", SIGMSG, p_sigmask) \in Context
      BY <1>1, <3>1, ContextTypes
    <3>3. stack' \in Seq(Context)
      BY <2>2, <3>2, PushedTwo DEF Types
    <3> QED
      BY <2>2, <3>1, <3>3, Marked DEF Types
  <2> QED
    BY ZenonT(30), <1>4, <2>1, <2>2
<1>6. Types'
  BY <1>2, <1>3, <1>5 DEF Types, Launch, dispositions, sleepVars, Pcs
<1> QED
  BY <1>1, <1>2, <1>4, <1>6

\* psig() puts one frame on the stack, for the signal that CURSIG() returns.
LEMMA PsigTypes ==
  ASSUME Types, psig
  PROVE  /\ Types' /\ pc = "psig" /\ pc' = "psig"
         /\ \E s \in p_sig \ p_sigmask :
              /\ s \in Sigs /\ Taken(s) /\ \A r \in p_sig \ p_sigmask : Taken(r) => s <= r
              /\ p_sig' \subseteq p_sig \ {s}
              /\ MarkCalls
              /\ \/ /\ u_signal[s] = "catch"
                    /\ p_sigmask' = p_sigmask \cup u_sigmask[s] \cup {s}
                    /\ stack' = Append(stack, Frame("catch", s, p_sigmask'))
                 \/ /\ u_signal[s] # "catch"
                    /\ p_sigmask' = p_sigmask
                    /\ stack' = Append(stack, Frame("exit", s, p_sigmask))
<1> DEFINE s == CURSIG(p_sig, p_sigmask)
<1>1. /\ s \in p_sig \ p_sigmask /\ s \in Sigs /\ Taken(s)
      /\ \A r \in p_sig \ p_sigmask : Taken(r) => s <= r
      /\ AfterCURSIG(p_sig, p_sigmask) \subseteq p_sig
  BY ZenonT(30), CursigIsFirst DEF Types, psig
<1> HIDE DEF s
<1>2. /\ pc = "psig" /\ pc' = "psig" /\ PushSignal(s) /\ MarkCalls
      /\ p_sig' = AfterCURSIG(p_sig, p_sigmask) \ {s}
  BY DEF psig, s
<1>3. \/ /\ u_signal[s] = "catch"
         /\ p_sigmask' = p_sigmask \cup u_sigmask[s] \cup {s}
         /\ stack' = Append(stack, Frame("catch", s, p_sigmask'))
      \/ /\ u_signal[s] # "catch"
         /\ p_sigmask' = p_sigmask
         /\ stack' = Append(stack, Frame("exit", s, p_sigmask))
  BY <1>2 DEF PushSignal
<1>4. p_sigmask' \in SUBSET Sigs /\ p_sigmask \in SUBSET Sigs /\ somask' \in BOOLEAN
  BY ZenonT(30), <1>1, <1>2, <1>3 DEF Types, PushSignal
<1>5. stack' \in Seq(Context)
  <2>1. Frame("catch", s, p_sigmask') \in Context /\ Frame("exit", s, p_sigmask) \in Context
    BY <1>1, <1>4, ContextTypes
  <2>2. stack \in Seq(Context)
    BY DEF Types
  <2> QED
    BY <1>3, <2>1, <2>2, Pushed
<1>6. calls' \in Seq([mask : SUBSET Sigs, got : BOOLEAN])
  BY <1>2, Marked
<1>7. Types'
  BY <1>1, <1>2, <1>4, <1>5, <1>6 DEF Types, psig, dispositions, sleepVars, ctrlVars
<1> QED
  BY <1>1, <1>2, <1>3, <1>7

\* Contexts that are alike but for on.
Alike(c, d) == c.kind = d.kind /\ c.sig = d.sig /\ c.mask = d.mask /\ c.pc = d.pc

\* psigDone and sig_trampoline() take a context up: the last one, or the last but
\* one.  One that resumes goes.
TakenUp(n) ==
  /\ n \in 1 .. Len(stack) /\ pc' = stack[n].pc /\ pc' \in Labels
  /\ \/ p_sigmask' = stack[n].mask
     \/ p_sigmask' = p_sigmask /\ stack[n].kind = "resume" /\ n = Len(stack)
  /\ stack' \in Seq(Context) /\ Len(stack') = IF stack[n].kind = "resume" THEN n - 1 ELSE n
  /\ \A i \in 1 .. Len(stack') : Alike(stack'[i], stack[i])

LEMMA DoneTakesUp ==
  ASSUME Types, StackIsBuilt, psigDone
  PROVE  Types' /\ TakenUp(Len(stack))
<1> DEFINE n == Len(stack)
<1>1. stack \in Seq(Context) /\ stack # <<>> /\ n \in Nat \ {0} /\ stack[n] \in Context
  BY StackElements DEF Types, StackIsBuilt, psigDone
<1>2. p_sig' \subseteq p_sig
  BY DEF psigDone, AfterCURSIG
<1>3. CASE stack[n].kind = "resume"
  <2>1. pc' = stack[n].pc /\ stack' = SubSeq(stack, 1, n - 1) /\ p_sigmask' = p_sigmask
    BY <1>3 DEF psigDone, Top, Below
  <2>2. /\ stack' \in Seq(Context) /\ Len(stack') = n - 1
        /\ \A i \in 1 .. n - 1 : stack'[i] = stack[i]
    BY <1>1, <2>1, Popped, Zenon
  <2>3. pc' \in Labels /\ pc' \in Pcs
    BY <1>1, <2>1 DEF Context, Pcs, Labels
  <2>4. Types'
    BY <1>2, <2>1, <2>2, <2>3 DEF Types, psigDone, dispositions, sleepVars, ctrlVars, history
  <2> QED
    BY <1>1, <1>3, <2>1, <2>2, <2>3, <2>4 DEF TakenUp, Alike
<1>4. CASE stack[n].kind # "resume"
  <2>1. do_sigreturn(stack)
    BY <1>4 DEF psigDone, Top
  <2>2. /\ p_sigmask' = stack[n].mask /\ pc' = stack[n].pc
        /\ stack' \in Seq(Context) /\ Len(stack') = n
        /\ \A i \in 1 .. Len(stack') : Alike(stack'[i], stack[i])
    BY <1>1, <1>4, <2>1, Returned DEF Alike
  <2>3. pc' \in Labels /\ pc' \in Pcs /\ p_sigmask' \subseteq Sigs
    BY <1>1, <2>2 DEF Context, Pcs, Labels
  <2>4. Types'
    BY ZenonT(30), <1>2, <2>2, <2>3 DEF Types, psigDone, dispositions, sleepVars, ctrlVars, history
  <2> QED
    BY <1>1, <1>4, <2>2, <2>3, <2>4 DEF TakenUp
<1> QED
  BY <1>3, <1>4

LEMMA TrampolineTakesUp ==
  ASSUME Types, StackIsBuilt, sig_trampoline
  PROVE  /\ Types' /\ Len(stack) > 1 /\ TakenUp(Len(stack) - 1)
         /\ p_sigmask' = stack[Len(stack) - 1].mask
<1> DEFINE n == Len(stack)
           stk == SubSeq(stack, 1, n - 1)
<1>1. stack \in Seq(Context) /\ stack # <<>> /\ n \in Nat \ {0} /\ stack[n].kind = "catch"
  BY StackElements DEF Types, sig_trampoline, Top
<1>2. n - 1 \in Nat \ {0}
  BY <1>1 DEF StackIsBuilt
<1>3. stk \in Seq(Context) /\ Len(stk) = n - 1 /\ \A i \in 1 .. n - 1 : stk[i] = stack[i]
  BY <1>1, Popped, Zenon
<1>4. do_sigreturn(stk)
  BY DEF sig_trampoline, Below
<1> HIDE DEF stk
<1>5. stk # <<>>
  BY <1>2, <1>3, StackElements
<1>6. /\ stack[n - 1] \in Context
      /\ p_sigmask' = stack[n - 1].mask /\ pc' = stack[n - 1].pc
      /\ stack' \in Seq(Context)
      /\ Len(stack') = IF stack[n - 1].kind = "resume" THEN n - 2 ELSE n - 1
      /\ \A i \in 1 .. Len(stack') : Alike(stack'[i], stack[i])
  BY SMTT(30), <1>2, <1>3, <1>4, <1>5, Returned DEF Alike
<1>7. pc' \in Labels /\ pc' \in Pcs /\ p_sigmask' \subseteq Sigs
  BY <1>6 DEF Context, Pcs, Labels
<1>8. Types'
  BY <1>6, <1>7 DEF Types, sig_trampoline, dispositions, sleepVars, ctrlVars, history
<1>9. n > 1 /\ n - 1 \in 1 .. n /\ (n - 1) - 1 = n - 2
  <2>1. \A k \in Nat \ {0} : k - 1 \in Nat \ {0} => k > 1 /\ k - 1 \in 1 .. k /\ (k - 1) - 1 = k - 2
    BY SMTT(30)
  <2> HIDE DEF n
  <2> QED
    BY <1>1, <1>2, <2>1
<1>10. TakenUp(n - 1)
  BY ZenonT(30), <1>6, <1>7, <1>9 DEF TakenUp
<1> QED
  BY ZenonT(30), <1>6, <1>8, <1>9, <1>10

\* trap() puts a context on the stack, and also a frame, or posts the signal.
LEMMA TrapTypes ==
  ASSUME Types, NEW s \in Traps, trap(s)
  PROVE  /\ Types' /\ pc = "user" /\ pc' = "psig"
         /\ \/ /\ s \in p_sigcatch \ p_sigmask
               /\ stack' = stack \o <<ResumeContext("user"), Frame("catch", s, p_sigmask)>>
               /\ p_sigmask' = p_sigmask \cup u_sigmask[s] \cup {s}
               /\ UNCHANGED <<p_sig, dispositions, doomed>>
            \/ /\ s \notin p_sigcatch \ p_sigmask
               /\ psignal(s)
               /\ stack' = Append(stack, ResumeContext("user"))
               /\ doomed' = (doomed \/ s \in p_sigignore \cup p_sigmask)
<1>1. s \in Sigs /\ p_sigmask \in SUBSET Sigs /\ "user" \in Labels
  BY SignalsAssumption DEF Types, Labels
<1>2. ResumeContext("user") \in Context /\ Frame("catch", s, p_sigmask) \in Context
  BY <1>1, ContextTypes
<1>3. CASE s \in p_sigcatch \ p_sigmask
  <2>1. /\ stack' = stack \o <<ResumeContext("user"), Frame("catch", s, p_sigmask)>>
        /\ p_sigmask' = p_sigmask \cup u_sigmask[s] \cup {s}
        /\ UNCHANGED <<p_sig, dispositions, somask, u_oldmask, sleepVars, doomed>>
    BY ZenonT(30), <1>3 DEF trap
  <2>2. stack' \in Seq(Context)
    BY <1>2, <2>1, PushedTwo DEF Types
  <2>3. p_sigmask' \subseteq Sigs
    BY <1>1, <2>1 DEF Types
  <2>4. Types'
    BY <2>1, <2>2, <2>3 DEF Types, trap, dispositions, sleepVars, ctrlVars, Pcs
  <2> QED
    BY <1>3, <2>1, <2>4 DEF trap
<1>4. CASE s \notin p_sigcatch \ p_sigmask
  <2>1. /\ psignal(s)
        /\ stack' = Append(stack, ResumeContext("user"))
        /\ doomed' = (doomed \/ s \in p_sigignore \cup p_sigmask)
    BY <1>4 DEF trap
  <2>2. stack' \in Seq(Context)
    BY <1>2, <2>1, Pushed DEF Types
  <2>3. doomed' \in BOOLEAN
    BY <2>1 DEF Types
  <2>4. Types'
    BY <1>1, <2>1, <2>2, <2>3, PsignalTypes DEF Types, trap, ctrlVars, Pcs
  <2> QED
    BY <1>4, <2>1, <2>4 DEF trap
<1> QED
  BY <1>3, <1>4

\* Kill, Timer, Break and sig_exit keep the types.
LEMMA OtherTypes ==
  ASSUME Types,
         \/ \E s \in Senders : Kill(s)
         \/ \E s \in Timers : Timer(s)
         \/ Break \/ sig_exit
  PROVE  Types'
<1>1. ASSUME NEW s \in Sigs, psignal(s), UNCHANGED <<ctrlVars, stack, pc, chan, history>>
      PROVE  Types'
  BY <1>1, PsignalTypes DEF Types, ctrlVars, history
<1>2. CASE Break
  BY <1>2 DEF Types, Break, dispositions, maskVars, sleepVars, history
<1>3. CASE sig_exit
  BY <1>3 DEF Types, sig_exit, sleepVars, ctrlVars, history, Pcs
<1> QED
  BY <1>1, <1>2, <1>3, SignalsAssumption DEF Kill, Timer

\* Every step keeps the types.
LEMMA NextTypes ==
  ASSUME Types, StackIsBuilt, [Next]_vars
  PROVE  Types'
<1>1. CASE UNCHANGED vars
  BY <1>1 DEF Types, vars, dispositions, maskVars, sleepVars, ctrlVars, history
<1>2. CASE Syscall
  BY <1>2, SyscallTypes
<1>3. CASE Sleep \/ WakeFile
  BY <1>3, SleepTypes
<1>4. CASE Deliver
  BY <1>4, LaunchTypes, PsigTypes, DoneTakesUp DEF Deliver
<1>5. CASE sig_trampoline
  BY <1>5, TrampolineTakesUp
<1>6. CASE \E s \in Traps : trap(s)
  BY ZenonT(30), <1>6, TrapTypes
<1> QED
  BY <1>1, <1>2, <1>3, <1>4, <1>5, <1>6, OtherTypes DEF Next

-----------------------------------------------------------------------------
(* The stack.                                                                  *)

\* The calls, the sleep and what other tasks do leave the stack alone.
Quiet ==
  \/ Syscall \/ Sleep \/ WakeFile \/ Break
  \/ \E s \in Senders : Kill(s)
  \/ \E s \in Timers : Timer(s)

LEMMA QuietKeepsStack ==
  ASSUME Types, Quiet
  PROVE  stack' = stack /\ pc \notin {"psig", "dead"} /\ pc' \notin {"psig", "dead"}
<1>1. CASE Syscall
  BY ZenonT(30), <1>1 DEF Syscall, sigaction, sigprocmask, sigblock, sigsuspend, read, killSelf, InUser, TakeUnmasked
<1>2. CASE Sleep
  BY <1>2 DEF Sleep, tsleepEnter, tsleepMark, tsleepQueue, tsleepWake, SuspReturn, TakeUnmasked, AfterSleep
<1>3. CASE WakeFile \/ Break
  BY <1>3 DEF WakeFile, Break, Preemptible
<1>4. CASE (\E s \in Senders : Kill(s)) \/ (\E s \in Timers : Timer(s))
  BY <1>4 DEF Kill, Timer, Preemptible
<1> QED
  BY <1>1, <1>2, <1>3, <1>4 DEF Quiet

\* What a step of Next can be.
LEMMA NextCases ==
  ASSUME Next
  PROVE  Quiet \/ Launch \/ psig \/ psigDone \/ sig_trampoline \/ sig_exit \/ \E s \in Traps : trap(s)
  BY DEF Next, Quiet, Deliver

\* TakenUp keeps StackIsBuilt.
LEMMA TakenUpBuilt ==
  ASSUME Types, StackIsBuilt, NEW n, TakenUp(n)
  PROVE  StackIsBuilt'
<1>1. /\ n \in 1 .. Len(stack) /\ Len(stack) \in Nat /\ pc' \in Labels
      /\ stack' \in Seq(Context) /\ Len(stack') \in Nat
      /\ Len(stack') = IF stack[n].kind = "resume" THEN n - 1 ELSE n
      /\ \A i \in 1 .. Len(stack') : stack'[i].kind = stack[i].kind
      /\ stack' = <<>> <=> Len(stack') = 0
      /\ stack = <<>> <=> Len(stack) = 0
  BY StackElements DEF Types, TakenUp, Alike
<1>2. pc' \notin {"psig", "dead"}
  BY <1>1 DEF Labels
<1>3. ASSUME stack' # <<>> PROVE stack'[1].kind = "resume"
  <2>1. 1 \in 1 .. Len(stack') /\ stack # <<>>
    BY <1>1, <1>3
  <2>2. stack[1].kind = "resume"
    BY <2>1 DEF StackIsBuilt
  <2> QED
    BY <1>1, <2>1, <2>2
<1>4. ASSUME NEW i \in 1 .. Len(stack') - 1, stack'[i + 1].kind = "resume"
      PROVE  stack'[i].kind # "resume"
  <2>1. i \in 1 .. Len(stack) - 1 /\ i \in 1 .. Len(stack') /\ i + 1 \in 1 .. Len(stack')
    <3> DEFINE k == Len(stack)
               h == Len(stack')
    <3>1. n \in 1 .. k /\ k \in Nat /\ h \in Nat /\ (h = n \/ h = n - 1) /\ i \in 1 .. h - 1
      BY <1>1
    <3> HIDE DEF k, h
    <3>2. i \in 1 .. k - 1 /\ i \in 1 .. h /\ i + 1 \in 1 .. h
      BY <3>1
    <3> QED
      BY <3>2 DEF k, h
  <2> QED
    BY ZenonT(30), <1>1, <1>4, <2>1 DEF StackIsBuilt
<1>5. ASSUME stack' # <<>> PROVE stack'[Len(stack')].kind # "resume"
  <2>1. CASE stack[n].kind = "resume"
    <3>1. n - 1 \in 1 .. Len(stack) - 1 /\ n - 1 \in 1 .. Len(stack') /\ Len(stack') = n - 1 /\ (n - 1) + 1 = n
      BY <1>1, <1>5, <2>1
    <3> QED
      BY <1>1, <2>1, <3>1 DEF StackIsBuilt
  <2>2. CASE stack[n].kind # "resume"
    BY <1>1, <2>2
  <2> QED
    BY <2>1, <2>2
<1> QED
  BY <1>2, <1>3, <1>4, <1>5 DEF StackIsBuilt, Top

\* A context on a stack that ends in a frame, and frames on that.
LEMMA PushBuilt ==
  ASSUME Types, StackIsBuilt, pc' = "psig", NEW c \in Context, NEW d \in Context,
         \/ /\ pc \notin {"psig", "dead"} /\ c.kind = "resume"
            /\ stack' = Append(stack, c)
         \/ /\ pc \notin {"psig", "dead"} /\ c.kind = "resume"
            /\ stack' = stack \o <<c, d>> /\ d.kind # "resume"
         \/ /\ pc = "psig" /\ c.kind # "resume"
            /\ stack' = Append(stack, c)
  PROVE  StackIsBuilt'
<1> DEFINE n == Len(stack)
<1>1. stack \in Seq(Context) /\ n \in Nat /\ (stack = <<>> <=> n = 0)
  BY StackElements DEF Types
<1>2. CASE /\ stack' = Append(stack, c)
           /\ \/ pc \notin {"psig", "dead"} /\ c.kind = "resume"
              \/ pc = "psig" /\ c.kind # "resume"
  <2>1. /\ Len(stack') = n + 1 /\ stack'[n + 1] = c /\ stack' # <<>>
        /\ \A i \in 1 .. n : stack'[i] = stack[i]
    BY <1>1, <1>2, Pushed, StackElements
  <2>2. stack'[1].kind = "resume"
    <3>1. CASE n = 0
      BY <1>1, <1>2, <2>1, <3>1 DEF StackIsBuilt
    <3>2. CASE n # 0
      <4>1. 1 \in 1 .. n /\ stack # <<>>
        BY <1>1, <3>2
      <4>2. stack[1].kind = "resume"
        BY <4>1 DEF StackIsBuilt
      <4> QED
        BY <2>1, <4>1, <4>2
    <3> QED
      BY <3>1, <3>2
  <2>3. ASSUME NEW i \in 1 .. n, stack'[i + 1].kind = "resume" PROVE stack'[i].kind # "resume"
    <3>1. CASE i = n
      BY <1>1, <1>2, <2>1, <2>3, <3>1 DEF StackIsBuilt, Top
    <3>2. CASE i # n
      <4>1. i \in 1 .. n - 1 /\ i + 1 \in 1 .. n
        BY <1>1, <3>2
      <4> QED
        BY <2>1, <2>3, <4>1 DEF StackIsBuilt
    <3> QED
      BY <3>1, <3>2
  <2> QED
    BY <1>1, <2>1, <2>2, <2>3 DEF StackIsBuilt
<1>3. CASE /\ stack' = stack \o <<c, d>> /\ d.kind # "resume"
           /\ pc \notin {"psig", "dead"} /\ c.kind = "resume"
  <2>1. /\ Len(stack') = n + 2 /\ stack'[n + 1] = c /\ stack'[n + 2] = d /\ stack' # <<>>
        /\ \A i \in 1 .. n : stack'[i] = stack[i]
    BY <1>1, <1>3, PushedTwo, StackElements
  <2>2. stack'[1].kind = "resume"
    BY <1>1, <1>3, <2>1 DEF StackIsBuilt
  <2>3. ASSUME NEW i \in 1 .. n + 1, stack'[i + 1].kind = "resume" PROVE stack'[i].kind # "resume"
    <3>1. CASE i = n + 1
      BY <1>1, <1>3, <2>1, <2>3, <3>1
    <3>2. CASE i = n
      BY <1>1, <1>3, <2>1, <3>2 DEF StackIsBuilt, Top
    <3>3. CASE i \in 1 .. n - 1
      <4>1. i \in 1 .. n /\ i + 1 \in 1 .. n
        BY <1>1, <3>3
      <4> QED
        BY <2>1, <2>3, <3>3, <4>1 DEF StackIsBuilt
    <3> QED
      BY <1>1, <3>1, <3>2, <3>3
  <2> QED
    BY <1>1, <2>1, <2>2, <2>3 DEF StackIsBuilt
<1> QED
  BY <1>2, <1>3

\* Every step keeps StackIsBuilt.
LEMMA NextBuilt ==
  ASSUME Types, StackIsBuilt, [Next]_vars
  PROVE  StackIsBuilt'
<1>1. CASE UNCHANGED vars
  BY <1>1 DEF vars, StackIsBuilt, Top
<1>2. CASE Quiet
  BY <1>2, QuietKeepsStack DEF StackIsBuilt, Top
<1>3. CASE Launch
  <2>1. PICK l \in Labels :
          /\ pc \in {"user", "switch_user", "suspret", "switch_suspret"} /\ pc' = "psig"
          /\ \/ stack' = Append(stack, ResumeContext(l))
             \/ /\ stack' = stack \o <<ResumeContext(l), Frame("catch", SIGMSG, p_sigmask)>>
                /\ SIGMSG \in p_sigcatch
    BY <1>3, LaunchTypes
  <2>2. ResumeContext(l) \in Context /\ ResumeContext(l).kind = "resume"
    BY ContextTypes DEF ResumeContext
  <2>3. SIGMSG \in p_sigcatch => /\ Frame("catch", SIGMSG, p_sigmask) \in Context
                                 /\ Frame("catch", SIGMSG, p_sigmask).kind # "resume"
    BY ContextTypes DEF Types, Frame
  <2> QED
    BY ZenonT(30), <2>1, <2>2, <2>3, PushBuilt
<1>4. CASE psig
  <2>1. PICK s \in Sigs :
          /\ pc = "psig" /\ pc' = "psig" /\ Types'
          /\ \/ stack' = Append(stack, Frame("catch", s, p_sigmask'))
             \/ stack' = Append(stack, Frame("exit", s, p_sigmask))
    BY ZenonT(30), <1>4, PsigTypes DEF Types
  <2>2. /\ Frame("catch", s, p_sigmask') \in Context /\ Frame("catch", s, p_sigmask').kind # "resume"
        /\ Frame("exit", s, p_sigmask) \in Context /\ Frame("exit", s, p_sigmask).kind # "resume"
    BY <2>1, ContextTypes DEF Types, Frame
  <2> QED
    BY <2>1, <2>2, PushBuilt
<1>5. CASE psigDone
  <2>1. TakenUp(Len(stack))
    BY <1>5, DoneTakesUp
  <2> QED
    BY <2>1, TakenUpBuilt
<1>6. CASE sig_trampoline
  <2>1. TakenUp(Len(stack) - 1)
    BY <1>6, TrampolineTakesUp
  <2> QED
    BY <2>1, TakenUpBuilt
<1>7. CASE sig_exit
  BY <1>7 DEF sig_exit, StackIsBuilt
<1>8. ASSUME NEW s \in Traps, trap(s) PROVE StackIsBuilt'
  <2>1. /\ pc = "user" /\ pc' = "psig"
        /\ \/ stack' = stack \o <<ResumeContext("user"), Frame("catch", s, p_sigmask)>>
           \/ stack' = Append(stack, ResumeContext("user"))
    BY ZenonT(30), <1>8, TrapTypes
  <2>2. /\ ResumeContext("user") \in Context /\ ResumeContext("user").kind = "resume"
        /\ Frame("catch", s, p_sigmask) \in Context /\ Frame("catch", s, p_sigmask).kind # "resume"
    BY ContextTypes, SignalsAssumption DEF Types, ResumeContext, Frame, Labels
  <2> QED
    BY ZenonT(30), <2>1, <2>2, PushBuilt
<1> QED
  BY <1>1, <1>2, <1>3, <1>4, <1>5, <1>6, <1>7, <1>8, NextCases
=============================================================================
