---------------------------- MODULE SignalsProofs ----------------------------
(* Theorems about Signals, for every set of signals, masks and calls: the       *)
(* invariant of SignalsBase is kept by every step, and with it the bound on the *)
(* stack, where a context is pushed only when there is room for a frame of      *)
(* every signal and each signal gets at most one before the stack is taken up.  *)
EXTENDS SignalsSuspend, FiniteSetTheorems

-----------------------------------------------------------------------------
(* The bound on the stack.                                                     *)

\* While psig() runs there is room for the signals it can still take.
StackHasRoom ==
  /\ Len(stack) <= MaxStack
  /\ pc = "psig" => Len(stack) + Cardinality(p_sig \ p_sigmask) <= MaxStack

\* A set of signals has at most as many elements as Sigs.
LEMMA SignalsCounted ==
  ASSUME NEW S, S \subseteq Sigs
  PROVE  /\ IsFiniteSet(S) /\ Cardinality(S) \in Nat /\ Cardinality(Sigs) \in Nat
         /\ Cardinality(S) <= Cardinality(Sigs)
         /\ \A s \in Sigs \ S : Cardinality(S) + 1 <= Cardinality(Sigs)
         /\ \A T \in SUBSET S : /\ Cardinality(T) \in Nat /\ Cardinality(T) <= Cardinality(S)
                                /\ \A s \in S \ T : Cardinality(T) + 1 <= Cardinality(S)
<1>1. IsFiniteSet(Sigs)
  <2>1. \A n \in Nat : IsFiniteSet(1 .. n)
    BY FS_Interval
  <2>2. Sigs \subseteq 1 .. 32 /\ 32 \in Nat
    BY SignalsAssumption
  <2> QED
    BY ZenonT(30), <2>1, <2>2, FS_Subset
<1>2. IsFiniteSet(S) /\ Cardinality(S) \in Nat /\ Cardinality(Sigs) \in Nat
  BY <1>1, FS_Subset, FS_CardinalityType
<1>3. ASSUME NEW U, IsFiniteSet(U), NEW T, T \subseteq U, NEW s \in U \ T
      PROVE  Cardinality(T) + 1 <= Cardinality(U)
  <2>1. IsFiniteSet(T) /\ IsFiniteSet(T \cup {s}) /\ Cardinality(T \cup {s}) = Cardinality(T) + 1
    BY <1>3, FS_Subset, FS_AddElement
  <2>2. T \cup {s} \subseteq U
    BY <1>3
  <2> QED
    BY <1>3, <2>1, <2>2, FS_Subset
<1> QED
  BY <1>1, <1>2, <1>3, FS_Subset, FS_CardinalityType

\* Every step keeps StackHasRoom: psig() takes no signal twice.
LEMMA NextRoom ==
  ASSUME Types, StackIsBuilt, StackHasRoom, [Next]_vars, Types'
  PROVE  StackHasRoom'
<1> DEFINE n == Len(stack)
<1>1. stack \in Seq(Context) /\ n \in Nat /\ MaxStack \in Nat /\ Len(stack') \in Nat
  BY StackElements, SignalsAssumption DEF Types
<1>2. CASE UNCHANGED vars
  BY <1>2 DEF vars, maskVars, StackHasRoom
<1>3. CASE Quiet
  BY <1>3, QuietKeepsStack DEF StackHasRoom
<1>4. ASSUME RoomForSignals,
             \/ Len(stack') = n + 1
             \/ Len(stack') = n + 2 /\ \E s \in Sigs : s \in p_sigmask'
      PROVE  StackHasRoom'
  <2> DEFINE k == Cardinality((p_sig \ p_sigmask)')
             m == Cardinality(Sigs)
  <2>1. (p_sig \ p_sigmask)' \subseteq Sigs
    BY DEF Types
  <2>2. k \in Nat /\ m \in Nat /\ k <= m /\ ((\E s \in Sigs : s \in p_sigmask') => k + 1 <= m)
    BY <2>1, SignalsCounted
  <2>3. n + 1 + m <= MaxStack
    BY <1>4 DEF RoomForSignals
  <2> HIDE DEF k, m
  <2>4. Len(stack') + k <= MaxStack
    BY <1>1, <1>4, <2>2, <2>3
  <2> QED
    BY <1>1, <2>2, <2>4 DEF StackHasRoom, k
<1>5. CASE Launch
  <2>1. PICK l \in Labels :
          \/ stack' = Append(stack, ResumeContext(l))
          \/ /\ stack' = stack \o <<ResumeContext(l), Frame("catch", SIGMSG, p_sigmask)>>
             /\ SIGMSG \in p_sigcatch \ p_sigmask
             /\ p_sigmask' = p_sigmask \cup u_sigmask[SIGMSG] \cup {SIGMSG}
    BY ZenonT(30), <1>5, LaunchTypes
  <2>2. ResumeContext(l) \in Context
    BY ContextTypes
  <2>3. SIGMSG \in p_sigcatch => SIGMSG \in Sigs /\ Frame("catch", SIGMSG, p_sigmask) \in Context
    BY ContextTypes DEF Types
  <2>4. CASE stack' = Append(stack, ResumeContext(l))
    BY <1>1, <1>4, <1>5, <2>2, <2>4, Pushed DEF Launch
  <2>5. CASE /\ stack' = stack \o <<ResumeContext(l), Frame("catch", SIGMSG, p_sigmask)>>
             /\ SIGMSG \in p_sigcatch \ p_sigmask
             /\ p_sigmask' = p_sigmask \cup u_sigmask[SIGMSG] \cup {SIGMSG}
    <3>1. Len(stack') = n + 2
      BY ZenonT(30), <1>1, <2>2, <2>3, <2>5, PushedTwo
    <3> QED
      BY ZenonT(30), <1>4, <1>5, <2>3, <2>5, <3>1 DEF Launch
  <2> QED
    BY <2>1, <2>4, <2>5
<1>6. CASE psig
  <2>1. PICK s \in p_sig \ p_sigmask :
          /\ pc = "psig" /\ s \in Sigs
          /\ p_sig' \subseteq p_sig \ {s} /\ p_sigmask \subseteq p_sigmask'
          /\ \/ stack' = Append(stack, Frame("catch", s, p_sigmask'))
             \/ stack' = Append(stack, Frame("exit", s, p_sigmask))
    BY <1>6, PsigTypes
  <2>2. Frame("catch", s, p_sigmask') \in Context /\ Frame("exit", s, p_sigmask) \in Context
    BY <2>1, ContextTypes DEF Types
  <2>3. Len(stack') = n + 1
    BY ZenonT(30), <1>1, <2>1, <2>2, Pushed
  <2> DEFINE k == Cardinality(p_sig \ p_sigmask)
             j == Cardinality((p_sig \ p_sigmask)')
  <2>4. p_sig \ p_sigmask \subseteq Sigs /\ (p_sig \ p_sigmask)' \subseteq p_sig \ p_sigmask
        /\ s \in (p_sig \ p_sigmask) \ (p_sig \ p_sigmask)'
    BY <2>1 DEF Types
  <2>5. k \in Nat /\ j \in Nat /\ j + 1 <= k
    BY <2>4, SignalsCounted
  <2>6. n + k <= MaxStack
    BY <2>1 DEF StackHasRoom
  <2> HIDE DEF k, j
  <2>7. Len(stack') + j <= MaxStack /\ Len(stack') <= MaxStack
    BY <1>1, <2>3, <2>5, <2>6
  <2> QED
    BY <2>7 DEF StackHasRoom, j
<1>7. ASSUME NEW i, TakenUp(i) PROVE StackHasRoom'
  <2>1. Len(stack') <= n /\ pc' # "psig"
    BY <1>1, <1>7 DEF TakenUp, Labels
  <2> QED
    BY <1>1, <2>1 DEF StackHasRoom
<1>8. CASE psigDone \/ sig_trampoline
  BY <1>7, <1>8, DoneTakesUp, TrampolineTakesUp
<1>9. CASE sig_exit
  BY <1>9 DEF sig_exit, StackHasRoom
<1>10. ASSUME NEW s \in Traps, trap(s) PROVE StackHasRoom'
  <2>1. \/ /\ stack' = stack \o <<ResumeContext("user"), Frame("catch", s, p_sigmask)>>
           /\ p_sigmask' = p_sigmask \cup u_sigmask[s] \cup {s}
        \/ stack' = Append(stack, ResumeContext("user"))
    BY <1>10, TrapTypes
  <2>2. s \in Sigs /\ ResumeContext("user") \in Context /\ Frame("catch", s, p_sigmask) \in Context
    BY ContextTypes, SignalsAssumption DEF Types, Labels
  <2>3. \/ Len(stack') = n + 1
        \/ Len(stack') = n + 2 /\ s \in p_sigmask'
    BY <1>1, <2>1, <2>2, Pushed, PushedTwo
  <2> QED
    BY ZenonT(30), <1>4, <1>10, <2>2, <2>3 DEF trap
<1> QED
  BY ZenonT(30), <1>2, <1>3, <1>5, <1>6, <1>8, <1>9, <1>10, NextCases
-----------------------------------------------------------------------------
(* The invariant and what follows from it.                                     *)

\* siginit() establishes the invariant.
LEMMA InitIInv ==
  ASSUME Init
  PROVE  IInv /\ StackHasRoom
<1>1. /\ stack = <<>> /\ calls = <<>> /\ Len(stack) = 0 /\ Len(calls) = 0 /\ DOMAIN stack = {}
      /\ pc = "user" /\ doomed = FALSE /\ p_sig = {} /\ p_sigmask = {}
  BY DEF Init
<1>2. Types
  <2>1. stack \in Seq(Context) /\ calls \in Seq([mask : SUBSET Sigs, got : BOOLEAN])
    BY <1>1
  <2> QED
    BY ZenonT(30), <2>1 DEF Init, Types, Actions, Pcs, Labels
<1>3. StackIsBuilt /\ BusyIsMasked
  BY <1>1 DEF StackIsBuilt, BusyIsMasked, HandlersDoNotNest
<1>4. CatchAgrees
  BY <1>1 DEF Init, CatchAgrees
<1>5. KillPasses /\ PendingAgrees
  BY <1>1 DEF Init, KillPasses, KillIsNeverMasked, PendingAgrees, IgnoredIsNotPending, StopOrContinue
<1>6. SleepIsTold /\ SuspendIsOne
  BY <1>1 DEF SleepIsTold, SuspendIsOne, Suspended, Sleeping
<1>7. SuspendHasSignal /\ TrapEnds
  BY <1>1 DEF SuspendHasSignal, TrapEnds
<1>8. StackHasRoom
  BY <1>1, SignalsAssumption DEF StackHasRoom
<1> QED
  BY ZenonT(30), <1>2, <1>3, <1>4, <1>5, <1>6, <1>7, <1>8 DEF IInv

\* Every step keeps it.
LEMMA NextIInv ==
  ASSUME IInv, StackHasRoom, [Next]_vars
  PROVE  IInv' /\ StackHasRoom'
<1> USE DEF IInv
<1>1. Types' /\ StackIsBuilt'
  BY NextTypes, NextBuilt
<1>2. CatchAgrees' /\ KillPasses' /\ PendingAgrees' /\ SleepIsTold'
  BY ZenonT(30), <1>1, NextCatch, NextKill, NextPending, NextSleep
<1>3. OneSuspend => SuspendIsOne'
  BY <1>1, NextSuspend
<1>4. HandlersKeepMask => BusyIsMasked'
  <2>1. HandlersKeepMask => OneSuspend
    BY DEF HandlersKeepMask, OneSuspend
  <2> QED
    BY <1>1, <2>1, NextBusy
<1>5. (OneSuspend /\ StopsNotCaught) => SuspendHasSignal'
  BY <1>1, NextTakes
<1>6. IllIsDefault => TrapEnds'
  BY <1>1, NextTrapEnds
<1>7. StackHasRoom'
  BY <1>1, NextRoom
<1> QED
  BY ZenonT(30), <1>1, <1>2, <1>3, <1>4, <1>5, <1>6, <1>7

\* The invariant holds in every state of every behaviour.
THEOREM IInvHolds == Spec => [](IInv /\ StackHasRoom)
<1>1. Init => IInv /\ StackHasRoom
  BY InitIInv
<1>2. (IInv /\ StackHasRoom) /\ [Next]_vars => (IInv /\ StackHasRoom)'
  BY NextIInv
<1> QED
  BY <1>1, <1>2, PTL DEF Spec

\* SIGKILL and SIGSTOP are in no mask that p_sigmask holds or will hold, whatever
\* the calls and the handlers do: each way into a mask goes through sigcantmask,
\* and a context keeps what p_sigmask was.
THEOREM KillIsNeverMaskedHolds == Spec => []KillIsNeverMasked
<1>1. IInv /\ StackHasRoom => KillIsNeverMasked
  BY DEF IInv, KillPasses
<1> QED
  BY <1>1, IInvHolds, PTL

\* No ignored signal is pending, and no stop signal together with SIGCONT, for
\* every order of setsigvec(), _psignal() and the conversion of traps.
THEOREM PendingAgreesHolds == Spec => []PendingAgrees
<1>1. IInv /\ StackHasRoom => PendingAgrees
  BY DEF IInv
<1> QED
  BY <1>1, IInvHolds, PTL

\* The handler of a signal that psig() delivers is not entered twice, as long as
\* no handler lowers its mask: the mask stays raised through every context above
\* its frame.
THEOREM HandlersDoNotNestHolds ==
  ASSUME HandlersKeepMask
  PROVE  Spec => []HandlersDoNotNest
<1>1. IInv /\ StackHasRoom => HandlersDoNotNest
  BY DEF IInv, BusyIsMasked
<1> QED
  BY <1>1, IInvHolds, PTL

\* The task that waits in tsleep() has been sent its signal bit when another task
\* has posted a signal that it can take: none is lost before Wait().
LEMMA SleeperTold ==
  ASSUME IInv
  PROVE  SleeperIsTold
<1> DEFINE P == p_sig \ Timers
<1>1. P \subseteq Sigs
  BY DEF IInv, Types
<1>2. ASSUME CURSIG(P, p_sigmask) # 0 PROVE SignalThere
  <2>1. CURSIG(P, p_sigmask) \in P \ p_sigmask /\ Taken(CURSIG(P, p_sigmask))
    BY <1>1, <1>2, CursigIsFirst
  <2> QED
    BY <2>1 DEF SignalThere
<1> QED
  BY <1>2 DEF IInv, SleepIsTold, SleeperIsTold

\* Without any assumption on the program: the state is of its type, its stack
\* within the bound, and no signal of another task is lost between the test of
\* tsleep() and Wait().
THEOREM SleeperIsToldHolds == Spec => [](TypeOK /\ SleeperIsTold)
<1>1. IInv /\ StackHasRoom => TypeOK
  BY DEF IInv, Types, StackHasRoom, TypeOK
<1>2. IInv /\ StackHasRoom => TypeOK /\ SleeperIsTold
  BY <1>1, SleeperTold
<1> QED
  BY <1>2, IInvHolds, PTL

\* sigsuspend() that returns is the only one in progress.
LEMMA ReturningSuspend ==
  ASSUME IInv, OneSuspend, pc = "suspret"
  PROVE  Len(calls) = 1 /\ calls[1].mask = u_oldmask
<1>1. SuspendIsOne
  BY DEF IInv
<1>2. Suspended
  BY <1>1 DEF SuspendIsOne, Suspended
<1> QED
  BY <1>1, <1>2 DEF SuspendIsOne

\* The state of the signals is of its type, a sleeper is told of its signal,
\* sigsuspend() does not return before a signal was taken, and a trap that is
\* masked or ignored ends the program.  Handlers do not call sigsuspend(), no stop
\* signal is caught and no signal up to SIGILL is.
THEOREM SignalsAreTakenHolds ==
  ASSUME OneSuspend, StopsNotCaught, IllIsDefault
  PROVE  Spec => []SignalsAreTaken
<1>1. IInv /\ StackHasRoom => TypeOK
  BY DEF IInv, Types, StackHasRoom, TypeOK
<1>2. IInv => SuspendTakesSignal
  BY ReturningSuspend DEF IInv, SuspendHasSignal, SuspendTakesSignal
<1>3. IInv => TrapIsFatal
  BY DEF IInv, TrapEnds, TrapIsFatal
<1>4. IInv /\ StackHasRoom => SignalsAreTaken
  BY <1>1, <1>2, <1>3, SleeperTold DEF SignalsAreTaken
<1> QED
  BY <1>4, IInvHolds, PTL

\* sigsuspend() returns with the mask it was called with, when handlers do not call
\* it: u_oldmask is that of the one call in progress.
THEOREM SuspendRestoresMaskHolds ==
  ASSUME OneSuspend
  PROVE  Spec => SuspendRestoresMask
<1>1. IInv /\ StackHasRoom /\ [Next]_vars => [SuspReturn => p_sigmask' = calls[Len(calls)].mask]_vars
  BY ReturningSuspend DEF SuspReturn
<1> QED
  BY <1>1, IInvHolds, PTL DEF Spec, SuspendRestoresMask
=============================================================================
