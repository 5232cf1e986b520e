------------------------------- MODULE IxMutex ------------------------------
(* ix_mutex_lock(), ix_mutex_attempt_lock() and ix_mutex_unlock() of           *)
(* library/ix_sem.c, on which ix_lock_base() and open_sem rest: semaphores of  *)
(* exec that are set up at their first use and that block the signals of their *)
(* holder.                                                                     *)
EXTENDS Integers, Sequences, FiniteSets

CONSTANTS
  Tasks, Mutexes, Nil,
  MaxNest,       \* how often a task locks a mutex it holds
  Fresh          \* SUBSET Mutexes: those that nobody has used yet

VARIABLES
  initialized, oldmask,  \* of struct mutex
  ss_Owner, ss_NestCount,\* of its SignalSemaphore
  p_sigmask,             \* the signal mask of a task: its own, or all signals
  pc, arg, old,          \* where a task is, its mutex, the mask it has saved
  held                   \* the mutexes a task has locked, innermost last

Own == "own"
All == "all"
semVars == <<ss_Owner, ss_NestCount>>
vars == <<initialized, oldmask, semVars, p_sigmask, pc, arg, old, held>>

Init ==
  /\ initialized = [m \in Mutexes |-> m \notin Fresh]
  /\ oldmask = [m \in Mutexes |-> Own]
  /\ ss_Owner = [m \in Mutexes |-> Nil] /\ ss_NestCount = [m \in Mutexes |-> 0]
  /\ p_sigmask = [t \in Tasks |-> Own]
  /\ pc = [t \in Tasks |-> "run"] /\ arg = [t \in Tasks |-> Nil]
  /\ old = [t \in Tasks |-> Own] /\ held = [t \in Tasks |-> <<>>]

Goto(t, l) == pc' = [pc EXCEPT ![t] = l]

\* The call is over.
Finish(t) ==
  /\ Goto(t, "run")
  /\ arg' = [arg EXCEPT ![t] = Nil] /\ old' = [old EXCEPT ![t] = Own]

Depth(t, m) == Cardinality({i \in DOMAIN held[t] : held[t][i] = m})

\* The places of the two locks: before InitSemaphore(), and at exec's semaphore.
InitOf(next) == IF next = "lock" THEN "lockInit" ELSE "attemptInit"
ObtainOf(next) == IF next = "lock" THEN "lockObtain" ELSE "attemptObtain"

\* Either lock up to the test of initialized.
Enter(t, m, next) ==
  /\ pc[t] = "run" /\ Depth(t, m) < MaxNest
  /\ arg' = [arg EXCEPT ![t] = m]
  /\ old' = [old EXCEPT ![t] = p_sigmask[t]]
  /\ Goto(t, IF initialized[m] THEN next ELSE InitOf(next))
  /\ UNCHANGED <<initialized, oldmask, semVars, p_sigmask, held>>

ix_mutex_lock(t, m) == Enter(t, m, "lock")
ix_mutex_attempt_lock(t, m) == Enter(t, m, "attempt")

\* InitSemaphore(): the semaphore is free, whoever had it.
InitSemaphore(t, next) ==
  LET m == arg[t] IN
  /\ pc[t] = InitOf(next)
  /\ ss_Owner' = [ss_Owner EXCEPT ![m] = Nil]
  /\ ss_NestCount' = [ss_NestCount EXCEPT ![m] = 0]
  /\ initialized' = [initialized EXCEPT ![m] = TRUE]
  /\ Goto(t, next)
  /\ UNCHANGED <<oldmask, p_sigmask, arg, old, held>>

\* The signals are blocked.
Mask(t, next) ==
  /\ pc[t] = next
  /\ p_sigmask' = [p_sigmask EXCEPT ![t] = All]
  /\ Goto(t, ObtainOf(next))
  /\ UNCHANGED <<initialized, oldmask, semVars, arg, old, held>>

\* A faulty SaveMask: also a nested lock saves the mask.
SaveMaskAlways(t, m) == oldmask' = [oldmask EXCEPT ![m] = old[t]]

\* The outermost lock saves the mask.
SaveMask(t, m) ==
  oldmask' = IF ss_NestCount[m] = 0 THEN [oldmask EXCEPT ![m] = old[t]] ELSE oldmask

\* A faulty Available: the owner is not looked at.
AvailableAlways(t, m) == TRUE

\* ObtainSemaphore() does not wait.
Available(t, m) == ss_Owner[m] \in {Nil, t}

\* ObtainSemaphore() or AttemptSemaphore() succeeds.
Obtain(t) ==
  LET m == arg[t] IN
  /\ pc[t] \in {"lockObtain", "attemptObtain"} /\ Available(t, m)
  /\ ss_Owner' = [ss_Owner EXCEPT ![m] = t]
  /\ ss_NestCount' = [ss_NestCount EXCEPT ![m] = @ + 1]
  /\ SaveMask(t, m)
  /\ held' = [held EXCEPT ![t] = Append(@, m)]
  /\ Finish(t)
  /\ UNCHANGED <<initialized, p_sigmask>>

\* AttemptSemaphore() fails: EAGAIN.
AttemptFails(t) ==
  /\ pc[t] = "attemptObtain" /\ ~Available(t, arg[t])
  /\ p_sigmask' = [p_sigmask EXCEPT ![t] = old[t]]
  /\ Finish(t)
  /\ UNCHANGED <<initialized, oldmask, semVars, held>>

\* ix_mutex_unlock() of the innermost lock. It cannot be the first use.
ix_mutex_unlock(t) ==
  LET m == held[t][Len(held[t])] IN
  /\ pc[t] = "run" /\ held[t] # <<>>
  /\ old' = [old EXCEPT ![t] = IF ss_NestCount[m] = 1 THEN oldmask[m] ELSE p_sigmask[t]]
  /\ IF ss_NestCount[m] > 0
       THEN /\ ss_NestCount' = [ss_NestCount EXCEPT ![m] = @ - 1]
            /\ ss_Owner' = [ss_Owner EXCEPT ![m] = IF ss_NestCount[m] = 1 THEN Nil ELSE @]
       ELSE UNCHANGED semVars
  /\ held' = [held EXCEPT ![t] = SubSeq(@, 1, Len(@) - 1)]
  /\ Goto(t, "unmask")
  /\ UNCHANGED <<initialized, oldmask, p_sigmask, arg>>

\* ix_mutex_unlock(): the mask comes back after the semaphore is released.
Unmask(t) ==
  /\ pc[t] = "unmask"
  /\ p_sigmask' = [p_sigmask EXCEPT ![t] = old[t]]
  /\ Finish(t)
  /\ UNCHANGED <<initialized, oldmask, semVars, held>>

Step(t) ==
  \/ \E next \in {"lock", "attempt"} : InitSemaphore(t, next) \/ Mask(t, next)
  \/ Obtain(t) \/ AttemptFails(t) \/ Unmask(t)

Next ==
  \E t \in Tasks :
    \/ \E m \in Mutexes : ix_mutex_lock(t, m) \/ ix_mutex_attempt_lock(t, m)
    \/ ix_mutex_unlock(t)
    \/ Step(t)

Spec == Init /\ [][Next]_vars

-----------------------------------------------------------------------------
(* Properties.                                                                 *)

\* Two tasks never hold a mutex at the same time: ObtainSemaphore() lets one task
\* in.
MutualExclusion ==
  \A t, s \in Tasks : \A m \in Mutexes :
    t # s => Depth(t, m) = 0 \/ Depth(s, m) = 0

\* A task that holds a mutex has its signals blocked, and one that is out of all
\* of them has its own mask back, however the locks were nested.
MaskFollowsLock ==
  \A t \in Tasks : pc[t] = "run" =>
    p_sigmask[t] = IF held[t] = <<>> THEN Own ELSE All
=============================================================================
