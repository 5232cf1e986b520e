---------------------------- MODULE IxMutexProofs ----------------------------
(* Proofs about the mutexes of library/ix_sem.c, for any number of tasks and   *)
(* of mutexes and any nesting, provided that no two tasks can be the first to  *)
(* use a mutex: ix_mutex_lock() tests and sets initialized without a lock.     *)
EXTENDS IxMutex, FiniteSetTheorems, SequenceTheorems, TLAPS

\* The library uses its mutexes before a second task runs, or there is no second
\* task.
OneAtFirstUse == Fresh = {} \/ \A t, s \in Tasks : t = s

-----------------------------------------------------------------------------
(* How often a mutex is in the list of those a task holds.                     *)

Places(s, m) == {i \in DOMAIN s : s[i] = m}
Occ(s, m) == Cardinality(Places(s, m))

\* The places are a finite set; there are some if the mutex is in the list.
LEMMA OccType ==
  ASSUME NEW s \in Seq(Mutexes), NEW m
  PROVE  /\ IsFiniteSet(Places(s, m)) /\ Occ(s, m) \in Nat
         /\ Occ(s, m) = 0 <=> Places(s, m) = {}
<1>1. IsFiniteSet(1 .. Len(s))
  BY FS_Interval
<1>2. Places(s, m) \subseteq 1 .. Len(s)
  BY DEF Places
<1>3. IsFiniteSet(Places(s, m))
  BY <1>1, <1>2, FS_Subset
<1> QED
  BY <1>3, FS_CardinalityType, FS_EmptySet DEF Occ

\* A mutex at two places is counted twice.
LEMMA OccTwice ==
  ASSUME NEW s \in Seq(Mutexes), NEW i \in DOMAIN s, NEW j \in DOMAIN s, i # j, s[i] = s[j]
  PROVE  Occ(s, s[i]) > 1
<1> DEFINE P == Places(s, s[i])
<1>1. IsFiniteSet(P) /\ i \in P /\ j \in P
  BY OccType DEF Places
<1>2. IsFiniteSet(P \ {i}) /\ Cardinality(P \ {i}) = Cardinality(P) - 1
  BY <1>1, FS_RemoveElement
<1>3. j \in P \ {i}
  BY <1>1
<1>4. Cardinality(P \ {i}) # 0 /\ Cardinality(P \ {i}) \in Nat /\ Cardinality(P) \in Nat
  BY ZenonT(30), <1>1, <1>2, <1>3, FS_EmptySet, FS_CardinalityType
<1> QED
  BY <1>2, <1>4 DEF Occ

\* Append, as ObtainSemaphore() does it, adds one place of the mutex obtained.
LEMMA OccAppend ==
  ASSUME NEW s \in Seq(Mutexes), NEW x \in Mutexes, NEW m
  PROVE  Occ(Append(s, x), m) = Occ(s, m) + IF x = m THEN 1 ELSE 0
<1> DEFINE n == Len(s) + 1
<1>1. /\ DOMAIN Append(s, x) = DOMAIN s \cup {n} /\ n \notin DOMAIN s
      /\ \A i \in DOMAIN s : Append(s, x)[i] = s[i]
      /\ Append(s, x)[n] = x
  BY AppendProperties
<1>2. CASE x = m
  <2>1. Places(Append(s, x), m) = Places(s, m) \cup {n} /\ n \notin Places(s, m)
    BY <1>1, <1>2 DEF Places
  <2> QED
    BY ZenonT(30), <1>2, <2>1, OccType, FS_AddElement DEF Occ
<1>3. CASE x # m
  <2>1. Places(Append(s, x), m) = Places(s, m)
    BY <1>1, <1>3 DEF Places
  <2> QED
    BY <1>3, <2>1, OccType DEF Occ
<1> QED
  BY <1>2, <1>3

\* The list without its last lock, as ix_mutex_unlock() leaves it.
Front(s) == SubSeq(s, 1, Len(s) - 1)

LEMMA FrontProperties ==
  ASSUME NEW s \in Seq(Mutexes), s # <<>>
  PROVE  /\ Front(s) \in Seq(Mutexes) /\ Len(Front(s)) = Len(s) - 1
         /\ Len(s) \in Nat \ {0}
         /\ \A i \in 1 .. Len(s) - 1 : Front(s)[i] = s[i]
         /\ s[Len(s)] \in Mutexes
         /\ Front(s) = <<>> <=> Len(s) = 1
<1>1. Len(s) \in Nat \ {0}
  BY EmptySeq, LenProperties
<1>2. /\ Front(s) \in Seq(Mutexes) /\ Len(Front(s)) = Len(s) - 1
      /\ \A i \in 1 .. Len(s) - 1 : Front(s)[i] = s[i]
  <2> DEFINE n == Len(s) - 1
  <2>1. n \in Nat /\ \A i \in 1 .. n : s[i] \in Mutexes
    BY <1>1, ElementOfSeq, LenProperties
  <2>2. Front(s) = SubSeq(s, 1, n)
    BY DEF Front
  <2> HIDE DEF n
  <2>3. /\ SubSeq(s, 1, n) \in Seq(Mutexes)
        /\ Len(SubSeq(s, 1, n)) = IF 1 <= n THEN n - 1 + 1 ELSE 0
        /\ \A i \in 1 .. n - 1 + 1 : SubSeq(s, 1, n)[i] = s[1 + i - 1]
    BY <2>1, SubSeqProperties
  <2>4. Len(SubSeq(s, 1, n)) = n /\ \A i \in 1 .. n : SubSeq(s, 1, n)[i] = s[i]
    BY <2>1, <2>3
  <2> QED
    BY <2>2, <2>3, <2>4 DEF n
<1>3. s[Len(s)] \in Mutexes
  BY <1>1, ElementOfSeq, LenProperties
<1>4. Front(s) = <<>> <=> Len(s) = 1
  BY <1>1, <1>2, EmptySeq, LenProperties
<1> QED
  BY <1>1, <1>2, <1>3, <1>4

\* One place of the last mutex goes.
LEMMA OccFront ==
  ASSUME NEW s \in Seq(Mutexes), s # <<>>, NEW m
  PROVE  Occ(Front(s), m) = Occ(s, m) - IF s[Len(s)] = m THEN 1 ELSE 0
<1>1. /\ DOMAIN s = 1 .. Len(s) /\ DOMAIN Front(s) = 1 .. Len(s) - 1
      /\ Len(s) \in Nat \ {0} /\ \A i \in 1 .. Len(s) - 1 : Front(s)[i] = s[i]
  BY FrontProperties, LenProperties
<1>2. CASE s[Len(s)] = m
  <2>1. Places(Front(s), m) = Places(s, m) \ {Len(s)} /\ Len(s) \in Places(s, m)
    BY <1>1, <1>2 DEF Places
  <2> QED
    BY ZenonT(30), <1>2, <2>1, OccType, FS_RemoveElement DEF Occ
<1>3. CASE s[Len(s)] # m
  <2>1. Places(Front(s), m) = Places(s, m)
    BY <1>1, <1>3 DEF Places
  <2>2. Occ(s, m) \in Nat
    BY OccType
  <2> QED
    BY <1>3, <2>1, <2>2 DEF Occ
<1> QED
  BY <1>2, <1>3

-----------------------------------------------------------------------------
(* The inductive invariant.                                                    *)

Labels == {"run", "lock", "attempt", "lockInit", "attemptInit", "lockObtain",
           "attemptObtain", "unmask"}

TypeOK ==
  /\ initialized \in [Mutexes -> BOOLEAN] /\ oldmask \in [Mutexes -> {Own, All}]
  /\ ss_Owner \in [Mutexes -> Tasks \cup {Nil}] /\ ss_NestCount \in [Mutexes -> Nat]
  /\ p_sigmask \in [Tasks -> {Own, All}] /\ old \in [Tasks -> {Own, All}]
  /\ pc \in [Tasks -> Labels] /\ arg \in [Tasks -> Mutexes \cup {Nil}]
  /\ held \in [Tasks -> Seq(Mutexes)]
  /\ \A t \in Tasks : pc[t] \notin {"run", "unmask"} => arg[t] \in Mutexes

\* ss_NestCount is how often the owner has the mutex; nobody else has it.
OwnerHasIt ==
  \A m \in Mutexes :
    /\ \A t \in Tasks : Occ(held[t], m) = IF ss_Owner[m] = t THEN ss_NestCount[m] ELSE 0
    /\ ss_Owner[m] = Nil <=> ss_NestCount[m] = 0

\* Nobody has a mutex that is not set up, or is about to set up one that is.
SetUpBefore ==
  /\ \A m \in Mutexes : ~initialized[m] => ss_Owner[m] = Nil /\ m \in Fresh
  /\ \A t \in Tasks :
       /\ pc[t] \in {"lockInit", "attemptInit"} => ~initialized[arg[t]]
       /\ pc[t] \in {"lock", "attempt", "lockObtain", "attemptObtain"} => initialized[arg[t]]

\* What p_sigmask is outside of a call.
MaskOf(t) == IF held[t] = <<>> THEN Own ELSE All

\* The outermost lock of a task has saved its own mask, every other one the full
\* one.
OutermostSaves ==
  \A t \in Tasks : \A i \in DOMAIN held[t] :
    oldmask[held[t][i]] = IF held[t][i] = held[t][1] THEN Own ELSE All

\* During a call old is the mask that the task has outside of it.
MaskIsSaved ==
  \A t \in Tasks :
    /\ pc[t] \in {"run", "lock", "attempt", "lockInit", "attemptInit"} => p_sigmask[t] = MaskOf(t)
    /\ pc[t] # "run" => old[t] = MaskOf(t)
    /\ pc[t] \in {"lockObtain", "attemptObtain"} => p_sigmask[t] = All

IInv == TypeOK /\ OwnerHasIt /\ SetUpBefore /\ OutermostSaves /\ MaskIsSaved

\* Enter touches neither the semaphores nor what is held.
LEMMA EnterKeeps ==
  ASSUME IInv, NEW t \in Tasks, NEW m \in Mutexes, NEW next \in {"lock", "attempt"},
         Enter(t, m, next)
  PROVE  IInv'
<1> USE DEF IInv, Enter, Goto, semVars
<1>1. TypeOK'
  BY DEF TypeOK, Labels, InitOf
<1>2. OwnerHasIt' /\ OutermostSaves'
  BY DEF OwnerHasIt, OutermostSaves
<1>3. SetUpBefore'
  BY DEF SetUpBefore, TypeOK, InitOf
<1>4. MaskIsSaved'
  BY DEF MaskIsSaved, MaskOf, TypeOK, InitOf
<1> QED
  BY <1>1, <1>2, <1>3, <1>4

\* InitSemaphore frees a semaphore that nobody has, since nobody else can have
\* set it up in the meantime.
LEMMA InitSemaphoreKeeps ==
  ASSUME OneAtFirstUse, IInv, NEW t \in Tasks, NEW next \in {"lock", "attempt"},
         InitSemaphore(t, next)
  PROVE  IInv'
<1> USE DEF IInv, InitSemaphore, Goto
<1>1. arg[t] \in Mutexes /\ ~initialized[arg[t]] /\ arg[t] \in Fresh /\ pc[t] \in {"lockInit", "attemptInit"}
  BY ZenonT(30) DEF TypeOK, SetUpBefore, InitOf
<1>2. ss_Owner[arg[t]] = Nil /\ ss_NestCount[arg[t]] = 0
  BY <1>1 DEF SetUpBefore, OwnerHasIt
<1>3. ss_Owner' = ss_Owner /\ ss_NestCount' = ss_NestCount
  BY <1>1, <1>2 DEF TypeOK
<1>4. \A s \in Tasks : s = t
  BY <1>1 DEF OneAtFirstUse
<1>5. TypeOK'
  BY <1>1, <1>3 DEF TypeOK, Labels
<1>6. OwnerHasIt' /\ OutermostSaves'
  BY <1>3 DEF OwnerHasIt, OutermostSaves
<1>7. SetUpBefore'
  BY <1>1, <1>3, <1>4 DEF SetUpBefore, TypeOK
<1>8. MaskIsSaved'
  BY <1>1 DEF MaskIsSaved, MaskOf, TypeOK
<1> QED
  BY <1>5, <1>6, <1>7, <1>8

\* Mask: the full mask replaces the one that old has.
LEMMA MaskKeeps ==
  ASSUME IInv, NEW t \in Tasks, NEW next \in {"lock", "attempt"}, Mask(t, next)
  PROVE  IInv'
<1> USE DEF IInv, Mask, Goto, semVars
<1>1. TypeOK'
  BY DEF TypeOK, Labels, ObtainOf
<1>2. OwnerHasIt' /\ OutermostSaves'
  BY DEF OwnerHasIt, OutermostSaves
<1>3. SetUpBefore'
  BY DEF SetUpBefore, TypeOK, ObtainOf
<1>4. MaskIsSaved'
  BY DEF MaskIsSaved, MaskOf, TypeOK, ObtainOf
<1> QED
  BY <1>1, <1>2, <1>3, <1>4

\* AttemptFails and Unmask give the mask back that old has.
LEMMA RestoreKeeps ==
  ASSUME IInv, NEW t \in Tasks, AttemptFails(t) \/ Unmask(t)
  PROVE  IInv'
<1> USE DEF IInv, AttemptFails, Unmask, Finish, Goto, semVars
<1>1. TypeOK'
  BY ZenonT(30) DEF TypeOK, Labels
<1>2. OwnerHasIt' /\ OutermostSaves'
  BY DEF OwnerHasIt, OutermostSaves
<1>3. SetUpBefore'
  <2>1. \A s \in Tasks \ {t} : pc'[s] = pc[s] /\ arg'[s] = arg[s]
    BY DEF TypeOK
  <2>2. pc'[t] = "run" /\ ss_Owner' = ss_Owner /\ initialized' = initialized
    BY DEF TypeOK
  <2> QED
    BY <2>1, <2>2 DEF SetUpBefore
<1>4. MaskIsSaved'
  BY ZenonT(30) DEF MaskIsSaved, MaskOf, TypeOK
<1> QED
  BY <1>1, <1>2, <1>3, <1>4

\* Obtain: the semaphore counts one more, and the mask is saved if it was free.
LEMMA ObtainKeeps ==
  ASSUME Nil \notin Tasks, IInv, NEW t \in Tasks, Obtain(t)
  PROVE  IInv'
<1> DEFINE m == arg[t]
<1>1. /\ m \in Mutexes /\ pc[t] \in {"lockObtain", "attemptObtain"}
      /\ ss_Owner[m] \in {Nil, t} /\ held[t] \in Seq(Mutexes)
  BY ZenonT(30) DEF IInv, TypeOK, Obtain, Available
<1>2. /\ ss_Owner' = [ss_Owner EXCEPT ![m] = t]
      /\ ss_NestCount' = [ss_NestCount EXCEPT ![m] = @ + 1]
      /\ held' = [held EXCEPT ![t] = Append(held[t], m)]
      /\ oldmask' = IF ss_NestCount[m] = 0 THEN [oldmask EXCEPT ![m] = old[t]] ELSE oldmask
      /\ pc' = [pc EXCEPT ![t] = "run"]
      /\ arg' = [arg EXCEPT ![t] = Nil] /\ old' = [old EXCEPT ![t] = Own]
      /\ initialized' = initialized /\ p_sigmask' = p_sigmask
  BY DEF Obtain, SaveMask, Finish, Goto
<1>3. Append(held[t], m) \in Seq(Mutexes)
  BY <1>1, AppendProperties
<1> HIDE DEF m
<1>4. TypeOK'
  BY <1>1, <1>2, <1>3 DEF IInv, TypeOK, Labels
<1>5. OwnerHasIt'
  <2> SUFFICES ASSUME NEW n \in Mutexes
               PROVE  /\ \A s \in Tasks : Occ(held'[s], n) = IF ss_Owner'[n] = s THEN ss_NestCount'[n] ELSE 0
                      /\ ss_Owner'[n] = Nil <=> ss_NestCount'[n] = 0
    BY DEF OwnerHasIt
  <2>1. CASE n = m
    <3>1. ss_Owner'[n] = t /\ ss_NestCount'[n] = ss_NestCount[n] + 1 /\ ss_NestCount[n] \in Nat
      BY <1>1, <1>2, <2>1 DEF IInv, TypeOK
    <3>2. Occ(held'[t], n) = Occ(held[t], n) + 1
      BY <1>1, <1>2, <2>1, OccAppend DEF IInv, TypeOK
    <3>3. Occ(held[t], n) = ss_NestCount[n]
      BY <1>1, <2>1 DEF IInv, OwnerHasIt
    <3>4. \A s \in Tasks \ {t} : Occ(held'[s], n) = 0
      BY <1>1, <1>2, <2>1 DEF IInv, TypeOK, OwnerHasIt
    <3> QED
      BY <3>1, <3>2, <3>3, <3>4
  <2>2. CASE n # m
    <3>1. ss_Owner'[n] = ss_Owner[n] /\ ss_NestCount'[n] = ss_NestCount[n]
      BY <1>1, <1>2, <2>2 DEF IInv, TypeOK
    <3>2. Occ(held'[t], n) = Occ(held[t], n)
      <4>1. Occ(held[t], n) \in Nat
        BY <1>1, OccType
      <4> QED
        BY <1>1, <1>2, <2>2, <4>1, OccAppend DEF IInv, TypeOK
    <3>3. \A s \in Tasks \ {t} : held'[s] = held[s]
      BY <1>2 DEF IInv, TypeOK
    <3> QED
      BY <3>1, <3>2, <3>3 DEF IInv, OwnerHasIt
  <2> QED
    BY <2>1, <2>2
<1>6. SetUpBefore'
  BY <1>1, <1>2 DEF IInv, SetUpBefore, TypeOK, m
<1>7. Append(held[t], m) # <<>>
  BY <1>1, AppendProperties, EmptySeq
<1>8. MaskIsSaved'
  BY <1>1, <1>2, <1>7 DEF IInv, MaskIsSaved, MaskOf, TypeOK
<1>9. OutermostSaves'
  <2> SUFFICES ASSUME NEW s \in Tasks, NEW i \in DOMAIN held'[s]
               PROVE  oldmask'[held'[s][i]] = IF held'[s][i] = held'[s][1] THEN Own ELSE All
    BY DEF OutermostSaves
  <2>1. \A r \in Tasks : \A j \in DOMAIN held[r] : held[r][j] = m => ss_NestCount[m] # 0
    <3> SUFFICES ASSUME NEW r \in Tasks, NEW j \in DOMAIN held[r], held[r][j] = m
                 PROVE  ss_NestCount[m] # 0
      OBVIOUS
    <3>1. held[r] \in Seq(Mutexes) /\ j \in Places(held[r], m)
      BY DEF IInv, TypeOK, Places
    <3>2. Occ(held[r], m) # 0
      BY <3>1, OccType
    <3> QED
      BY <1>1, <3>2 DEF IInv, OwnerHasIt
  <2>2. \A r \in Tasks : \A j \in DOMAIN held[r] : oldmask'[held[r][j]] = oldmask[held[r][j]]
    <3> SUFFICES ASSUME NEW r \in Tasks, NEW j \in DOMAIN held[r]
                 PROVE  oldmask'[held[r][j]] = oldmask[held[r][j]]
      OBVIOUS
    <3>1. held[r][j] \in Mutexes
      BY ElementOfSeq, LenProperties DEF IInv, TypeOK
    <3> QED
      BY <1>1, <1>2, <2>1, <3>1 DEF IInv, TypeOK
  <2>3. CASE s # t
    BY <1>2, <2>2, <2>3 DEF IInv, TypeOK, OutermostSaves
  <2>4. CASE s = t
    <3> DEFINE h == held[t]
    <3>1. held'[s] = Append(h, m)
      BY <1>2, <2>4 DEF IInv, TypeOK
    <3>2. /\ DOMAIN Append(h, m) = DOMAIN h \cup {Len(h) + 1} /\ DOMAIN h = 1 .. Len(h) /\ Len(h) \in Nat
          /\ \A j \in DOMAIN h : Append(h, m)[j] = h[j]
          /\ Append(h, m)[Len(h) + 1] = m
      BY <1>1, AppendProperties, LenProperties
    <3>3. old[t] = MaskOf(t)
      BY <1>1 DEF IInv, MaskIsSaved
    <3>4. CASE h = <<>>
      <4>1. Len(h) = 0 /\ i = 1 /\ held'[s][i] = m /\ held'[s][1] = m
        BY <3>1, <3>2, <3>4
      <4>2. ss_NestCount[m] = 0
        <5>1. Places(h, m) = {}
          BY <3>2, <4>1 DEF Places
        <5>2. Occ(h, m) = 0
          BY <1>1, <5>1, OccType
        <5> QED
          BY <1>1, <5>2 DEF IInv, OwnerHasIt
      <4>3. oldmask'[m] = Own
        BY <1>1, <1>2, <3>3, <3>4, <4>2 DEF IInv, TypeOK, MaskOf
      <4> QED
        BY <4>1, <4>3
    <3>5. CASE h # <<>>
      <4>1. 1 \in DOMAIN h /\ held'[s][1] = h[1]
        BY <1>1, <3>1, <3>2, <3>5, EmptySeq
      <4>2. CASE i \in DOMAIN h
        BY <2>2, <3>1, <3>2, <4>1, <4>2 DEF IInv, OutermostSaves
      <4>3. CASE i = Len(h) + 1
        <5>1. held'[s][i] = m
          BY <3>1, <3>2, <4>3
        <5>2. CASE ss_NestCount[m] = 0
          <6>1. h[1] # m
            BY <2>1, <4>1, <5>2
          <6>2. oldmask'[m] = All
            BY <1>1, <1>2, <3>3, <3>5, <5>2 DEF IInv, TypeOK, MaskOf
          <6> QED
            BY <4>1, <5>1, <6>1, <6>2
        <5>3. CASE ss_NestCount[m] # 0
          <6>1. Places(h, m) # {}
            BY <1>1, <5>3, OccType DEF IInv, OwnerHasIt
          <6>2. PICK j \in DOMAIN h : h[j] = m
            BY <6>1 DEF Places
          <6>3. oldmask'[m] = IF m = h[1] THEN Own ELSE All
            BY <2>2, <6>2 DEF IInv, OutermostSaves
          <6> QED
            BY <4>1, <5>1, <6>3
        <5> QED
          BY <5>2, <5>3
      <4> QED
        BY <3>1, <3>2, <4>2, <4>3
    <3> QED
      BY <3>4, <3>5
  <2> QED
    BY <2>3, <2>4
<1> QED
  BY <1>4, <1>5, <1>6, <1>8, <1>9 DEF IInv

\* ix_mutex_unlock: the mask that the lock saved is the one that fits what is
\* still held.
LEMMA UnlockKeeps ==
  ASSUME Nil \notin Tasks, IInv, NEW t \in Tasks, ix_mutex_unlock(t)
  PROVE  IInv'
<1> DEFINE h == held[t]
           m == h[Len(h)]
<1>1. h \in Seq(Mutexes) /\ h # <<>> /\ pc[t] = "run"
  BY DEF IInv, TypeOK, ix_mutex_unlock
<1>2. /\ Front(h) \in Seq(Mutexes) /\ Len(Front(h)) = Len(h) - 1 /\ Len(h) \in Nat \ {0}
      /\ \A i \in 1 .. Len(h) - 1 : Front(h)[i] = h[i]
      /\ m \in Mutexes
      /\ Front(h) = <<>> <=> Len(h) = 1
  BY ZenonT(30), <1>1, FrontProperties
<1>3. DOMAIN h = 1 .. Len(h) /\ DOMAIN Front(h) = 1 .. Len(h) - 1
  BY <1>1, <1>2, LenProperties
<1>4. Occ(h, m) \in Nat /\ Occ(h, m) # 0
  <2>1. Len(h) \in Places(h, m)
    BY <1>2, <1>3 DEF Places
  <2> QED
    BY <1>1, <2>1, OccType
<1>5. ss_Owner[m] = t /\ ss_NestCount[m] = Occ(h, m)
  BY <1>2, <1>4 DEF IInv, OwnerHasIt
<1>6. /\ old' = [old EXCEPT ![t] = IF ss_NestCount[m] = 1 THEN oldmask[m] ELSE p_sigmask[t]]
      /\ ss_NestCount' = [ss_NestCount EXCEPT ![m] = @ - 1]
      /\ ss_Owner' = [ss_Owner EXCEPT ![m] = IF ss_NestCount[m] = 1 THEN Nil ELSE @]
      /\ held' = [held EXCEPT ![t] = Front(h)]
      /\ pc' = [pc EXCEPT ![t] = "unmask"]
      /\ initialized' = initialized /\ oldmask' = oldmask
      /\ p_sigmask' = p_sigmask /\ arg' = arg
  BY <1>4, <1>5 DEF ix_mutex_unlock, Goto, Front
<1> HIDE DEF m
<1>7. TypeOK'
  BY <1>2, <1>4, <1>5, <1>6 DEF IInv, TypeOK, Labels
<1>8. OwnerHasIt'
  <2> SUFFICES ASSUME NEW n \in Mutexes
               PROVE  /\ \A s \in Tasks : Occ(held'[s], n) = IF ss_Owner'[n] = s THEN ss_NestCount'[n] ELSE 0
                      /\ ss_Owner'[n] = Nil <=> ss_NestCount'[n] = 0
    BY DEF OwnerHasIt
  <2>1. \A s \in Tasks \ {t} : held'[s] = held[s]
    BY <1>6 DEF IInv, TypeOK
  <2>2. held'[t] = Front(h)
    BY <1>6 DEF IInv, TypeOK
  <2>3. CASE n = m
    <3>1. ss_NestCount'[n] = Occ(h, m) - 1 /\ ss_Owner'[n] = IF Occ(h, m) = 1 THEN Nil ELSE t
      BY <1>2, <1>5, <1>6, <2>3 DEF IInv, TypeOK
    <3>2. Occ(held'[t], n) = Occ(h, m) - 1
      BY <1>1, <2>2, <2>3, OccFront DEF m
    <3>3. \A s \in Tasks \ {t} : Occ(held'[s], n) = 0
      BY <1>2, <1>5, <2>1, <2>3 DEF IInv, OwnerHasIt
    <3> QED
      BY <1>4, <3>1, <3>2, <3>3
  <2>4. CASE n # m
    <3>1. ss_NestCount'[n] = ss_NestCount[n] /\ ss_Owner'[n] = ss_Owner[n]
      BY <1>2, <1>6, <2>4 DEF IInv, TypeOK
    <3>2. Occ(held'[t], n) = Occ(h, n)
      <4>1. Occ(h, n) \in Nat
        BY <1>1, OccType
      <4> QED
        BY <1>1, <2>2, <2>4, <4>1, OccFront DEF m
    <3> QED
      BY <2>1, <3>1, <3>2 DEF IInv, OwnerHasIt
  <2> QED
    BY <2>3, <2>4
<1>9. SetUpBefore'
  <2>1. \A s \in Tasks \ {t} : pc'[s] = pc[s]
    BY <1>6 DEF IInv, TypeOK
  <2>2. pc'[t] = "unmask"
    BY <1>6 DEF IInv, TypeOK
  <2>3. \A n \in Mutexes : ss_Owner[n] = Nil => ss_Owner'[n] = Nil
    BY <1>6 DEF IInv, TypeOK
  <2> QED
    BY <1>6, <2>1, <2>2, <2>3 DEF IInv, SetUpBefore
<1>10. OutermostSaves'
  <2> SUFFICES ASSUME NEW s \in Tasks, NEW i \in DOMAIN held'[s]
               PROVE  oldmask[held'[s][i]] = IF held'[s][i] = held'[s][1] THEN Own ELSE All
    BY <1>6 DEF OutermostSaves
  <2>1. CASE s # t
    BY <1>6, <2>1 DEF IInv, TypeOK, OutermostSaves
  <2>2. CASE s = t
    <3>1. held'[s] = Front(h) /\ i \in 1 .. Len(h) - 1
      BY <1>3, <1>6, <2>2 DEF IInv, TypeOK
    <3>2. Front(h)[i] = h[i] /\ Front(h)[1] = h[1] /\ i \in DOMAIN h
      BY <1>2, <1>3, <3>1
    <3> QED
      BY <3>1, <3>2 DEF IInv, OutermostSaves
  <2> QED
    BY <2>1, <2>2
<1>11. old'[t] = IF Front(h) = <<>> THEN Own ELSE All
  <2>1. old'[t] = IF Occ(h, m) = 1 THEN oldmask[m] ELSE p_sigmask[t]
    BY <1>5, <1>6 DEF IInv, TypeOK
  <2>2. p_sigmask[t] = All
    BY <1>1 DEF IInv, MaskIsSaved, MaskOf
  <2>3. oldmask[m] = IF m = h[1] THEN Own ELSE All
    BY <1>2, <1>3 DEF IInv, OutermostSaves, m
  <2>4. Len(h) # 1 /\ m = h[1] => Occ(h, m) > 1
    BY <1>1, <1>2, <1>3, OccTwice DEF m
  <2>5. Len(h) = 1 => m = h[1]
    BY DEF m
  <2>6. Occ(h, m) # 1 => Len(h) # 1
    <3> SUFFICES ASSUME Len(h) = 1 PROVE Occ(h, m) = 1
      OBVIOUS
    <3>1. Places(h, m) = {1}
      BY <1>2, <1>3 DEF Places, m
    <3> QED
      BY ZenonT(30), <3>1, FS_Singleton DEF Occ
  <2> QED
    BY <1>2, <2>1, <2>2, <2>3, <2>4, <2>5, <2>6
<1>12. MaskIsSaved'
  <2>1. \A s \in Tasks \ {t} : pc'[s] = pc[s] /\ held'[s] = held[s] /\ old'[s] = old[s]
    BY <1>6 DEF IInv, TypeOK
  <2>2. pc'[t] = "unmask" /\ held'[t] = Front(h)
    BY <1>6 DEF IInv, TypeOK
  <2> QED
    BY <1>6, <1>11, <2>1, <2>2 DEF IInv, MaskIsSaved, MaskOf
<1> QED
  BY <1>7, <1>8, <1>9, <1>10, <1>12 DEF IInv

\* IInv is true at first, where nobody has a mutex.
LEMMA InitIInv == Init => IInv
<1> SUFFICES ASSUME Init PROVE IInv
  OBVIOUS
<1>1. TypeOK
  BY EmptySeq DEF Init, TypeOK, Labels, Own, All
<1>2. OwnerHasIt
  <2>1. \A m \in Mutexes : Places(<<>>, m) = {}
    BY DEF Places
  <2>2. \A m \in Mutexes : Occ(<<>>, m) = 0
    BY <2>1, FS_EmptySet DEF Occ
  <2> QED
    BY <2>2 DEF Init, OwnerHasIt
<1>3. SetUpBefore /\ MaskIsSaved
  BY ZenonT(30) DEF Init, SetUpBefore, MaskIsSaved, MaskOf
<1>4. OutermostSaves
  <2>1. \A t \in Tasks : DOMAIN held[t] = {}
    BY DEF Init
  <2> QED
    BY <2>1 DEF OutermostSaves
<1> QED
  BY <1>1, <1>2, <1>3, <1>4 DEF IInv

\* Every step keeps IInv.
LEMMA NextIInv ==
  ASSUME Nil \notin Tasks, OneAtFirstUse, IInv, [Next]_vars
  PROVE  IInv'
<1>1. CASE UNCHANGED vars
  BY <1>1 DEF vars, semVars, IInv, TypeOK, OwnerHasIt, SetUpBefore, OutermostSaves,
              MaskIsSaved, MaskOf
<1>2. ASSUME NEW t \in Tasks, NEW m \in Mutexes, ix_mutex_lock(t, m) \/ ix_mutex_attempt_lock(t, m)
      PROVE  IInv'
  BY <1>2, EnterKeeps DEF ix_mutex_lock, ix_mutex_attempt_lock
<1>3. ASSUME NEW t \in Tasks, ix_mutex_unlock(t) PROVE IInv'
  BY <1>3, UnlockKeeps
<1>4. ASSUME NEW t \in Tasks, Step(t) PROVE IInv'
  BY <1>4, InitSemaphoreKeeps, MaskKeeps, ObtainKeeps, RestoreKeeps DEF Step
<1> QED
  BY <1>1, <1>2, <1>3, <1>4 DEF Next

\* Mutual exclusion and the masks follow.
LEMMA IInvImplies ==
  ASSUME Nil \notin Tasks, IInv
  PROVE  MutualExclusion /\ MaskFollowsLock
<1>1. \A t \in Tasks, m \in Mutexes : Depth(t, m) = Occ(held[t], m)
  BY DEF Depth, Occ, Places
<1>2. MutualExclusion
  BY <1>1 DEF MutualExclusion, IInv, OwnerHasIt
<1> QED
  BY <1>2 DEF IInv, MaskIsSaved, MaskOf, MaskFollowsLock

\* ix_mutex_lock() and ix_mutex_attempt_lock() exclude: no two tasks ever hold a
\* mutex at the same time, however they nest their locks.
THEOREM MutualExclusionHolds ==
  ASSUME Nil \notin Tasks, OneAtFirstUse
  PROVE  Spec => []MutualExclusion
<1>1. IInv /\ [Next]_vars => IInv'
  BY NextIInv
<1>2. IInv => MutualExclusion
  BY IInvImplies
<1> QED
  BY InitIInv, <1>1, <1>2, PTL DEF Spec

\* A task that holds a mutex has all its signals blocked, and when
\* ix_mutex_unlock() has released the last one the task has its own mask back,
\* in whatever order the mutexes are nested.
THEOREM MaskFollowsLockHolds ==
  ASSUME Nil \notin Tasks, OneAtFirstUse
  PROVE  Spec => []MaskFollowsLock
<1>1. IInv /\ [Next]_vars => IInv'
  BY NextIInv
<1>2. IInv => MaskFollowsLock
  BY IInvImplies
<1> QED
  BY InitIInv, <1>1, <1>2, PTL DEF Spec
=============================================================================
