------------------------------- MODULE SysvShm ------------------------------
(* System V shared memory, library/shm.c: shmget(), shmat(), shmdt(), shmctl() *)
(* under ix_lock_base(), shmfork() in the launcher of a child, and shmexit(),  *)
(* which ix_close() calls without the semaphore. Permissions are left out: a   *)
(* call they refuse changes nothing.                                           *)
EXTENDS Integers, Sequences, FiniteSets

CONSTANTS
  Procs, Root,
  Segs,          \* segments that kmalloc() can provide
  Keys, Private, \* keys, IPC_PRIVATE among them
  MaxAttach,     \* bound on the attachments of a process
  Calls,         \* SUBSET CallKinds: the calls programs make
  DetachOwn      \* whether programs only detach what they have attached

CallKinds == {"shmget", "shmat", "shmdt", "rmid", "fork", "exit"}

VARIABLES
  shmlist,         \* the segments in the list
  key, nattch, removed,  \* shm_perm.key, shm_nattch, SHMSEG_REMOVED
  made,            \* segments that shmget() has allocated
  frees,           \* history: how often a segment was deallocated
  u_shmarray,      \* the attachments of each process
  pc               \* "unused", "run", "exit", "test" (inside shmexit()), "gone"

segVars == <<shmlist, key, nattch, removed, made, frees>>
vars == <<segVars, u_shmarray, pc>>

Range(s) == {s[i] : i \in DOMAIN s}

Init ==
  /\ shmlist = {} /\ made = {}
  /\ key = [s \in Segs |-> Private] /\ nattch = [s \in Segs |-> 0]
  /\ removed = [s \in Segs |-> FALSE] /\ frees = [s \in Segs |-> 0]
  /\ u_shmarray = [p \in Procs |-> <<>>]
  /\ pc = [p \in Procs |-> IF p = Root THEN "run" ELSE "unused"]

Calling(p, call) == pc[p] = "run" /\ call \in Calls

\* shmget() of a key that is not there, with IPC_CREAT, or of IPC_PRIVATE.
shmget(p, k) ==
  /\ Calling(p, "shmget")
  /\ k = Private \/ \A s \in shmlist : key[s] # k
  /\ \E s \in Segs \ made :
       /\ made' = made \cup {s}
       /\ shmlist' = shmlist \cup {s}
       /\ key' = [key EXCEPT ![s] = k]
  /\ UNCHANGED <<nattch, removed, frees, u_shmarray, pc>>

shmat(p, s) ==
  /\ Calling(p, "shmat") /\ s \in shmlist /\ Len(u_shmarray[p]) < MaxAttach
  /\ nattch' = [nattch EXCEPT ![s] = @ + 1]
  /\ u_shmarray' = [u_shmarray EXCEPT ![p] = Append(@, s)]
  /\ UNCHANGED <<shmlist, key, removed, made, frees, pc>>

\* shm_deallocate_segment(), when c holds.
DeallocateIf(s, c) ==
  /\ shmlist' = IF c THEN shmlist \ {s} ELSE shmlist
  /\ frees' = IF c THEN [frees EXCEPT ![s] = @ + 1] ELSE frees

\* The first attachment of the segment leaves the array.
RemoveFirst(q, s) ==
  LET i == CHOOSE i \in DOMAIN q : q[i] = s /\ \A j \in 1 .. i - 1 : q[j] # s IN
  SubSeq(q, 1, i - 1) \o SubSeq(q, i + 1, Len(q))

\* A faulty shmdt: the segment goes although others have it.
shmdtEager(p, s) ==
  /\ Calling(p, "shmdt") /\ s \in shmlist
  /\ DetachOwn => s \in Range(u_shmarray[p])
  /\ u_shmarray' = IF s \in Range(u_shmarray[p])
                   THEN [u_shmarray EXCEPT ![p] = RemoveFirst(@, s)] ELSE u_shmarray
  /\ nattch' = [nattch EXCEPT ![s] = @ - 1]
  /\ DeallocateIf(s, removed[s])
  /\ UNCHANGED <<key, removed, made, pc>>

\* shmdt(): also a caller that has no attachment lowers the count.
shmdt(p, s) ==
  /\ Calling(p, "shmdt") /\ s \in shmlist
  /\ DetachOwn => s \in Range(u_shmarray[p])
  /\ u_shmarray' = IF s \in Range(u_shmarray[p])
                   THEN [u_shmarray EXCEPT ![p] = RemoveFirst(@, s)] ELSE u_shmarray
  /\ nattch' = [nattch EXCEPT ![s] = @ - 1]
  /\ DeallocateIf(s, nattch[s] <= 1 /\ removed[s])
  /\ UNCHANGED <<key, removed, made, pc>>

\* shmctl() with IPC_RMID.
rmid(p, s) ==
  /\ Calling(p, "rmid") /\ s \in shmlist
  /\ key' = [key EXCEPT ![s] = Private]
  /\ removed' = [removed EXCEPT ![s] = TRUE]
  /\ DeallocateIf(s, nattch[s] <= 0)
  /\ UNCHANGED <<nattch, made, u_shmarray, pc>>

\* shmfork() for a new child.
shmfork(p, c) ==
  /\ Calling(p, "fork") /\ pc[c] = "unused"
  /\ u_shmarray' = [u_shmarray EXCEPT ![c] = u_shmarray[p]]
  /\ nattch' = [s \in Segs |-> nattch[s]
                  + Cardinality({i \in DOMAIN u_shmarray[p] : u_shmarray[p][i] = s})]
  /\ pc' = [pc EXCEPT ![c] = "run"]
  /\ UNCHANGED <<shmlist, key, removed, made, frees>>

exit(p) ==
  /\ Calling(p, "exit")
  /\ pc' = [pc EXCEPT ![p] = "exit"]
  /\ UNCHANGED <<segVars, u_shmarray>>

\* shmexit(): shm_delete_mapping() of the next attachment lowers the count ...
shmexitCount(p) ==
  /\ pc[p] = "exit" /\ u_shmarray[p] # <<>>
  /\ nattch' = [nattch EXCEPT ![Head(u_shmarray[p])] = @ - 1]
  /\ pc' = [pc EXCEPT ![p] = "test"]
  /\ UNCHANGED <<shmlist, key, removed, made, frees, u_shmarray>>

\* ... and then looks whether the segment is to go.
shmexitTest(p) ==
  LET s == Head(u_shmarray[p]) IN
  /\ pc[p] = "test"
  /\ DeallocateIf(s, nattch[s] <= 0 /\ removed[s])
  /\ u_shmarray' = [u_shmarray EXCEPT ![p] = Tail(@)]
  /\ pc' = [pc EXCEPT ![p] = "exit"]
  /\ UNCHANGED <<key, nattch, removed, made>>

shmexitEnd(p) ==
  /\ pc[p] = "exit" /\ u_shmarray[p] = <<>>
  /\ pc' = [pc EXCEPT ![p] = "gone"]
  /\ UNCHANGED <<segVars, u_shmarray>>

Next ==
  \E p \in Procs :
    \/ \E k \in Keys : shmget(p, k)
    \/ \E s \in Segs : shmat(p, s) \/ shmdt(p, s) \/ rmid(p, s)
    \/ \E c \in Procs : shmfork(p, c)
    \/ exit(p) \/ shmexitCount(p) \/ shmexitTest(p) \/ shmexitEnd(p)

Spec == Init /\ [][Next]_vars

-----------------------------------------------------------------------------
(* Properties.                                                                 *)

\* The attachments of a segment, without the one shmexit() has just taken off.
Attachments(s) ==
  Cardinality({<<p, i>> \in Procs \X (1 .. MaxAttach) :
                 /\ i \in DOMAIN u_shmarray[p] /\ u_shmarray[p][i] = s
                 /\ ~(pc[p] = "test" /\ i = 1)})

\* shm_nattch of every segment in the list is the number of its attachments in
\* all processes, whatever forked, detached and exited.
CountIsAttachments == \A s \in shmlist : nattch[s] = Attachments(s)

\* Memory that a process has attached is not deallocated under it, also when the
\* segment was removed with IPC_RMID.
AttachedIsThere == \A p \in Procs : Range(u_shmarray[p]) \subseteq shmlist

\* A segment that was removed and is attached by nobody is deallocated, and no
\* segment is deallocated twice.
RemovedGoes ==
  /\ \A s \in shmlist : removed[s] =>
       nattch[s] > 0 \/ \E p \in Procs : pc[p] = "test" /\ Head(u_shmarray[p]) = s
  /\ \A s \in Segs : frees[s] <= 1
=============================================================================
