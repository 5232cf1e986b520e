------------------------------ MODULE SysvSem -------------------------------
(***************************************************************************)
(* System V semaphores, library/sysv_sem.c.  Every call runs under         *)
(* Forbid(), which only ix_sleep() breaks: semop() is atomic up to where   *)
(* it sleeps, and from where it wakes.                                     *)
(*                                                                         *)
(* sema is the table of sets, sem the pool of semaphores that the sets     *)
(* share (a set has the nsems semaphores from base on), undo the list      *)
(* semu_list of at most SEMMNU vectors of adjustments.                     *)
(***************************************************************************)
EXTENDS Integers, Sequences, FiniteSets, FiniteSetsExt, SequencesExt

CONSTANTS SEMMNI, SEMMNS, \* the number of sets and of semaphores
          SEMMNU, SEMUME, \* undo vectors, and entries of one
          SEQMOD,         \* 2^15 in the code: the values of seq
          Procs, Keys,
          Vectors,        \* vectors of [num, op, undo, nowait] for semop()
          Sizes,          \* numbers of semaphores asked for
          MaxVal,         \* bound: value of a semaphore
          MaxCreates,     \* bound: sets created
          MaxWaiters,     \* bound: waiters counted when one is interrupted
          Cut,            \* the identifier is cut down to its index before its
                          \* sequence number is compared, as in the code
          Flaws           \* "moved", "early", "range": see where they are tested

Sets == 0..(SEMMNI - 1)
IPC_PRIVATE == 0

VARIABLES sema, sem, semtot, undo,
          pc,        \* of each process: [at, id, ops, ptr, zero]; at is "user",
                     \* "asleep", "woken" or "gone"; ptr is the semptr that
                     \* semop() keeps while it sleeps, zero whether it waits for 0
          holder,    \* semlock_holder: 0, or a process
          born,      \* sets created so far
          owed       \* history: per semaphore of a set, its value less the
                     \* ups and downs that are to be undone

vars == <<sema, sem, semtot, undo, pc, holder, born, owed>>

NoSem == [val |-> 0, ncnt |-> 0, zcnt |-> 0]
Idle == [at |-> "user", id |-> 0, ops |-> <<>>, ptr |-> 0, zero |-> FALSE]

Init == /\ sema = [s \in Sets |-> [alloc |-> FALSE, key |-> 0, seq |-> 0,
                                   nsems |-> 0, base |-> 0]]
        /\ sem = [i \in 0..(SEMMNS - 1) |-> NoSem] /\ semtot = 0
        /\ undo = <<>> /\ holder = 0 /\ born = 0
        /\ pc = [p \in Procs |-> Idle]
        /\ owed = [s \in Sets |-> <<>>]

\* semlock(): p waits until nobody else holds the facility
MayEnter(p) == pc[p].at = "user" /\ holder \in {0, p}

\* The checks with which semctl() and semop() begin, and semop() goes on after
\* it slept: the identifier id is the pair of its halves
IPCID_TO_SEQ(id) == IF Cut THEN 0 ELSE id.seq
Accepts(id) == sema[id.ix].alloc /\ sema[id.ix].seq = IPCID_TO_SEQ(id)

\* the identifiers that semget() has returned
Ids == UNION {{[ix |-> s, seq |-> n] : n \in 1..sema[s].seq} : s \in Sets}

Woken(pcs, s) == [p \in Procs |-> IF pcs[p].at = "asleep" /\ pcs[p].id.ix = s
                                  THEN [pcs[p] EXCEPT !.at = "woken"] ELSE pcs[p]]

-----------------------------------------------------------------------------
(* Undo vectors: [proc, ent], ent a sequence of [id, num, adj] *)

\* an entry is removed by moving the last one to its place
Removed(ent, i) == IF i = Len(ent) THEN Front(ent)
                   ELSE Front([ent EXCEPT ![i] = Last(ent)])

\* semu_alloc(): <<>> when there is no room even after the empty vectors went
semu_alloc(list, p) ==
  LET kept == SelectSeq(list, LAMBDA v : v.ent # <<>>)
      from == IF Len(list) < SEMMNU THEN list ELSE kept
  IN  IF Len(from) < SEMMNU THEN <<[proc |-> p, ent |-> <<>>]>> \o from ELSE <<>>

IndexOf(list, p) == IF \E i \in DOMAIN list : list[i].proc = p
                    THEN CHOOSE i \in DOMAIN list : list[i].proc = p ELSE 0

\* semundo_adjust(): [ok, list]
semundo_adjust(list0, p, s, num, adj) ==
  LET list == IF IndexOf(list0, p) # 0 THEN list0 ELSE semu_alloc(list0, p)
      v    == IndexOf(list, p)
      ent  == list[v].ent
      at   == {i \in DOMAIN ent : ent[i].id = s /\ ent[i].num = num}
      i    == CHOOSE j \in at : TRUE
      new  == [ent EXCEPT ![i].adj = @ + adj]
      With(e) == [ok |-> TRUE, list |-> [list EXCEPT ![v].ent = e]]
      No   == [ok |-> FALSE, list |-> IF list = <<>> THEN list0 ELSE list]
  IN  IF list = <<>> THEN No
      ELSE IF at # {} THEN With(IF new[i].adj = 0 THEN Removed(ent, i) ELSE new)
      ELSE IF Len(ent) = SEMUME THEN No
      ELSE With(Append(ent, [id |-> s, num |-> num, adj |-> adj]))

\* semundo_clear(): all entries of the set (num = -1), or the entry of one
\* semaphore, which is only looked for at the first entry of the set
First(ent, s) == SelectInSeq(ent, LAMBDA e : e.id = s)
\* a mutant: the adjustments of a removed set stay
ClearedNot(ent, s, num) ==
  IF num # -1 /\ First(ent, s) # 0 /\ ent[First(ent, s)].num = num
  THEN Removed(ent, First(ent, s)) ELSE ent
Cleared(ent, s, num) ==
  IF num = -1 THEN SelectSeq(ent, LAMBDA e : e.id # s)
  ELSE IF First(ent, s) # 0 /\ ent[First(ent, s)].num = num THEN Removed(ent, First(ent, s))
  ELSE ent
semundo_clear(list, s, num) == [v \in DOMAIN list |-> [list[v] EXCEPT !.ent = Cleared(@, s, num)]]
ClearFinds(list, s, num) ==
  \A v \in DOMAIN list : \A e \in Range(list[v].ent) :
     e.id = s /\ e.num = num => list[v].ent[First(list[v].ent, s)].num = num

-----------------------------------------------------------------------------
(* semget(), semctl() *)

semget(p, key, n) ==
  LET free == {s \in Sets : ~sema[s].alloc}
      s    == Min(free)
  IN  /\ MayEnter(p)
      /\ \A t \in Sets : sema[t].alloc /\ key # IPC_PRIVATE => sema[t].key # key  \* else it is found
      /\ n <= SEMMNS - semtot /\ free # {} /\ born < MaxCreates
      /\ sema' = [sema EXCEPT ![s] = [alloc |-> TRUE, key |-> key, nsems |-> n,
                                      seq |-> (@.seq + 1) % SEQMOD, base |-> semtot]]
      /\ sem' = [i \in DOMAIN sem |-> IF i \in semtot..(semtot + n - 1) THEN NoSem ELSE sem[i]]
      /\ semtot' = semtot + n /\ born' = born + 1
      /\ owed' = [owed EXCEPT ![s] = [i \in 1..n |-> 0]]
      /\ UNCHANGED <<undo, pc, holder>>

\* IPC_RMID: the semaphores of later sets move down in the pool
semctlRmid(p, id) ==
  LET s == id.ix
      n == sema[s].nsems
      b == sema[s].base
  IN  /\ MayEnter(p) /\ Accepts(id)
      /\ "moved" \in Flaws \/ \A q \in Procs : pc[q].at \in {"asleep", "woken"} => pc[q].ptr < b + n
      /\ semtot' = semtot - n
      /\ sem' = [i \in DOMAIN sem |-> IF i \in b..(semtot - n - 1) THEN sem[i + n] ELSE sem[i]]
      /\ sema' = [t \in Sets |-> IF t = s THEN [sema[t] EXCEPT !.alloc = FALSE]
                                 ELSE IF sema[t].alloc /\ sema[t].base > b
                                 THEN [sema[t] EXCEPT !.base = @ - n] ELSE sema[t]]
      /\ undo' = semundo_clear(undo, s, -1)
      /\ pc' = Woken(pc, s)
      /\ owed' = [owed EXCEPT ![s] = <<>>]
      /\ UNCHANGED <<holder, born>>

\* SETVAL; SETALL sets every semaphore of the set
Which(nums) == IF Cardinality(nums) = 1 THEN Min(nums) ELSE -1
semctlSet(p, id, nums, v) ==
  LET s == id.ix
  IN  /\ MayEnter(p) /\ Accepts(id) /\ nums \subseteq 0..(sema[s].nsems - 1) /\ nums # {}
      /\ "early" \in Flaws \/ ClearFinds(undo, s, Which(nums))
      /\ sem' = [i \in DOMAIN sem |-> IF i - sema[s].base \in nums
                                      THEN [sem[i] EXCEPT !.val = v] ELSE sem[i]]
      /\ undo' = semundo_clear(undo, s, Which(nums))
      /\ pc' = Woken(pc, s)
      /\ owed' = [owed EXCEPT ![s] = [i \in DOMAIN @ |-> IF i - 1 \in nums THEN v ELSE @[i]]]
      /\ UNCHANGED <<sema, semtot, holder, born>>

\* SEMLCK, SEMUNLK (the ipcs utility); nobody asks who unlocks
semlock(p) == /\ MayEnter(p) /\ holder' = p
              /\ UNCHANGED <<sema, sem, semtot, undo, pc, born, owed>>
semunlock(p) == /\ pc[p].at = "user" /\ holder # 0 /\ holder' = 0
                /\ UNCHANGED <<sema, sem, semtot, undo, pc, born, owed>>

-----------------------------------------------------------------------------
(* semop() *)

\* The loop over the vector: how many of ops go through, and the values then;
\* an operation on a semaphore that is not there ends it
Apply(vals, ops) ==
  FoldLeft(LAMBDA r, o :
     IF r.stop THEN r
     ELSE IF o.num \notin DOMAIN vals THEN [r EXCEPT !.stop = TRUE]
     ELSE LET v == r.vals[o.num]
          IN  IF (o.op < 0 /\ v + o.op < 0) \/ (o.op = 0 /\ v > 0)
              THEN [r EXCEPT !.stop = TRUE]
              ELSE [r EXCEPT !.n = @ + 1, !.vals[o.num] = v + o.op],
     [stop |-> FALSE, n |-> 0, vals |-> vals], ops)

Values(s) == [i \in 0..(sema[s].nsems - 1) |-> sem[sema[s].base + i].val]
At(s, num) == sema[s].base + num
\* a mutant: who waits for 0 is not told
WakesUpOnly(pool, s, ops) ==
  \E i \in DOMAIN ops : ops[i].op > 0 /\ pool[At(s, ops[i].num)].ncnt > 0
\* a semaphore that was upped has waiters, or one that fell to 0 has
Wakes(pool, s, ops) ==
  \E i \in DOMAIN ops :
     LET v == Apply(Values(s), SubSeq(ops, 1, i)).vals[ops[i].num]
     IN  \/ ops[i].op > 0 /\ pool[At(s, ops[i].num)].ncnt > 0
         \/ ops[i].op < 0 /\ v = 0 /\ pool[At(s, ops[i].num)].zcnt > 0

\* The SEM_UNDO requests: [ok, list]; when one finds no room those before it
\* are taken back
Undos(s, ops) == SelectSeq(ops, LAMBDA o : o.undo /\ o.op # 0)
Adjusted(p, s, ops) ==
  LET U == Undos(s, ops)
      r == FoldLeft(LAMBDA t, o : IF ~t.ok THEN t
                                  ELSE LET a == semundo_adjust(t.list, p, s, o.num, -o.op)
                                       IN  [ok |-> a.ok, list |-> a.list,
                                            n |-> t.n + (IF a.ok THEN 1 ELSE 0)],
                    [ok |-> TRUE, list |-> undo, n |-> 0], U)
      back == FoldLeft(LAMBDA l, o : semundo_adjust(l, p, s, o.num, o.op).list,
                       r.list, Reverse(SubSeq(U, 1, r.n)))
  IN  IF r.ok THEN [ok |-> TRUE, list |-> r.list] ELSE [ok |-> FALSE, list |-> back]

\* ups and downs that nobody will undo
Lasting(ops, num) == FoldLeft(LAMBDA n, o : IF o.num = num /\ ~o.undo THEN n + o.op ELSE n, 0, ops)

\* One turn of the loop of semop(), with the counts of waiters in pool
Try(p, id, ops, pool) ==
  LET s    == id.ix
      r    == Apply(Values(s), ops)
      o    == ops[r.n + 1]
      ptr  == At(s, o.num)
      a    == Adjusted(p, s, ops)
      done == [i \in DOMAIN pool |-> IF i - sema[s].base \in DOMAIN r.vals
                                     THEN [pool[i] EXCEPT !.val = r.vals[i - sema[s].base]]
                                     ELSE pool[i]]
      user == [pc EXCEPT ![p] = Idle]
  IN  IF ~r.stop
      THEN IF a.ok
           THEN /\ sem' = done /\ undo' = a.list
                /\ pc' = IF Wakes(pool, s, ops) THEN Woken(user, s) ELSE user
                /\ owed' = [owed EXCEPT ![s] = [i \in DOMAIN @ |-> @[i] + Lasting(ops, i - 1)]]
           ELSE sem' = pool /\ undo' = a.list /\ pc' = user /\ UNCHANGED owed     \* ENOSPC, EINVAL
      ELSE IF o.num >= sema[s].nsems                      \* EFBIG: nothing is rolled back
      THEN /\ r.n > 0 => "range" \in Flaws
           /\ sem' = done /\ pc' = user /\ UNCHANGED <<undo, owed>>
      ELSE IF o.nowait
      THEN sem' = pool /\ pc' = user /\ UNCHANGED <<undo, owed>>                  \* EAGAIN
      ELSE /\ sem' = [pool EXCEPT ![ptr].zcnt = @ + (IF o.op = 0 THEN 1 ELSE 0),
                                  ![ptr].ncnt = @ + (IF o.op = 0 THEN 0 ELSE 1)]
           /\ pc' = [pc EXCEPT ![p] = [at |-> "asleep", id |-> id, ops |-> ops,
                                     ptr |-> ptr, zero |-> o.op = 0]]
           /\ UNCHANGED <<undo, owed>>

Bounded == \A i \in DOMAIN sem' : sem'[i].val <= MaxVal

semop(p, id, ops) ==
  /\ MayEnter(p) /\ Accepts(id)
  /\ Try(p, id, ops, sem) /\ Bounded
  /\ UNCHANGED <<sema, semtot, holder, born>>

\* semop() wakes: the set is gone (EIDRM), or its waiter is counted off at the
\* semaphore it kept and the vector is tried again
semopWakes(p) ==
  /\ pc[p].at = "woken"
  /\ LET q == pc[p].ptr
     IN  IF ~Accepts(pc[p].id)
         THEN pc' = [pc EXCEPT ![p] = Idle] /\ UNCHANGED <<sem, undo, owed>>
         ELSE /\ Try(p, pc[p].id, pc[p].ops,
                     [sem EXCEPT ![q].zcnt = @ - (IF pc[p].zero THEN 1 ELSE 0),
                                 ![q].ncnt = @ - (IF pc[p].zero THEN 0 ELSE 1)])
              /\ Bounded
  /\ UNCHANGED <<sema, semtot, holder, born>>

\* a signal ends ix_sleep(): EINTR, and the waiter stays counted
semopInterrupted(p) ==
  /\ pc[p].at \in {"asleep", "woken"}
  /\ sem[pc[p].ptr].ncnt + sem[pc[p].ptr].zcnt <= MaxWaiters
  /\ pc' = [pc EXCEPT ![p] = Idle]
  /\ UNCHANGED <<sema, sem, semtot, undo, holder, born, owed>>

-----------------------------------------------------------------------------
\* semexit(): the adjustments of p are applied, none below 0; with no undo
\* vector the exit does not wait for the holder of the facility
semexit(p) ==
  LET v    == IndexOf(undo, p)
      ent  == IF v = 0 THEN <<>> ELSE undo[v].ent
      Fall(n, e) == IF e.adj < 0 /\ n < -e.adj THEN 0 ELSE n + e.adj
      pool == FoldLeft(LAMBDA q, e : [q EXCEPT ![At(e.id, e.num)].val = Fall(@, e)], sem, ent)
  IN  /\ pc[p].at = "user"
      /\ v # 0 => holder \in {0, p}
      /\ sem' = pool
      /\ undo' = IF v = 0 THEN undo ELSE Remove(undo, undo[v])
      /\ holder' = IF holder = p THEN 0 ELSE holder
      /\ pc' = [q \in Procs |-> IF q = p THEN [Idle EXCEPT !.at = "gone"]
                ELSE IF pc[q].at = "asleep" /\ \E e \in Range(ent) : e.id = pc[q].id.ix
                THEN [pc[q] EXCEPT !.at = "woken"] ELSE pc[q]]
      \* what an exit could not take back stays with the semaphore
      /\ owed' = [s \in Sets |-> [i \in DOMAIN owed[s] |->
                    IF \E e \in Range(ent) : e.id = s /\ e.num = i - 1
                    THEN owed[s][i] + sem'[At(s, i - 1)].val - sem[At(s, i - 1)].val
                         - (CHOOSE e \in Range(ent) : e.id = s /\ e.num = i - 1).adj
                    ELSE owed[s][i]]]
      /\ UNCHANGED <<sema, semtot, born>>

Next ==
  \E p \in Procs :
    \/ \E k \in Keys, n \in Sizes : semget(p, k, n)
    \/ \E id \in Ids :
         \/ semctlRmid(p, id)
         \/ \E ops \in Vectors : semop(p, id, ops)
         \/ \E nums \in SUBSET (0..(SEMMNS - 1)) : semctlSet(p, id, nums, 1)
    \/ semlock(p) \/ semunlock(p) \/ semopWakes(p) \/ semopInterrupted(p) \/ semexit(p)

Spec == Init /\ [][Next]_vars

-----------------------------------------------------------------------------
\* The pool is divided among the sets: no semaphore is in two of them, and
\* none is lost, whatever the order in which sets are made and removed
SetsTilePool ==
  /\ semtot = FoldFunctionOnSet(+, 0, [s \in Sets |-> sema[s].nsems], {s \in Sets : sema[s].alloc})
  /\ \A s, t \in {r \in Sets : sema[r].alloc} :
       s # t => \/ sema[s].base + sema[s].nsems <= sema[t].base
                \/ sema[t].base + sema[t].nsems <= sema[s].base

\* No sleeper is forgotten: semop() sleeps only while its vector cannot go
\* through as a whole, and its set is there
NoSleeperForgotten ==
  \A p \in Procs : pc[p].at = "asleep" =>
     Accepts(pc[p].id) /\ Apply(Values(pc[p].id.ix), pc[p].ops).stop

\* The value of a semaphore and the adjustments recorded against it add up to
\* what the operations without SEM_UNDO made of it: a vector is performed as a
\* whole or not at all, and every adjustment belongs to a set that exists, so
\* that semexit() gives back what the process took
Adjustments(s, num) ==
  FoldLeft(LAMBDA n, v : n + FoldLeft(LAMBDA m, e : IF e.id = s /\ e.num = num THEN m + e.adj ELSE m,
                                      0, v.ent), 0, undo)
UndoAddsUp ==
  /\ \A s \in Sets : sema[s].alloc =>
       \A num \in 0..(sema[s].nsems - 1) :
          sem[At(s, num)].val + Adjustments(s, num) = owed[s][num + 1]
  /\ \A v \in Range(undo) : \A e \in Range(v.ent) : sema[e.id].alloc /\ e.num < sema[e.id].nsems
=============================================================================
