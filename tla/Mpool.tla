-------------------------------- MODULE Mpool -------------------------------
(* The buffer pool of the database library, db/mpool/mpool.c: pages of a file in *)
(* memory, in least-recently-used order. A page is pinned from mpool_get() or   *)
(* mpool_new() to mpool_put(), and written before its buffer is used again if   *)
(* it is dirty. Filters convert pages as they are read and written. A user      *)
(* writes a page only between the two, and marks it dirty.                     *)
EXTENDS Integers, Sequences, SequencesExt, FiniteSets

CONSTANTS
  maxcache,
  MaxPages,        \* bound: the file grows to so many pages
  Values,          \* what a user may write on a page
  Flaws            \* the disagreements with the rest of the code to be let in

VARIABLES
  lru,             \* the buffers, the least recently used first
  npages,
  curcache,        \* counted up to maxcache, which is all that is asked of it
  file,            \* the pages of the file, <<>> for one that was never written
  last,            \* what was last written on each page
  held,            \* the pages the user has
  filters          \* whether pgin and pgout are set: the two orders of bytes differ

vars == <<lru, npages, curcache, file, last, held, filters>>

\* A step that goes wrong in the way flaw names is taken only if it is let in.
Fails(flaw, safe) == flaw \notin Flaws => safe

\* mpool_look()
Cached(pgno) == {i \in DOMAIN lru : lru[i].pgno = pgno}

\* The filters turn the bytes round, on the way in and on the way out, where the
\* page is.
Filtered(b) == IF filters THEN [b EXCEPT !.swapped = ~@] ELSE b

\* mpool_write(), for the buffer and for the file.
Kept(b) == [Filtered(b) EXCEPT !.dirty = FALSE]
Written(f, b) == [f EXCEPT ![b.pgno] = <<[val |-> b.val, swapped |-> Filtered(b).swapped]>>]

\* A faulty choice: the buffer at the front, pinned or not.
VictimFirst == IF curcache < maxcache \/ lru = <<>> THEN 0 ELSE 1
\* What mpool_bkt() takes, 0 for a new buffer: the first one that is not pinned,
\* once there are maxcache of them.
Victim ==
  LET free == {i \in DOMAIN lru : ~lru[i].pinned}
  IN  IF curcache < maxcache \/ free = {} THEN 0 ELSE CHOOSE i \in free : \A j \in free : i <= j

\* mpool_bkt(): the list of buffers, their number and the file afterwards.
Took(buffers, cur, f) == lru' = buffers /\ curcache' = cur /\ file' = f
mpool_bkt(new) ==
  LET v == Victim
  IN  IF v = 0 THEN Took(lru \o new, IF curcache < maxcache THEN curcache + 1 ELSE curcache, file)
      ELSE Took(RemoveAt(lru, v) \o new, curcache, IF lru[v].dirty THEN Written(file, lru[v]) ELSE file)

Init ==
  /\ lru = <<>> /\ npages = 0 /\ curcache = 0
  /\ file = [p \in 0 .. MaxPages - 1 |-> <<>>]
  /\ last = [p \in 0 .. MaxPages - 1 |-> 0]
  /\ held = {}
  /\ filters \in BOOLEAN

Buffer(pgno, val, swapped) ==
  [pgno |-> pgno, pinned |-> TRUE, dirty |-> FALSE, val |-> val, swapped |-> swapped]

\* The user writes every new page, here before it does anything else.
mpool_new(v) ==
  /\ npages < MaxPages
  /\ mpool_bkt(<<[Buffer(npages, v, FALSE) EXCEPT !.dirty = TRUE]>>)
  /\ npages' = npages + 1
  /\ last' = [last EXCEPT ![npages] = v]
  /\ held' = held \cup {npages}

\* mpool_get() of a page in memory.
GetCached(pgno) ==
  \E i \in Cached(pgno) :
    /\ lru' = Append(RemoveAt(lru, i), [lru[i] EXCEPT !.pinned = TRUE])
    /\ held' = held \cup {pgno}
    /\ UNCHANGED <<npages, curcache, file, last>>
\* mpool_get() of a page that is read.
GetRead(pgno) ==
  /\ Cached(pgno) = {} /\ file[pgno] # <<>>
  /\ mpool_bkt(<<Filtered(Buffer(pgno, file[pgno][1].val, file[pgno][1].swapped))>>)
  /\ held' = held \cup {pgno}
  /\ UNCHANGED <<npages, last>>
\* mpool_get() when the read fails: the buffer taken for the page is in no list.
GetFails(pgno) ==
  /\ Cached(pgno) = {}
  /\ mpool_bkt(<<>>)
  /\ UNCHANGED <<npages, last, held>>
mpool_get(pgno) ==
  /\ pgno \notin held \* a pin is a flag and not a count
  /\ GetCached(pgno) \/ GetRead(pgno) \/ GetFails(pgno)

\* mpool_get() or mpool_new() when the write of what mpool_bkt() takes fails. The
\* page stays, dirty, and as the filter left it.
WriteFails ==
  /\ Victim # 0 /\ lru[Victim].dirty
  /\ Fails("swap", ~filters)
  /\ lru' = [lru EXCEPT ![Victim] = Filtered(@)]
  /\ UNCHANGED <<npages, curcache, file, last, held>>

Unpinned(b, dirty) == [b EXCEPT !.pinned = FALSE, !.dirty = @ \/ dirty]

\* mpool_put(), with MPOOL_DIRTY after v is written on the page, and without.
Put(pgno, Change(_)) ==
  /\ lru' = [i \in DOMAIN lru |-> IF lru[i].pgno = pgno THEN Change(lru[i]) ELSE lru[i]]
  /\ held' = held \ {pgno}
  /\ UNCHANGED <<npages, curcache, file>>
PutDirty(pgno, v) ==
  /\ Put(pgno, LAMBDA b : Unpinned([b EXCEPT !.val = v], TRUE))
  /\ last' = [last EXCEPT ![pgno] = v]
PutClean(pgno) == Put(pgno, LAMBDA b : Unpinned(b, FALSE)) /\ UNCHANGED last
mpool_put(pgno) == pgno \in held /\ (PutClean(pgno) \/ \E v \in Values : PutDirty(pgno, v))

\* mpool_sync(), up to the n-th buffer, whose write fails unless it is beyond the
\* last one.
mpool_sync ==
  \E n \in 1 .. Len(lru) + 1 :
    /\ n <= Len(lru) => lru[n].dirty
    /\ Fails("swap", filters => \A i \in 1 .. Len(lru) : i <= n => ~lru[i].dirty)
    /\ lru' = [i \in DOMAIN lru |-> IF i < n /\ lru[i].dirty THEN Kept(lru[i])
                                    ELSE IF i = n THEN Filtered(lru[i]) ELSE lru[i]]
    /\ file' = FoldLeft(Written, file, SelectSeq(SubSeq(lru, 1, n - 1), LAMBDA b : b.dirty))
    /\ UNCHANGED <<npages, curcache, last, held>>

Next ==
  /\ UNCHANGED filters
  /\ \/ \E v \in Values : mpool_new(v)
     \/ \E pgno \in 0 .. npages - 1 : mpool_get(pgno)
     \/ WriteFails
     \/ \E pgno \in held : mpool_put(pgno)
     \/ mpool_sync

Spec == Init /\ [][Next]_vars

\* What a page holds in memory, or else in the file once it is read, is what was
\* last written on it, in the order of this machine; a page is in memory once, and
\* stays there while the user has it.
PoolIsTrue ==
  \A p \in 0 .. npages - 1 :
    IF p \in held \/ Cached(p) # {}
    THEN /\ Cardinality(Cached(p)) = 1
         /\ \A i \in Cached(p) : lru[i].val = last[p] /\ ~lru[i].swapped
         /\ \A i \in Cached(p) : lru[i].dirty \/ file[p] = <<[val |-> last[p], swapped |-> filters]>>
    ELSE file[p] = <<[val |-> last[p], swapped |-> filters]>>
=============================================================================
