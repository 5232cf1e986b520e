-------------------------------- MODULE Btree -------------------------------
(* The btree access method: db/btree/bt_search.c, bt_put.c, bt_delete.c,       *)
(* bt_seq.c, bt_get.c, bt_utils.c, bt_close.c and what bt_open.c reads. One    *)
(* action is one call through the DB structure; the tree is one value.         *)
EXTENDS BtPages, FiniteSets

CONSTANTS
  Uses,            \* of databases: flags of the open, pairs put, keys deleted, calls made
  BigKeys,         \* the keys longer than bt_ovflsize
  Flaws            \* what the calls may run into: see "Where the code fails"

VARIABLES
  use,             \* one of Uses
  tree,            \* the BTREE and the pages of its file
  recs, cur,       \* the records in it and the cursor's, as KeyedStore has them
  done             \* the last call did what its status says

\* R_DUP was given: ~F_ISSET(t, B_NODUPS).
Dup == use.dup
\* <<key, data>>; the size of the data tells it apart.
Pairs == use.pairs
Calls == use.calls
Deleted == use.dels

Keys == {r[1] : r \in UNION {u.pairs : u \in Uses}}
Data == {r[2] : r \in UNION {u.pairs : u \in Uses}}

NoKey == -2
ksize(k) == IF k \in BigKeys THEN bt_ovflsize + 1 ELSE 1
dsize(d) == d

\* __bt_defcmp()'s sign as a difference; the leftmost key of an internal level is
\* less than any key. An empty page still has the bytes of its last record.
KeyOf(t, i) == IF i.bigk # 0 THEN ovfl_get(t, i.bigk) ELSE i.k
KeyAt(t, pg, index) ==
  IF t.page[pg].items = <<>> THEN t.page[pg].stale ELSE KeyOf(t, At(t.page[pg], index))
bt_cmp(t, key, pg, index) ==
  LET h == t.page[pg]
  IN  IF index = 0 /\ h.prev = P_INVALID /\ h.type # "leaf" THEN 1
      ELSE key - KeyAt(t, pg, index)

-----------------------------------------------------------------------------
(* bt_search.c                                                                 *)

RECURSIVE BinarySearch(_, _, _, _, _)
BinarySearch(t, pg, key, base, lim) ==
  LET index == base + lim \div 2
      cmp == bt_cmp(t, key, pg, index)
  IN  IF lim = 0 THEN [exact |-> FALSE, index |-> base]
      ELSE IF cmp = 0 THEN [exact |-> TRUE, index |-> index]
      ELSE IF cmp > 0 THEN BinarySearch(t, pg, key, index + 1, (lim - 1) \div 2)
      ELSE BinarySearch(t, pg, key, base, lim \div 2)

Push(t, pg, index) == [t EXCEPT !.sp = Append(@, [pg |-> pg, index |-> index])]

\* The leaf found, or, with duplicates, its neighbour: __bt_sprev(), __bt_snext().
AtLeaf(t, pg, key, b) ==
  LET h == t.page[pg]
      last == NEXTINDEX(t.page[h.prev]) - 1
      e == [t |-> t, pg |-> pg, index |-> b.index, exact |-> b.exact]
  IN  IF b.exact \/ ~Dup THEN e
      ELSE IF b.index = 0 /\ h.prev # P_INVALID /\ bt_cmp(t, key, h.prev, last) = 0
        THEN [e EXCEPT !.pg = h.prev, !.index = last, !.exact = TRUE]
      ELSE IF b.index = NEXTINDEX(h) /\ h.next # P_INVALID /\ bt_cmp(t, key, h.next, 0) = 0
        THEN [e EXCEPT !.pg = h.next, !.index = 0, !.exact = TRUE]
      ELSE e

RECURSIVE Descend(_, _, _)
Into(t, key, pg, index) == Descend(Push(t, pg, index), key, At(t.page[pg], index).pg)
Step(t, key, pg, b) ==
  IF t.page[pg].type = "leaf" THEN AtLeaf(t, pg, key, b)
  ELSE Into(t, key, pg, IF b.exact \/ b.index = 0 THEN b.index ELSE b.index - 1)
Descend(t, key, pg) ==
  Step(t, key, pg, BinarySearch(t, pg, key, 0, NEXTINDEX(t.page[pg])))

bt_search(t, key) == Descend([t EXCEPT !.sp = <<>>], key, P_ROOT)

-----------------------------------------------------------------------------
(* bt_delete.c                                                                 *)

\* __bt_curdel(): a cursor whose record goes moves to a duplicate of it, or
\* remembers the key.
bt_curdel(t, key, pg, index) ==
  LET h == t.page[pg]
      k == IF key = NoKey THEN KeyAt(t, pg, index) ELSE key
      c == [t.cursor EXCEPT !.after = FALSE, !.before = FALSE, !.acquire = FALSE]
      Same(p, i) == bt_cmp(t, k, p, i) = 0
      plast == NEXTINDEX(t.page[h.prev]) - 1
  IN  [t EXCEPT !.cursor =
         IF Dup /\ index > 0 /\ Same(pg, index - 1)
           THEN [c EXCEPT !.before = TRUE, !.index = index - 1]
         ELSE IF Dup /\ index < NEXTINDEX(h) - 1 /\ Same(pg, index + 1)
           THEN [c EXCEPT !.after = TRUE, !.index = index + 1]
         ELSE IF Dup /\ index = 0 /\ h.prev # P_INVALID /\ Same(h.prev, plast)
           THEN [c EXCEPT !.before = TRUE, !.pg = h.prev, !.index = plast]
         ELSE IF Dup /\ index = NEXTINDEX(h) - 1 /\ h.next # P_INVALID /\ Same(h.next, 0)
           THEN [c EXCEPT !.after = TRUE, !.pg = h.next, !.index = 0]
         ELSE [c EXCEPT !.acquire = TRUE, !.key = KeyAt(t, pg, index)]]

CursorOn(c, pg) == c.init /\ ~c.acquire /\ c.pg = pg

\* Item i goes from the page, and its overflow pages go.
DropKey(t, i) == IF i.bigk # 0 THEN ovfl_delete(t, i.bigk, ksize(i.k)) ELSE t
DropData(t, i) == IF i.bigd # 0 THEN ovfl_delete(t, i.bigd, dsize(i.d)) ELSE t
DropPages(t, i, pg, index, stale) ==
  [DropData(DropKey(t, i), i) EXCEPT !.page[pg].items = RemoveAt(@, index + 1),
                                     !.page[pg].stale = stale]

\* A faulty __bt_dleaf: the cursor of a deleted record is left where it is.
dleafKeepsCursor(t, key, pg, index) ==
  LET i == At(t.page[pg], index) IN DropPages(t, i, pg, index, i.k)

bt_dleaf(t, key, pg, index) ==
  LET Moved(t0) == [t0 EXCEPT !.cursor.index =
                      IF CursorOn(t0.cursor, pg) /\ @ > index THEN @ - 1 ELSE @]
      Less(t0) == DropPages(t0, At(t0.page[pg], index), pg, index, KeyAt(t0, pg, index))
  IN  Moved(Less(IF CursorOn(t.cursor, pg) /\ t.cursor.index = index
                      THEN bt_curdel(t, key, pg, index) ELSE t))

\* __bt_relink()
bt_relink(t, pg) ==
  LET h == t.page[pg]
  IN  [t EXCEPT !.page = [p \in DOMAIN @ |->
         [@[p] EXCEPT !.prev = IF p = h.next /\ p # P_INVALID THEN h.prev ELSE @,
                      !.next = IF p = h.prev /\ p # P_INVALID THEN h.next ELSE @]]]

\* __bt_pdelete(): the key of an emptied page goes from its parent, and parents
\* that get empty go too; an empty root is a leaf again.
RECURSIVE UnlinkParents(_)
UnlinkParents(t) ==
  LET parent == Last(t.sp)
      h == t.page[parent.pg]
      i == At(h, parent.index)
      t1 == [t EXCEPT !.sp = Front(@)]
      t2 == IF i.bigk # 0 THEN ovfl_delete(t1, i.bigk, ksize(i.k)) ELSE t1
  IN  IF t.sp = <<>> THEN t
      ELSE IF NEXTINDEX(h) > 1 THEN SetItems(t2, parent.pg, RemoveAt(h.items, parent.index + 1))
      ELSE IF parent.pg = P_ROOT
        THEN [t2 EXCEPT !.page[P_ROOT].items = <<>>, !.page[P_ROOT].type = "leaf"]
      ELSE UnlinkParents(bt_free(bt_relink(t2, parent.pg), parent.pg))

bt_pdelete(t, pg) ==
  LET t1 == UnlinkParents(t)
  IN  IF pg = P_ROOT THEN t1 ELSE bt_free(bt_relink(t1, pg), pg)

DeleteEmpty(t, pg) == IF t.page[pg].items = <<>> THEN bt_pdelete(t, pg) ELSE t

\* __bt_bdelete() with duplicates: forward from the record found to the first
\* that differs, then backward, and again when either end of the page is reached.
RECURSIVE DeleteForward(_, _, _, _)
DeleteForward(t, key, pg, index) ==
  LET t1 == bt_dleaf(t, key, pg, index)
  IN  IF index < NEXTINDEX(t1.page[pg]) /\ bt_cmp(t1, key, pg, index) = 0
        THEN DeleteForward(t1, key, pg, index) ELSE t1
RECURSIVE DeleteBack(_, _, _, _)
DeleteBack(t, key, pg, index) ==
  IF index = 0 THEN [t |-> t, redo |-> FALSE]
  ELSE IF bt_cmp(t, key, pg, index - 1) # 0 THEN [t |-> t, redo |-> FALSE]
  ELSE LET rest == DeleteBack(bt_dleaf(t, key, pg, index - 1), key, pg, index - 1)
       IN  [rest EXCEPT !.redo = @ \/ index = 1]

RECURSIVE bt_bdelete(_, _)
DeleteAgain(key, pg, back, end) ==
  IF NEXTINDEX(back.t.page[pg]) = 0 THEN bt_bdelete(bt_pdelete(back.t, pg), key)
  ELSE IF back.redo \/ end THEN bt_bdelete(back.t, key)
  ELSE back.t
DeleteDups(fwd, key, e) ==
  DeleteAgain(key, e.pg, DeleteBack(fwd, key, e.pg, e.index), e.index = NEXTINDEX(fwd.page[e.pg]))
DeleteFound(e, key) ==
  IF ~e.exact THEN e.t
  ELSE IF ~Dup THEN DeleteEmpty(bt_dleaf(e.t, key, e.pg, e.index), e.pg)
  ELSE DeleteDups(DeleteForward(e.t, key, e.pg, e.index), key, e)
bt_bdelete(t, key) == DeleteFound(bt_search(t, key), key)

\* __bt_stkacq(): the stack of parents of the page the cursor is on, found from a
\* search for its key by steps to the right and, failing that, to the left.
RECURSIVE Climb(_, _, _, _)
Climb(t, right, level, index) ==
  LET parent == Last(t.sp)
      h == t.page[parent.pg]
      edge == parent.index = IF right THEN NEXTINDEX(h) - 1 ELSE 0
      i == IF right THEN parent.index + 1 ELSE parent.index - 1
      popped == [t EXCEPT !.sp = Front(@)]
  IN  IF t.sp = <<>> THEN [t |-> t, level |-> level, pg |-> P_ROOT, index |-> index]
      ELSE IF edge THEN Climb(popped, right, level + 1, index)
      ELSE [t |-> Push(popped, parent.pg, i), level |-> level, pg |-> parent.pg, index |-> i]
RECURSIVE Restack(_, _, _)
Restack(u, right, level) ==
  LET pg == At(u.t.page[u.pg], u.index).pg
      i == IF right THEN 0 ELSE NEXTINDEX(u.t.page[pg]) - 1
  IN  IF level = 0 THEN u.t
      ELSE Restack([t |-> Push(u.t, pg, i), pg |-> pg, index |-> i], right, level - 1)
RECURSIVE Walk(_, _, _, _)
Walk(t, pg, goal, right) ==
  LET to == IF right THEN t.page[pg].next ELSE t.page[pg].prev
      up == Climb(t, right, 0, 0)
  IN  IF pg = goal THEN [found |-> TRUE, t |-> t]
      ELSE IF to = P_INVALID THEN [found |-> FALSE, t |-> t]
      ELSE Walk(Restack(up, right, up.level), to, goal, right)
bt_stkacq(t) ==
  LET e == bt_search(t, t.cursor.key)
      r == Walk(e.t, e.pg, t.cursor.pg, TRUE)
  IN  IF r.found THEN r.t ELSE Walk(e.t, e.pg, t.cursor.pg, FALSE).t
DeleteCursor(t) ==
  LET c == t.cursor
      t1 == IF NEXTINDEX(t.page[c.pg]) = 1 THEN bt_stkacq(t) ELSE t
  IN  DeleteEmpty(bt_dleaf(t1, NoKey, c.pg, c.index), c.pg)

-----------------------------------------------------------------------------
(* bt_put.c                                                                    *)

\* A pair that does not fit is put on overflow pages: the key if it is too long
\* by itself, the data, and the key if that was not enough. key is what the page
\* is then searched for: of a key on overflow pages, the page number and size.
OnPages(u, val, size, on) == IF on THEN ovfl_put(u, val, size) ELSE [t |-> u, pg |-> 0]
Stored(t, k, d) ==
  LET Size(size, on) == IF on THEN NOVFLSIZE ELSE size
      longk == ksize(k) > bt_ovflsize
      bigd == Size(ksize(k), longk) + dsize(d) > bt_ovflsize
      stillk == ~longk /\ bigd /\ ksize(k) + NOVFLSIZE > bt_ovflsize
      bigk == longk \/ stillk
      item == Item(k, IF bigd THEN 0 ELSE d, NBLEAFDBT(Size(ksize(k), bigk), Size(dsize(d), bigd)))
      Made(k1, d1, k2) == [t |-> k2.t, key |-> IF bigk THEN RawKey ELSE k,
                           item |-> [item EXCEPT !.bigk = IF longk THEN k1.pg ELSE k2.pg,
                                                 !.bigd = d1.pg]]
      Rest(k1, d1) == Made(k1, d1, OnPages(d1.t, k, ksize(k), stillk))
      DataThen(k1) == Rest(k1, OnPages(k1.t, d, dsize(d), bigd))
  IN  DataThen(OnPages(t, k, ksize(k), longk))

\* A faulty bt_fast: the last key is not compared with.
bt_fastUnsorted(t, key, n) ==
  LET h == t.page[t.last.pg]
      i == t.last.index
      cmp == bt_cmp(t, key, t.last.pg, i)
      hit == /\ t.order # "NOT"
             /\ ~NoRoom(h, n)
             /\ IF t.order = "FORWARD"
                  THEN h.next = P_INVALID /\ i = NEXTINDEX(h) - 1
                  ELSE h.prev = P_INVALID /\ i = 0 /\ cmp <= 0
      to == IF t.order = "FORWARD" /\ cmp # 0 THEN i + 1 ELSE i
  IN  [hit |-> hit, pg |-> t.last.pg, index |-> to, exact |-> cmp = 0,
       t |-> IF hit THEN [t EXCEPT !.last.index = to] ELSE [t EXCEPT !.order = "NOT"]]

\* bt_fast(): sorted data goes to the page the last record went to, if that is
\* still the end of the tree and has room.
bt_fast(t, key, n) ==
  LET h == t.page[t.last.pg]
      i == t.last.index
      cmp == bt_cmp(t, key, t.last.pg, i)
      hit == /\ t.order # "NOT"
             /\ ~NoRoom(h, n)
             /\ IF t.order = "FORWARD"
                  THEN h.next = P_INVALID /\ i = NEXTINDEX(h) - 1 /\ cmp >= 0
                  ELSE h.prev = P_INVALID /\ i = 0 /\ cmp <= 0
      to == IF t.order = "FORWARD" /\ cmp # 0 THEN i + 1 ELSE i
  IN  [hit |-> hit, pg |-> t.last.pg, index |-> to, exact |-> cmp = 0,
       t |-> IF hit THEN [t EXCEPT !.last.index = to] ELSE [t EXCEPT !.order = "NOT"]]

Find(t, key, n) ==
  LET f == bt_fast(t, key, n)
  IN  IF t.order # "NOT" /\ f.hit THEN f
      ELSE bt_search(IF t.order = "NOT" THEN t ELSE f.t, key)

\* The record goes in at index, and whether the data comes sorted is noted.
Order(t, pg, index) ==
  LET h == t.page[pg]
      Set(order) == [t EXCEPT !.order = order, !.last = [pg |-> pg, index |-> index]]
  IN  IF t.order # "NOT" THEN t
      ELSE IF h.next = P_INVALID
        THEN IF index = NEXTINDEX(h) - 1 THEN Set("FORWARD") ELSE t
      ELSE IF h.prev = P_INVALID /\ index = 0 THEN Set("BACK") ELSE t
Insert(t, pg, index, item) ==
  LET c == t.cursor
      t1 == [t EXCEPT !.page[pg].items = InsertAt(@, index + 1, item),
                      !.cursor.index = IF CursorOn(c, pg) /\ c.index >= index
                                         THEN @ + 1 ELSE @]
  IN  IF NoRoom(t.page[pg], item.n) THEN bt_split(t, pg, item, index)
      ELSE Order(t1, pg, index)

CursorUsable(t) ==
  LET c == t.cursor IN c.init /\ ~c.acquire /\ ~c.after /\ ~c.before

\* __bt_put(). A result is the tree and what the call returns.
PutOver(s, c) ==
  [t |-> Insert(bt_dleaf(s.t, s.key, c.pg, c.index), c.pg, c.index, s.item), status |-> "ok"]
PutFound(s, e, flags) ==
  IF flags = "R_NOOVERWRITE" /\ e.exact THEN [t |-> e.t, status |-> "special"]
  ELSE [t |-> Insert(IF e.exact /\ ~Dup THEN bt_dleaf(e.t, s.key, e.pg, e.index) ELSE e.t,
                     e.pg, e.index, s.item),
        status |-> "ok"]
PutStored(s, flags) ==
  IF flags = "R_CURSOR" THEN PutOver(s, s.t.cursor)
  ELSE PutFound(s, Find(s.t, s.key, s.item.n), flags)
bt_put(t, k, d, flags) ==
  IF flags = "R_CURSOR" /\ ~CursorUsable(t) THEN [t |-> t, status |-> "EINVAL"]
  ELSE PutStored(Stored(t, k, d), flags)

-----------------------------------------------------------------------------
(* bt_seq.c and bt_get.c                                                       *)

bt_setcur(t, pg, index) ==
  [t EXCEPT !.cursor = [NoCursor EXCEPT !.init = TRUE, !.pg = pg, !.index = index]]

NoRecord(t) == [t |-> t, pg |-> 0, index |-> 0, found |-> FALSE]
Found(t, pg, index) == [t |-> t, pg |-> pg, index |-> index, found |-> TRUE]

\* __bt_first() walks back over duplicates to the first one.
RECURSIVE FirstDup(_, _, _, _)
FirstDup(t, key, pg, index) ==
  LET h == t.page[pg]
      p == IF index = 0 THEN h.prev ELSE pg
      i == IF index = 0 THEN NEXTINDEX(t.page[p]) - 1 ELSE index - 1
  IN  IF index = 0 /\ h.prev = P_INVALID THEN Found(t, pg, index)
      ELSE IF bt_cmp(t, key, p, i) # 0 THEN Found(t, pg, index)
      ELSE FirstDup(t, key, p, i)
FirstFrom(e, key) ==
  LET h == e.t.page[e.pg]
  IN  IF e.exact
        THEN IF Dup THEN FirstDup(e.t, key, e.pg, e.index) ELSE Found(e.t, e.pg, e.index)
      ELSE IF e.index < NEXTINDEX(h) THEN Found(e.t, e.pg, e.index)
      ELSE IF h.next = P_INVALID THEN NoRecord(e.t) ELSE Found(e.t, h.next, 0)
bt_first(t, key) == FirstFrom(bt_search(t, key), key)

\* __bt_seqset(): down the left or the right side of the tree.
RECURSIVE Side(_, _, _)
Side(t, pg, left) ==
  LET h == t.page[pg]
      i == IF left THEN 0 ELSE NEXTINDEX(h) - 1
  IN  IF h.items = <<>> THEN NoRecord(t)
      ELSE IF h.type = "leaf" THEN Found(t, pg, i) ELSE Side(t, At(h, i).pg, left)

\* __bt_seqadv(): from a deleted record the search starts again with its key.
bt_seqadv(t, flags) ==
  LET c == t.cursor
      h == t.page[c.pg]
      here == [t EXCEPT !.cursor.after = FALSE, !.cursor.before = FALSE]
  IN  IF c.acquire THEN bt_first(t, c.key)
      ELSE IF (flags = "R_NEXT" /\ c.after) \/ (flags = "R_PREV" /\ c.before)
        THEN Found(here, c.pg, c.index)
      ELSE IF flags = "R_NEXT"
        THEN IF c.index + 1 # NEXTINDEX(h) THEN Found(t, c.pg, c.index + 1)
             ELSE IF h.next = P_INVALID THEN NoRecord(t) ELSE Found(t, h.next, 0)
        ELSE IF c.index # 0 THEN Found(t, c.pg, c.index - 1)
             ELSE IF h.prev = P_INVALID THEN NoRecord(t)
             ELSE Found(t, h.prev, NEXTINDEX(t.page[h.prev]) - 1)

Position(t, key, flags) ==
  IF flags \in {"R_NEXT", "R_PREV"} /\ t.cursor.init THEN bt_seqadv(t, flags)
  ELSE IF flags = "R_CURSOR" THEN bt_first(t, key)
  ELSE Side(t, P_ROOT, flags \in {"R_FIRST", "R_NEXT"})

\* __bt_ret(): the record as the caller gets it.
bt_ret(t, pg, index) ==
  LET i == At(t.page[pg], index)
  IN  <<KeyAt(t, pg, index), IF i.bigd # 0 THEN ovfl_get(t, i.bigd) ELSE i.d>>

-----------------------------------------------------------------------------
(* The calls.                                                                  *)

Leaves(t) == LET e == Side(t, P_ROOT, TRUE) IN IF e.found THEN Chain(t, e.pg) ELSE <<P_ROOT>>

\* What the leaves hold, and the record the cursor is at.
Records(t) == {bt_ret(t, pg, i) : <<pg, i>> \in
                 UNION {{pg} \X (0 .. NEXTINDEX(t.page[pg]) - 1) : pg \in ToSet(Leaves(t))}}
CurrentOf(t) ==
  LET c == t.cursor
  IN  IF ~c.init THEN [k |-> 0, gone |-> FALSE]
      ELSE IF c.acquire THEN [k |-> c.key, gone |-> TRUE]
      ELSE [k |-> KeyAt(t, c.pg, c.index), gone |-> FALSE]

Init ==
  /\ use \in Uses
  /\ tree = NewTree("leaf")
  /\ recs = {} /\ cur = CurrentOf(tree) /\ done = TRUE

Becomes(t) ==
  /\ tree' = Settled(t, Flaws)
  /\ recs' = Records(tree') /\ cur' = CurrentOf(tree')
  /\ UNCHANGED use

Put(k, d, flags) ==
  \E r \in {bt_put(tree, k, d, flags)} :
    /\ Becomes(r.t)
    /\ done' = (r.status = "ok" => <<k, d>> \in recs')

Delete(k) ==
  /\ Becomes(bt_bdelete(tree, k))
  /\ done' = (\A r \in recs' : r[1] # k)

DeleteAtCursor ==
  /\ CursorUsable(tree)
  /\ Becomes(DeleteCursor(tree))
  /\ done' = (Cardinality(recs') = Cardinality(recs) - 1)

Store == INSTANCE KeyedStore WITH Ordered <- TRUE, dup <- use.dup

\* __bt_get(): what it returns.
bt_get(t, k) ==
  LET e == bt_search(t, k)
  IN  IF e.exact THEN {bt_ret(e.t, e.pg, e.index)} ELSE {}

bt_seq(k, flags) ==
  LET p == Position(tree, k, flags)
  IN  /\ Becomes(IF p.found THEN bt_setcur(p.t, p.pg, p.index) ELSE p.t)
      /\ done' = (p.found \/ Dup \/ Store!Candidates(k, flags) = {})

\* __bt_close() and __bt_open() of the file again: the list of free pages is
\* what the meta page says, which is written for a file made by this open only.
Reopen ==
  LET meta == IF tree.metadirty THEN tree.free ELSE tree.meta
  IN  /\ done' = TRUE
      /\ Becomes([tree EXCEPT !.meta = meta, !.free = meta, !.metadirty = FALSE,
                              !.cursor = NoCursor, !.order = "NOT", !.sp = <<>>])

-----------------------------------------------------------------------------
(* Where the code fails. Each of these calls damages the tree or loses the     *)
(* cursor; a specification with Flaws = {} does not make them.                 *)

\* bt_fast() inserts into a page that has left the tree.
LastIsLive == tree.order # "NOT" => tree.last.pg \in ToSet(Leaves(tree))

\* bt_psplit() moves the cursor to another record.
CursorKept(k, d) ==
  LET s == Stored(tree, k, d)
      e == Find(s.t, s.key, s.item.n)
  IN  ~(/\ tree.cursor.init /\ tree.cursor.pg = e.pg
        /\ NoRoom(e.t.page[e.pg], s.item.n) /\ e.index <= tree.cursor.index)

\* __bt_put() with R_CURSOR splits with the stack of an earlier search, and puts
\* a key where its order does not belong.
FitsAtCursor(k, d) ==
  CursorUsable(tree) =>
    LET c == tree.cursor
        s == Stored(tree, k, d)
    IN  /\ k = KeyAt(tree, c.pg, c.index)
        /\ ~NoRoom(bt_dleaf(s.t, k, c.pg, c.index).page[c.pg], s.item.n)

\* __bt_sync() does not write the free list of a file that was opened again.
MetaIsSaved == ~tree.metadirty => tree.meta = tree.free

\* Of a page that __bt_sprev() or __bt_snext() found, the stack has not the
\* parents; and __bt_bdelete() does not go back from the page it starts on.
OwnParents(k) ==
  LET e == bt_search(tree, k)
      parent == Last(e.t.sp)
  IN  Dup /\ e.pg # P_ROOT => At(tree.page[parent.pg], parent.index).pg = e.pg
DupsTogether(k) ==
  Cardinality({pg \in ToSet(Leaves(tree)) :
                 \E i \in ToSet(tree.page[pg].items) : i.k = k}) <= 1

Fails(flaw, safe) == flaw \notin Flaws => safe

PutNew(k, d, flags) ==
  /\ Fails("fast", LastIsLive) /\ Fails("cursor", CursorKept(k, d))
  /\ Fails("dups", OwnParents(k))
  /\ Dup => <<k, d>> \notin recs
  /\ Put(k, d, flags)
DeleteAll(k) == Fails("dups", OwnParents(k) /\ DupsTogether(k)) /\ Delete(k)
PutAtCursor(k, d) ==
  /\ Fails("stack", FitsAtCursor(k, d))
  /\ Dup => <<k, d>> \notin recs
  /\ Put(k, d, "R_CURSOR")
ReopenSaved == Fails("meta", MetaIsSaved) /\ Reopen

Next ==
  \/ \E r \in Pairs : \E flags \in {"", "R_NOOVERWRITE"} \cap Calls : PutNew(r[1], r[2], flags)
  \/ "put_cursor" \in Calls /\ \E r \in Pairs : PutAtCursor(r[1], r[2])
  \/ \E k \in Deleted : DeleteAll(k)
  \/ "del_cursor" \in Calls /\ DeleteAtCursor
  \/ \E flags \in {"R_FIRST", "R_LAST", "R_NEXT", "R_PREV"} \cap Calls : bt_seq(0, flags)
  \/ "R_CURSOR" \in Calls /\ \E r \in Pairs : bt_seq(r[1], "R_CURSOR")
  \/ "open" \in Calls /\ ReopenSaved

Spec == Init /\ [][Next]_<<tree, recs, cur, done, use>>

-----------------------------------------------------------------------------
(* Properties.                                                                 *)

\* A page has one use: it is in the tree once, or in one chain of overflow pages
\* of a record, or on the free list once. The leaves are linked in the order of
\* the tree, and what is on a page fits (bt_page.c, bt_split.c, bt_delete.c).
PagesHaveOneUse ==
  LET inner == TreePages(tree, P_ROOT)
      leaves == Below(tree, P_ROOT)
      all == inner \o Chain(tree, tree.free)
             \o FlattenSeq([i \in 1 .. Len(leaves) |-> Overflows(tree, leaves[i])])
  IN  /\ Len(all) = Cardinality(ToSet(all))
      /\ leaves = Leaves(tree)
      /\ \A i \in 2 .. Len(leaves) : tree.page[leaves[i]].prev = leaves[i - 1]
      /\ tree.page[leaves[1]].prev = P_INVALID
      /\ \A pg \in ToSet(inner) : Room(tree.page[pg]) >= 0

\* A put that succeeds has stored its record and a delete has removed it, a scan
\* ends only where there are no more records, and a get finds a record of its key
\* if there is one, whatever page it got to.
NothingIsMissed ==
  /\ done
  /\ \A k \in Keys :
       LET has == {r \in recs : r[1] = k}
       IN  IF has = {} THEN bt_get(tree, k) = {} ELSE \E r \in has : bt_get(tree, k) = {r}

\* Every call does to the records and the cursor what dbopen.3 says, however the
\* pages were split, emptied and used again: nothing is lost, nothing comes back,
\* and a scan skips nothing and repeats nothing.
ImplementsStore == Store!Spec
=============================================================================
