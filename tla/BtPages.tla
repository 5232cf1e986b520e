------------------------------- MODULE BtPages ------------------------------
(* The pages of a btree and how they split: db/btree/bt_page.c, bt_split.c and *)
(* bt_overflow.c, which btree and recno share. A tree is one value, and every  *)
(* function of the source that changes it is an operator from the old tree to  *)
(* the new one. The page cache is module Mpool; here a page number is enough.  *)
(* Indices count from 0 as in the source. Keys are even numbers.               *)
EXTENDS Integers, Sequences, SequencesExt

CONSTANTS
  FULL,            \* bt_psize - BTDATAOFF: the room on a page
  INDX,            \* sizeof (indx_t)
  NOVFLSIZE,       \* what refers to a chain of overflow pages
  bt_ovflsize,     \* a key and its data may have this size on a page
  NRINTERNAL

P_INVALID == 0
P_ROOT == 1

\* An item of a page: key, data, nbytes, and what the kind of page needs.
Item(k, d, n) == [k |-> k, d |-> d, n |-> n, pg |-> 0, cnt |-> 0,
                  bigk |-> 0, bigd |-> 0]
NBLEAFDBT(ksize, dsize) == 1 + ksize + dsize
NBINTERNAL(ksize) == 1 + ksize
NRLEAFDBT(dsize) == 1 + dsize

\* What an entry says that nobody has written.
Garbage == Item(-1, -1, 1)

NewPage(type, prev, next) ==
  [type |-> type, prev |-> prev, next |-> next, items |-> <<>>, val |-> 0,
   preserve |-> FALSE, stale |-> 0]

NEXTINDEX(h) == Len(h.items)
At(h, i) == IF i \in 0 .. NEXTINDEX(h) - 1 THEN h.items[i + 1] ELSE Garbage
Room(h) == FULL - FoldLeft(LAMBDA n, i : n + i.n + INDX, 0, h.items)
NoRoom(h, n) == Room(h) < n + INDX

NoCursor == [init |-> FALSE, acquire |-> FALSE, after |-> FALSE, before |-> FALSE,
             pg |-> 0, index |-> 0, key |-> 0]

\* nroot(): a new tree is an empty root.
NewTree(type) ==
  [page |-> [p \in {P_ROOT} |-> NewPage(type, P_INVALID, P_INVALID)],
   npages |-> 2, free |-> P_INVALID, meta |-> P_INVALID, metadirty |-> TRUE,
   cursor |-> NoCursor, order |-> "NOT", last |-> [pg |-> 0, index |-> 0],
   sp |-> <<>>, nrecs |-> 0]

SetPage(t, pg, h) ==
  [t EXCEPT !.page = [p \in DOMAIN t.page \cup {pg} |-> IF p = pg THEN h ELSE t.page[p]]]
SetItems(t, pg, items) == [t EXCEPT !.page[pg].items = items]

\* __bt_free() and __bt_new(). A page on the free list keeps what it had.
bt_free(t, pg) ==
  [t EXCEPT !.page[pg].prev = P_INVALID, !.page[pg].next = t.free, !.free = pg]
bt_new(t) ==
  IF t.free # P_INVALID
    THEN [t |-> [t EXCEPT !.free = t.page[t.free].next], pg |-> t.free]
    ELSE [t |-> [t EXCEPT !.npages = @ + 1], pg |-> t.npages]

-----------------------------------------------------------------------------
(* Overflow pages.                                                             *)

\* __ovfl_put(): val on as many pages as it takes, the last one first.
RECURSIVE ovfl_put(_, _, _)
ovfl_put(t, val, size) ==
  LET new == bt_new(t)
      here == SetPage(new.t, new.pg, [NewPage("overflow", P_INVALID, P_INVALID)
                                        EXCEPT !.val = val])
      rest == ovfl_put(here, val, size - FULL)
  IN  IF size <= FULL
        THEN [t |-> here, pg |-> new.pg]
        ELSE [t |-> [rest.t EXCEPT !.page[new.pg].next = rest.pg], pg |-> new.pg]

\* __ovfl_get(): what the first page of the chain says.
ovfl_get(t, pg) == t.page[pg].val

RECURSIVE FreeChain(_, _, _)
FreeChain(t, pg, size) ==
  LET next == t.page[pg].next
      freed == bt_free(t, pg)
  IN  IF size <= FULL THEN freed ELSE FreeChain(freed, next, size - FULL)

\* __ovfl_delete() leaves the chains of internal pages alone.
ovfl_delete(t, pg, size) ==
  IF t.page[pg].preserve THEN t ELSE FreeChain(t, pg, size)

bt_preserve(t, pg) == IF pg = 0 THEN t ELSE [t EXCEPT !.page[pg].preserve = TRUE]

-----------------------------------------------------------------------------
(* bt_split.c                                                                  *)

rec_total(h) == FoldLeft(LAMBDA n, i : n + i.cnt, 0, h.items)
Count(h) == IF h.type = "rleaf" THEN NEXTINDEX(h) ELSE rec_total(h)

\* bt_psplit() decides what goes left: items until half of the page is in use,
\* and the new one if its place is among them, but rather not up to a key on
\* overflow pages. off is the last index of the left page, nxt the first item
\* of the right one.
RECURSIVE LeftPart(_, _, _, _, _, _, _)
LeftPart(h, skip, ilen, nxt, off, used, bigkeycnt) ==
  LET nbytes == IF skip = off THEN ilen ELSE At(h, nxt).n
      isbigkey == skip # off /\ At(h, nxt).bigk # 0
      next == IF skip = off THEN nxt ELSE nxt + 1
      half == used + nbytes >= FULL \div 2
  IN  IF nxt >= NEXTINDEX(h) THEN [off |-> off, nxt |-> nxt]
      ELSE IF skip <= off /\ used + nbytes >= FULL THEN [off |-> off - 1, nxt |-> nxt]
      ELSE IF half /\ (~isbigkey \/ bigkeycnt = 3) THEN [off |-> off, nxt |-> next]
      ELSE LeftPart(h, skip, ilen, next, off + 1, used + nbytes,
                    IF half THEN bigkeycnt + 1 ELSE bigkeycnt)

\* bt_psplit() moves the cursor: past the new item, and to the page its record
\* went to.
MoveCursor(c, pg, l, r, skip, nxt) ==
  LET index == IF c.index >= skip THEN c.index + 1 ELSE c.index
  IN  IF ~c.init \/ c.pg # pg THEN c
      ELSE IF index < nxt THEN [c EXCEPT !.pg = l, !.index = index]
      ELSE [c EXCEPT !.pg = r, !.index = index - nxt]

\* bt_psplit() of page pg into l and r, and the insertion of the new item that
\* follows it. tgt and skip are where the item went.
Parted(t, pg, l, r, skip, item, part) ==
  LET h == t.page[pg]
      left == skip <= part.off
      Lefts == [i \in 1 .. part.off + 1 |->
                  IF i - 1 = skip THEN item
                  ELSE IF i - 1 < skip THEN At(h, i - 1) ELSE At(h, i - 2)]
      rights == SubSeq(h.items, part.nxt + 1, NEXTINDEX(h))
  IN  [t |-> [t EXCEPT !.page[l].items = Lefts,
                       !.page[r].items = IF left THEN rights
                                         ELSE InsertAt(rights, skip - part.nxt + 1, item),
                       !.cursor = MoveCursor(@, pg, l, r, skip, part.nxt)],
       l |-> l, r |-> r, tgt |-> IF left THEN l ELSE r,
       skip |-> IF left THEN skip ELSE skip - part.nxt]
bt_psplit(t, pg, l, r, skip, item) ==
  Parted(t, pg, l, r, skip, item, LeftPart(t.page[pg], skip, item.n, 0, 0, 0, 0))

\* A faulty bt_page(): the page that followed still names the one split before it.
bt_pageKeepsPrev(t, pg, skip, item) ==
  LET h == t.page[pg]
      new == bt_new(t)
      r == new.pg
      t1 == SetPage(new.t, r, NewPage(h.type, pg, h.next))
      t2 == [t1 EXCEPT !.page[pg].next = r]
  IN  IF h.next = P_INVALID /\ skip = NEXTINDEX(h)
        THEN [t |-> SetItems(t2, r, <<item>>), l |-> pg, r |-> r, tgt |-> r, skip |-> 0]
        ELSE bt_psplit(t2, pg, pg, r, skip, item)

\* bt_page(): a page other than the root. Appending at the end of a level only
\* adds a page there.
bt_page(t, pg, skip, item) ==
  LET h == t.page[pg]
      new == bt_new(t)
      r == new.pg
      t1 == SetPage(new.t, r, NewPage(h.type, pg, h.next))
      t2 == [t1 EXCEPT !.page[pg].next = r]
  IN  IF h.next = P_INVALID /\ skip = NEXTINDEX(h)
        THEN [t |-> SetItems(t2, r, <<item>>), l |-> pg, r |-> r, tgt |-> r, skip |-> 0]
        ELSE bt_psplit(IF h.next = P_INVALID THEN t2 ELSE [t2 EXCEPT !.page[h.next].prev = r],
                       pg, pg, r, skip, item)

\* bt_root(): the items of the root go to two new pages.
bt_root(t, skip, item) ==
  LET h == t.page[P_ROOT]
      n1 == bt_new(t)
      n2 == bt_new(n1.t)
      t1 == SetPage(n2.t, n1.pg, NewPage(h.type, P_INVALID, n2.pg))
      t2 == SetPage(t1, n2.pg, NewPage(h.type, n1.pg, P_INVALID))
  IN  bt_psplit(t2, P_ROOT, n1.pg, n2.pg, skip, item)

\* The internal item for page r whose first item is i. A key on overflow pages
\* is not compared as one when it got into the root (bt_broot).
SeparatorOf(i, k, r, bigk) ==
  [Item(k, 0, IF i.bigk # 0 THEN NBINTERNAL(NOVFLSIZE) ELSE NBINTERNAL(1))
     EXCEPT !.pg = r, !.bigk = bigk]
RawKey == -1

bt_broot(t, l, r) ==
  LET i == At(t.page[r], 0)
      leaf == t.page[P_ROOT].type = "leaf"
      first == [Item(0, 0, NBINTERNAL(0)) EXCEPT !.pg = l]
      second == IF leaf THEN SeparatorOf(i, IF i.bigk # 0 THEN RawKey ELSE i.k, r, 0)
                        ELSE [i EXCEPT !.pg = r]
  IN  bt_preserve([t EXCEPT !.page[P_ROOT].items = <<first, second>>,
                            !.page[P_ROOT].type = "internal"],
                  IF leaf THEN i.bigk ELSE 0)

RecItem(t, pg) == [Item(0, 0, NRINTERNAL) EXCEPT !.pg = pg, !.cnt = Count(t.page[pg])]

bt_rroot(t, l, r) ==
  [t EXCEPT !.page[P_ROOT].items = <<RecItem(t, l), RecItem(t, r)>>,
            !.page[P_ROOT].type = "rinternal"]

FixRoot(t, pg, l, r) ==
  IF pg # P_ROOT THEN t
  ELSE IF t.page[pg].type \in {"rleaf", "rinternal"} THEN bt_rroot(t, l, r)
  ELSE bt_broot(t, l, r)

SplitPage(t, pg, skip, item) ==
  IF pg = P_ROOT THEN bt_root(t, skip, item) ELSE bt_page(t, pg, skip, item)

\* The whole key stays next to the leftmost item of a level.
KeepKey(h, skip) == h.prev = P_INVALID /\ skip <= 1

\* What goes into parent page h for the new right page r of a split: the key is
\* cut to what tells it from the last key on the left.
ParentItem(t, h, l, r, skip) ==
  LET i == At(t.page[r], 0)
      last == At(t.page[l], NEXTINDEX(t.page[l]) - 1)
      cut == i.bigk = 0 /\ ~KeepKey(h, skip) /\ last.k < i.k
  IN  CASE t.page[r].type = "internal" -> [i EXCEPT !.pg = r]
        [] t.page[r].type = "leaf" ->
             SeparatorOf(i, IF cut THEN i.k - 1 ELSE i.k, r, i.bigk)
        [] OTHER -> RecItem(t, r)

\* The count of the left page, in the entry before the new one.
FixLeftCount(t, s, lchild) ==
  IF t.page[lchild].type \notin {"rleaf", "rinternal"} THEN t
  ELSE LET pg == IF s.skip > 0 THEN s.tgt ELSE s.l
           at == IF s.skip > 0 THEN s.skip ELSE NEXTINDEX(t.page[s.l])
       IN  [t EXCEPT !.page[pg].items[at] = RecItem(t, lchild)]

\* The walk up the stack of parents, until one has room for the new key.
RECURSIVE SplitUp(_, _, _)
Rooted(t, pg, s) == SplitUp(FixRoot(t, pg, s.l, s.r), s.l, s.r)
Counted(s, pg, l) == Rooted(FixLeftCount(s.t, s, l), pg, s)
IntoParent(t, l, pg, skip, item) ==
  IF NoRoom(t.page[pg], item.n) THEN Counted(SplitPage(t, pg, skip, item), pg, l)
  ELSE FixLeftCount(SetItems(t, pg, InsertAt(t.page[pg].items, skip + 1, item)),
                    [tgt |-> pg, skip |-> skip, l |-> pg], l)
Kept(t, l, r, pg, skip, item) ==
  IntoParent(bt_preserve([t EXCEPT !.sp = Front(@)],
                         IF t.page[r].type = "leaf" THEN item.bigk ELSE 0), l, pg, skip, item)
SplitUp(t, l, r) ==
  LET parent == Last(t.sp)
      skip == parent.index + 1
  IN  IF t.sp = <<>> THEN t
      ELSE Kept(t, l, r, parent.pg, skip, ParentItem(t, t.page[parent.pg], l, r, skip))

\* __bt_split() of leaf page pg for an item at index skip.
SplitOf(s, pg) == Rooted(s.t, pg, s)
bt_split(t, pg, item, skip) == SplitOf(SplitPage(t, pg, skip, item), pg)

-----------------------------------------------------------------------------
(* The pages of a tree.                                                        *)

RECURSIVE Chain(_, _)
Chain(t, pg) == IF pg = P_INVALID THEN <<>> ELSE <<pg>> \o Chain(t, t.page[pg].next)
RECURSIVE Below(_, _)
Below(t, pg) ==
  LET h == t.page[pg]
  IN  IF h.type \in {"leaf", "rleaf"} THEN <<pg>>
      ELSE FlattenSeq([i \in 1 .. NEXTINDEX(h) |-> Below(t, h.items[i].pg)])
RECURSIVE TreePages(_, _)
TreePages(t, pg) ==
  LET h == t.page[pg]
  IN  IF h.type \in {"leaf", "rleaf"} THEN <<pg>>
      ELSE <<pg>> \o FlattenSeq([i \in 1 .. NEXTINDEX(h) |-> TreePages(t, h.items[i].pg)])
Overflows(t, pg) ==
  FlattenSeq([i \in 1 .. NEXTINDEX(t.page[pg]) |->
                Chain(t, t.page[pg].items[i].bigk) \o Chain(t, t.page[pg].items[i].bigd)])

\* What no later call reads is forgotten: the stack of a search, where data was
\* put last when it is not sorted, pages nothing refers to. Page numbers are names,
\* given out here in the order of the tree, its overflow pages and the free list.
Live(t, leaves) ==
  TreePages(t, P_ROOT)
  \o FlattenSeq([i \in 1 .. Len(leaves) |-> Overflows(t, leaves[i])])
WithMeta(t, used) ==
  used \o (IF t.metadirty THEN <<>>
           ELSE SelectSeq(Chain(t, t.meta), LAMBDA p : p \notin ToSet(used)))
Names(all) ==
  [p \in {0} \cup ToSet(all) |-> IF p = 0 THEN 0 ELSE CHOOSE n \in 1 .. Len(all) : all[n] = p]
Renumbered(t, Flaws, live, all, pages) ==
  LET Name(p) == IF p \in DOMAIN pages THEN pages[p] ELSE 0
      Renamed(h) ==
        [h EXCEPT !.prev = Name(@), !.next = Name(@),
                  !.stale = IF "fast" \in Flaws /\ h.items = <<>> THEN @ ELSE 0,
                  !.items = [i \in 1 .. Len(@) |->
                    [@[i] EXCEPT !.pg = Name(@), !.bigk = Name(@), !.bigd = Name(@)]]]
      c == t.cursor
      Place(e) == [pg |-> Name(e.pg), index |-> e.index]
  IN  [t EXCEPT
         !.page = [n \in 1 .. Len(all) |->
           IF n > live /\ "fast" \notin Flaws
             THEN NewPage("free", P_INVALID, Name(t.page[all[n]].next))
             ELSE Renamed(t.page[all[n]])],
         !.npages = Len(all) + 1, !.free = Name(@),
         !.meta = IF t.metadirty THEN 0 ELSE Name(@),
         !.sp = IF "stack" \in Flaws THEN [i \in 1 .. Len(@) |-> Place(@[i])] ELSE <<>>,
         !.last = IF t.order = "NOT" THEN [pg |-> 0, index |-> 0] ELSE Place(@),
         !.cursor = [@ EXCEPT !.pg = IF c.acquire THEN 0 ELSE Name(@),
                              !.index = IF c.acquire THEN 0 ELSE @]]
Settled(t, Flaws) ==
  LET By(live, all) == Renumbered(t, Flaws, live, all, Names(all))
      Of(live) == By(Len(live), WithMeta(t, live \o Chain(t, t.free)))
  IN  Of(Live(t, Below(t, P_ROOT)))
=============================================================================
