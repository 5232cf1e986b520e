-------------------------------- MODULE Recno -------------------------------
(* The recno access method, db/recno/rec_*.c: records by number, over the pages *)
(* of module BtPages and, if there is one, a file that is read as far as it is *)
(* asked for and written back by a sync. Internal pages count the records      *)
(* below each entry. Records are numbers, told apart by size.                  *)
EXTENDS BtPages, FiniteSets

CONSTANTS
  Data,
  Empty,           \* the record that fills a gap
  Uses,            \* of databases, see below
  Flaws            \* see "Where the code fails"

VARIABLES
  use,             \* one of Uses
  tree,            \* the BTREE; its cursor's index is rcursor
  rest,            \* the records of the file not read yet
  eof,             \* R_EOF
  modified,        \* R_MODIFIED
  source,          \* bt_irec, one of use.sources
  file,            \* what the file holds
  done,            \* the last put did what it is asked to do
  recs             \* the records, in order, as the leaves have them

vars == <<tree, rest, eof, modified, source, file, done, recs, use>>

\* Bounds: no more records than this, nor more pages, as empty ones are kept.
MaxRecs == use.maxrecs
MaxPages == use.maxpages
\* What the file may hold at first, and how it is read, "none" for R_INMEM.
Files == use.files
Sources == use.sources

\* __rec_search(): down to the page of record recno, counting on the way. A count
\* that fell below zero is a large unsigned number.
RECURSIVE EntryFor(_, _, _, _)
EntryFor(h, recno, index, total) ==
  LET n == At(h, index).cnt
  IN  IF index + 1 = NEXTINDEX(h) \/ total + n > recno \/ total + n < 0
        THEN [index |-> index, total |-> total]
        ELSE EntryFor(h, recno, index + 1, total + n)
RECURSIVE rec_down(_, _, _, _, _)
Through(t, pg, recno, op, e) ==
  LET change == CASE op = "SDELETE" -> -1 [] op = "SINSERT" -> 1 [] OTHER -> 0
  IN  rec_down([t EXCEPT !.sp = Append(@, [pg |-> pg, index |-> e.index]),
                         !.page[pg].items[e.index + 1].cnt = @ + change],
               At(t.page[pg], e.index).pg, recno, e.total, op)
rec_down(t, pg, recno, total, op) ==
  IF t.page[pg].type = "rleaf" THEN [t |-> t, pg |-> pg, index |-> recno - total]
  ELSE Through(t, pg, recno, op, EntryFor(t.page[pg], recno, 0, total))
\* A faulty __rec_search(): a record put in between is not counted.
rec_searchUncounted(t, recno, op) ==
  rec_down([t EXCEPT !.sp = <<>>], P_ROOT, recno, 0, IF op = "SINSERT" THEN "SEARCH" ELSE op)
rec_search(t, recno, op) == rec_down([t EXCEPT !.sp = <<>>], P_ROOT, recno, 0, op)

\* __rec_dleaf()
rec_dleaf(t, pg, index) ==
  LET i == At(t.page[pg], index)
      t1 == IF i.bigd # 0 THEN ovfl_delete(t, i.bigd, i.k) ELSE t
  IN  [t1 EXCEPT !.page[pg].items = RemoveAt(@, index + 1), !.nrecs = @ - 1]

\* An item of a recno leaf; k is the size of a record on overflow pages.
Stored(t, d) ==
  LET o == ovfl_put(t, d, d)
  IN  IF d > bt_ovflsize
        THEN [t |-> o.t, item |-> [Item(d, 0, NRLEAFDBT(NOVFLSIZE)) EXCEPT !.bigd = o.pg]]
        ELSE [t |-> t, item |-> Item(0, d, NRLEAFDBT(d))]

\* __rec_iput(): record nrec, counted from 0, is replaced, or one is inserted.
Insert(t, pg, index, item) ==
  [(IF NoRoom(t.page[pg], item.n) THEN bt_split(t, pg, item, index)
    ELSE SetItems(t, pg, InsertAt(t.page[pg].items, index + 1, item))) EXCEPT !.nrecs = @ + 1]
Inserts(flags) == flags \in {"R_IAFTER", "R_IBEFORE"}
Replace(e, index, nrec, item, flags) ==
  Insert(IF ~Inserts(flags) /\ nrec < e.t.nrecs THEN rec_dleaf(e.t, e.pg, index) ELSE e.t,
         e.pg, index, item)
PutAt(e, nrec, item, flags) ==
  Replace(e, IF flags = "R_IAFTER" THEN e.index + 1 ELSE e.index, nrec, item, flags)
PutStored(s, nrec, flags) ==
  PutAt(rec_search(s.t, nrec, IF nrec > s.t.nrecs \/ Inserts(flags) THEN "SINSERT" ELSE "SEARCH"),
        nrec, s.item, flags)
rec_iput(t, nrec, d, flags) == PutStored(Stored(t, d), nrec, flags)

RECURSIVE Appended(_, _)
Appended(t, ds) ==
  IF ds = <<>> THEN t ELSE Appended(rec_iput(t, t.nrecs, Head(ds), ""), Tail(ds))

-----------------------------------------------------------------------------
(* bt_irec reads the file until there are top records: MMAP_NOT_AVAILABLE is    *)
(* not defined, so every file is read as a pipe is.                            *)

Min2(a, b) == IF a < b THEN a ELSE b

\* Whether __rec_vpipe() stops at the last record because nothing ends it.
Unended(new) == source = "vpipe_unended" /\ new # <<>> /\ Len(new) = Len(rest)

\* __rec_fpipe() and __rec_vpipe(). At the end of the file __rec_fpipe() makes a
\* record of pad bytes out of nothing.
Irec(t, top) ==
  LET new == SubSeq(rest, 1, Min2(Len(rest), top - t.nrecs))
      short == t.nrecs + Len(new) < top
      pad == IF short /\ source = "fpipe" THEN <<Empty>> ELSE <<>>
      After(t1) == [t |-> t1, rest |-> SubSeq(rest, Len(new) + 1, Len(rest)),
                    eof |-> IF source = "fpipe" THEN t1.nrecs < top ELSE short \/ Unended(new),
                    pads |-> pad # <<>>,
                    ok |-> t1.nrecs >= top /\ ~Unended(new)]
  IN  IF eof \/ top <= t.nrecs
        THEN [t |-> t, rest |-> rest, eof |-> eof, pads |-> FALSE, ok |-> top <= t.nrecs]
        ELSE After(Appended(t, new \o pad))

MAX_REC_NUMBER == MaxRecs + Len(rest) + 1

\* What the leaves hold, from left to right.
Records(t) ==
  LET leaves == Below(t, P_ROOT)
      Of(i) == IF i.bigd # 0 THEN ovfl_get(t, i.bigd) ELSE i.d
  IN  FlattenSeq([n \in 1 .. Len(leaves) |->
                    [i \in 1 .. NEXTINDEX(t.page[leaves[n]]) |-> Of(t.page[leaves[n]].items[i])]])

Init ==
  /\ use \in Uses
  /\ tree = NewTree("rleaf")
  /\ file \in Files /\ rest = file
  /\ source \in Sources
  /\ source = "none" => file = <<>>
  /\ eof = (file = <<>>) /\ modified = FALSE /\ done = TRUE /\ recs = <<>>

-----------------------------------------------------------------------------
(* Where the code fails.                                                       *)

\* The cursor's number is that of a record. It need not be: deleting by the cursor
\* takes one off it, other deletions leave it, and a sync marks it as set.
CursorOnRecord == tree.cursor.index \in 1 .. tree.nrecs
\* R_IAFTER of the number after the last one leaves a gap on the page.
AfterRecord(n) == n <= tree.nrecs
\* R_NOOVERWRITE asks for the record in the tree only, before the file is read.
NotInFile(n) == n > tree.nrecs + Len(rest)
Fails(flaw, safe) == flaw \notin Flaws => safe

\* The count of the last entry of a page is never read: appending a record does
\* not add to it, and a split counts again. Here it is wrong on purpose.
Uncounted(h) ==
  IF h.type # "rinternal" THEN h ELSE [h EXCEPT !.items[NEXTINDEX(h)].cnt = -MaxRecs]

\* Nor does __rec_fpipe() get to the end of the file.
Becomes(r) ==
  /\ Fails("end", ~r.pads)
  /\ tree' = Settled([r.t EXCEPT !.page = [p \in DOMAIN @ |-> Uncounted(@[p])]], {})
  /\ Len(tree'.page) <= MaxPages
  /\ rest' = r.rest /\ eof' = r.eof
  /\ UNCHANGED <<source, use>>
  /\ recs' = Records(tree')

-----------------------------------------------------------------------------
(* The calls.                                                                  *)

\* What __rec_ret() returns for record n.
Got(t, n) ==
  LET e == rec_search(t, n - 1, "SEARCH")
      i == At(t.page[e.pg], e.index)
  IN  IF i.bigd # 0 THEN ovfl_get(t, i.bigd) ELSE i.d

\* __rec_put() of record n, counted from 1; what is missing before it is made.
Filled(t, nrec) == Appended(t, [i \in 1 .. nrec - 1 - t.nrecs |-> Empty])
rec_put(n, d, flags) ==
  LET nrec == IF flags = "R_CURSOR" THEN tree.cursor.index
              ELSE IF flags = "R_IAFTER" /\ n = 0 THEN 1 ELSE n
      how == IF flags = "R_IAFTER" /\ n = 0 THEN "R_IBEFORE" ELSE flags
      Done(t) == IF flags = "R_SETCURSOR" THEN [t EXCEPT !.cursor.index = nrec] ELSE t
  IN  /\ flags = "R_CURSOR" => tree.cursor.init
      /\ nrec > 0
      /\ flags = "R_NOOVERWRITE" => nrec > tree.nrecs
      /\ nrec <= MaxRecs /\ (how \in {"R_IAFTER", "R_IBEFORE"} => tree.nrecs + Len(rest) < MaxRecs)
      /\ flags = "R_IAFTER" => Fails("after", AfterRecord(n))
      /\ flags = "R_NOOVERWRITE" => Fails("unread", NotInFile(n))
      /\ flags = "R_CURSOR" => Fails("wild", CursorOnRecord)
      /\ \E r \in {Irec(tree, nrec)} :
            Becomes([r EXCEPT !.t = Done(rec_iput(Filled(@, nrec), nrec - 1, d, how))])
      /\ modified' = TRUE
      /\ done' = (/\ Got(tree', IF how = "R_IAFTER" THEN nrec + 1 ELSE nrec) = d
                  /\ flags = "R_NOOVERWRITE" => nrec > Len(recs \o rest))
      /\ UNCHANGED file

rec_rdelete(t, nrec) ==
  LET e == rec_search(t, nrec, "SDELETE") IN rec_dleaf(e.t, e.pg, e.index)

Same(t) == [t |-> t, rest |-> rest, eof |-> eof, pads |-> FALSE, ok |-> TRUE]

rec_delete(n) ==
  /\ n \in 1 .. tree.nrecs
  /\ Becomes(Same(rec_rdelete(tree, n - 1)))
  /\ modified' = TRUE
  /\ UNCHANGED <<file, done>>

DeleteAtCursor ==
  /\ tree.cursor.init /\ tree.nrecs # 0
  /\ Fails("wild", CursorOnRecord)
  /\ Becomes(Same([rec_rdelete(tree, tree.cursor.index - 1) EXCEPT !.cursor.index = @ - 1]))
  /\ modified' = TRUE
  /\ UNCHANGED <<file, done>>

\* __rec_get() reads the file up to the record, and returns what it finds there.
\* Of a record before the end of a pipe that nothing terminates it says that it
\* is not there, once it has read it.
rec_get(n) ==
  /\ n <= MaxRecs
  /\ Becomes(Irec(tree, n))
  /\ UNCHANGED <<file, modified, done>>

\* __rec_seq()
rec_seq(n, flags) ==
  LET c == tree.cursor
      last == flags = "R_LAST" \/ (flags = "R_PREV" /\ ~c.init)
      to == CASE last -> MAX_REC_NUMBER
              [] flags = "R_CURSOR" -> n
              [] flags = "R_NEXT" /\ c.init -> c.index + 1
              [] flags = "R_PREV" /\ c.init -> IF c.index = 0 THEN MAX_REC_NUMBER ELSE c.index - 1
              [] OTHER -> 1
      Place(r, nrec) == [r EXCEPT !.t = IF (r.ok \/ last) /\ nrec \in 1 .. r.t.nrecs
                                          THEN [r.t EXCEPT !.cursor.init = TRUE, !.cursor.index = nrec]
                                          ELSE r.t]
      Seen(r) == Place(r, IF last THEN r.t.nrecs ELSE to)
  IN  /\ to \in 1 .. MaxRecs \cup {MAX_REC_NUMBER}
      /\ Becomes(Seen(Irec(tree, to)))
      /\ UNCHANGED <<file, modified, done>>

\* A faulty __rec_sync(): what was not read of the file is not read.
rec_syncUnread ==
  LET n == tree.nrecs
  IN  /\ source # "none" /\ modified
      /\ file' = [i \in 1 .. n |-> Got(tree, i)]
      /\ Becomes([Same(tree) EXCEPT !.t.cursor.init = @ \/ n > 0])
      /\ modified' = FALSE
      /\ UNCHANGED done

\* __rec_sync(): the rest of the file is read, and the records written from the
\* first to the last; the scan for it marks the cursor as set.
rec_sync ==
  /\ source # "none" /\ modified
  /\ \E r \in {Irec(tree, MAX_REC_NUMBER)} :
        /\ file' = [i \in 1 .. r.t.nrecs |-> Got(r.t, i)]
        /\ Becomes([r EXCEPT !.t.cursor.init = @ \/ r.t.nrecs > 0])
  /\ modified' = FALSE
  /\ UNCHANGED done

Next ==
  \/ \E n \in 0 .. MaxRecs, d \in Data,
        flags \in {"", "R_IBEFORE", "R_IAFTER", "R_NOOVERWRITE", "R_SETCURSOR"} :
       rec_put(n, d, flags)
  \/ \E d \in Data : rec_put(0, d, "R_CURSOR")
  \/ \E n \in 1 .. MaxRecs : rec_delete(n)
  \/ DeleteAtCursor
  \/ \E n \in 1 .. MaxRecs : rec_get(n)
  \/ \E flags \in {"R_FIRST", "R_LAST", "R_NEXT", "R_PREV"} : rec_seq(0, flags)
  \/ \E n \in 1 .. MaxRecs : rec_seq(n, "R_CURSOR")
  \/ rec_sync

List == INSTANCE RecordList WITH list <- recs \o rest, MaxRecs <- Max({u.maxrecs : u \in Uses})

\* Every number finds its record: the counts __rec_search() adds up on its way
\* down, and that puts, deletes and splits keep, lead to the page and the place
\* on it; and a put leaves its record under its number.
NumbersFindRecords ==
  /\ done
  /\ tree.nrecs = Len(recs)
  /\ \A n \in 1 .. Len(recs) : Got(tree, n) = recs[n]

Spec == Init /\ [][Next]_vars

\* The records of the tree and those of the file not read yet are the list of
\* dbopen.3, and __rec_sync() writes that list to the file.
ImplementsList == List!Spec
=============================================================================
