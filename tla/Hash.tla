-------------------------------- MODULE Hash --------------------------------
(* The hash access method: hash.c, hash_page.c and hash_bigkey.c of db/hash, and *)
(* what hash_buf.c does to a page it evicts. The table grows by linear hashing; *)
(* a bucket is a chain of pages, a pair too large for a page has pages of its   *)
(* own, and overflow pages are addressed by split point and found free in bit   *)
(* maps. Sizes count bytes, with SHORT for sizeof(u_int16_t); a datum is its    *)
(* size, and keys are told apart by their first byte.                          *)
EXTENDS Integers, Sequences, FiniteSets, SequencesExt, FiniteSetsExt

CONSTANTS
  BSIZE, SHORT,
  SPLITMASK, NCACHED,
  BITS_PER_MAP,    \* the bits of a word of a bit map
  MAPBITS,         \* BSIZE << BYTE_SHIFT: the bits of a bit map's page
  DEF_FFACTOR, MIN_FFACTOR,
  ksize,           \* the size of each key; the keys are numbers, and k hashes to k
  MaxDrift,        \* bound: how far NKEYS may fall behind, as squeeze_key() does not count
  Uses,            \* of tables: keys, data, whether there are so few buffers that pages
                   \* leave memory, and a bound, maxbuckets
  Flaws            \* see "Where the code fails"

VARIABLES
  use,             \* one of Uses
  table,           \* the HTAB
  recs             \* what it should hold: a function from some of the keys to Data

vars == <<table, recs, use>>

Keys == use.keys
Data == use.data
Evicts == use.evicts
\* Bound: a table that has grown so far is only read.
MaxBuckets == use.maxbuckets

log2(n) == CHOOSE i \in 0 .. n : 2 ^ i >= n /\ \A j \in 0 .. i - 1 : 2 ^ j < n

PAIRSIZE(k, d) == 2 * SHORT + k + d
\* A key below zero is one that is read back a byte too long, see putpair.
KSize(k) == IF k < 0 THEN ksize[-k] + 1 ELSE ksize[k]
BIGOVERHEAD == 4 * SHORT
OVFLSIZE == 2 * SHORT

\* A page: its pairs, the address of the page that follows (OVFLPAGE), the part of
\* a big pair it holds, FREESPACE, whether OFFSET is one short, and what the file
\* has in its place, unless BUF_MOD says that it will be written.
NoBig == [tag |-> "none", k |-> 0, ks |-> 0, ds |-> 0]
PAGE_INIT == [pairs |-> <<>>, next |-> 0, big |-> NoBig, free |-> BSIZE - 3 * SHORT,
              short |-> FALSE, mod |-> FALSE, disk |-> <<>>]
IsBig(p) == p.big # NoBig
Count(p) == 2 * Len(p.pairs) + (IF p.next # 0 THEN 2 ELSE 0) + (IF IsBig(p) THEN 2 ELSE 0)
\* bp[bp[0]] == OVFLPAGE; where key and data share a page its place has an offset.
EndsInOvfl(p) == p.next # 0 /\ ~(p.big.tag = "FULL_KEY_DATA" /\ p.big.ks > 0)
PAIRFITS(p, k, d) == ~IsBig(p) /\ ~(p.pairs = <<>> /\ p.next # 0)
                     /\ PAIRSIZE(k, d) + OVFLSIZE <= p.free

Bucket(b) == <<"bucket", b>>
Ovfl(a) == <<"ovfl", a>>
Modified(p) == [p EXCEPT !.mod = TRUE, !.disk = <<>>]
SetPage(t, r, p) == [t EXCEPT !.page = (r :> Modified(p)) @@ @]

-----------------------------------------------------------------------------
(* Overflow pages. A page is known by its split point and its number there.     *)

OADDR_OF(s, n) == s * (SPLITMASK + 1) + n
SPLITNUM(a) == a \div (SPLITMASK + 1)
OPAGENUM(a) == a % (SPLITMASK + 1)
Spares(t, s) == IF s < 0 THEN 0 ELSE t.spares[s]
HDRPAGES == 1
BUCKET_TO_PAGE(t, b) == b + HDRPAGES + (IF b = 0 THEN 0 ELSE t.spares[log2(b + 1) - 1])
OADDR_TO_PAGE(t, a) == BUCKET_TO_PAGE(t, 2 ^ SPLITNUM(a) - 1) + OPAGENUM(a)

\* __ibitmap(): a map with nbits clear bits but the first, its own page.
ibitmap(t, pnum, nbits, ndx) ==
  [t EXCEPT !.clear = @ \cup {ndx * MAPBITS + b : b \in 1 .. nbits - 1},
            !.bitmaps = Append(@, pnum)]

\* The first clear bit of the maps, from the word that has LAST_FREED on.
FirstFree(t) ==
  LET used == t.spares[t.ovfl_point] - 1
      from == (t.last_freed \div BITS_PER_MAP) * BITS_PER_MAP
      ok == {b \in t.clear : b >= from /\ (b \div BITS_PER_MAP) * BITS_PER_MAP <= used}
  IN  IF ok = {} THEN -1 ELSE Min(ok)

\* A new split point for pages that no longer have numbers at the old one.
NextSplit(t, offset, first) ==
  LET s == t.ovfl_point + 1
      n == t.spares[s - 1]
  IN  IF offset <= SPLITMASK THEN [t |-> t, offset |-> offset]
      ELSE [t |-> [t EXCEPT !.ovfl_point = s, !.spares[s] = n, !.spares[s - 1] = n - 1],
            offset |-> first]

\* overflow_page() when no bit is clear: one page more at the split point, or two
\* when the map is full and the first of them is a new map.
Addressed(n) == [t |-> n.t, addr |-> OADDR_OF(n.t.ovfl_point, n.offset)]
WithMap(n, used) ==
  LET s == n.t.ovfl_point
  IN  IF used % MAPBITS # MAPBITS - 1 THEN n
      ELSE NextSplit([ibitmap(n.t, OADDR_OF(s, n.offset), 1, used \div MAPBITS + 1)
                        EXCEPT !.spares[s] = @ + 1], n.offset + 1, 0)
NewOvflPage(t) ==
  LET s == t.ovfl_point
      t1 == [t EXCEPT !.last_freed = t.spares[s], !.spares[s] = @ + 1]
  IN  Addressed(WithMap(NextSplit(t1, t1.spares[s] - Spares(t1, s - 1), 1), t.spares[s] - 1))

\* overflow_page(), as long as it finds one.
overflow_page(t) ==
  LET b == FirstFree(t)
      n == b + 1
      s == Min({i \in 0 .. t.ovfl_point : i = t.ovfl_point \/ n <= t.spares[i]})
  IN  IF b = -1 THEN NewOvflPage(t)
      ELSE [t |-> [t EXCEPT !.clear = @ \ {b},
                            !.last_freed = IF n >= @ THEN n - 1 ELSE @],
            addr |-> OADDR_OF(s, n - Spares(t, s - 1))]

\* __free_ovflpage()
BitOf(t, a) == Spares(t, SPLITNUM(a) - 1) + OPAGENUM(a) - 1
free_ovflpage(t, a) ==
  [t EXCEPT !.clear = @ \cup {BitOf(t, a)},
            !.last_freed = IF BitOf(t, a) < @ THEN BitOf(t, a) ELSE @,
            !.page = [r \in DOMAIN @ \ {Ovfl(a)} |-> @[r]]]

\* __add_ovflpage(): a page after page r, which may fix the fill factor.
Linked(o, r, p) ==
  LET n == Count(p) \div 2
      t1 == [o.t EXCEPT !.ffactor = IF @ # DEF_FFACTOR THEN @
                                    ELSE IF n < MIN_FFACTOR THEN MIN_FFACTOR ELSE n]
      t2 == SetPage(t1, r, [p EXCEPT !.next = o.addr, !.free = @ - OVFLSIZE])
  IN  [t |-> SetPage(t2, Ovfl(o.addr), PAGE_INIT), r |-> Ovfl(o.addr)]
add_ovflpage(t, r) == Linked(overflow_page(t), r, t.page[r])

-----------------------------------------------------------------------------
(* Big pairs, hash_bigkey.c.                                                   *)

Least(a, b) == IF a < b THEN a ELSE b
Piece(tag, k, ks, ds) == [tag |-> tag, k |-> k, ks |-> ks, ds |-> ds]

\* __big_insert(): pages for the key; where it ends, as much of the datum as there
\* is room for; and pages for the rest of it.
RECURSIVE BigData(_, _, _, _, _)
BigData(t, r, k, left, d) ==
  LET p == t.page[r]
      space == p.free - BIGOVERHEAD
      n == IF space = left /\ left = d THEN left - 1 ELSE Least(space, left)
      q == [p EXCEPT !.big = Piece(IF left > n THEN "FULL_KEY" ELSE "FULL_KEY_DATA", k, 0, n),
                     !.free = @ - n - 2 * SHORT]
      More(a) == BigData(a.t, a.r, k, left - n, d)
  IN  IF left = 0 THEN t ELSE IF left = n THEN SetPage(t, r, q) ELSE More(add_ovflpage(SetPage(t, r, q), r))
RECURSIVE BigKey(_, _, _, _, _)
EndOfKey(a, r, k, n, d, q) ==
  LET m == Least(q.free, d)
      end == IF q.free = 0 THEN [q EXCEPT !.big.tag = "FULL_KEY"]
             ELSE [q EXCEPT !.big = Piece("FULL_KEY_DATA", k, n, m), !.free = @ - m]
  IN  BigData(SetPage(a.t, r, end), a.r, k, d - (IF q.free = 0 THEN 0 ELSE m), d)
BigKey(t, r, k, left, d) ==
  LET p == t.page[r]
      n == Least(p.free - BIGOVERHEAD, left)
      More(a) == IF left > n THEN BigKey(a.t, a.r, k, left - n, d)
                 ELSE EndOfKey(a, r, k, n, d, a.t.page[r])
  IN  More(add_ovflpage(SetPage(t, r, [p EXCEPT !.big = Piece("PARTIAL_KEY", k, n, 0),
                                                !.free = @ - n - 2 * SHORT]), r))
big_insert(t, r, k, d) == BigKey(t, r, k, ksize[k], d)

\* __find_last_page(): the last page of a big pair, and what follows it.
RECURSIVE find_last_page(_, _)
find_last_page(t, r) ==
  LET p == t.page[r]
  IN  IF p.big.tag = "FULL_KEY_DATA" /\ (Count(p) = 2 \/ EndsInOvfl(p) \/ p.free # 0) THEN r
      ELSE find_last_page(t, Ovfl(p.next))

\* collect_data() and __big_return(): -1 is what no datum is.
RECURSIVE collect_data(_, _)
collect_data(t, r) ==
  LET p == t.page[r]
  IN  IF ~IsBig(p) THEN -1
      ELSE IF p.big.tag = "FULL_KEY_DATA" THEN p.big.ds
      ELSE LET more == collect_data(t, Ovfl(p.next))
           IN  IF more < 0 THEN -1 ELSE p.big.ds + more
RECURSIVE big_return(_, _)
big_return(t, r) ==
  LET p == t.page[r]
      more == collect_data(t, Ovfl(p.next))
  IN  CASE p.big.tag = "PARTIAL_KEY" -> big_return(t, Ovfl(p.next))
        [] p.big.tag = "FULL_KEY" -> more
        [] OTHER -> IF p.free # 0 THEN p.big.ds ELSE IF more < 0 THEN -1 ELSE p.big.ds + more

\* A faulty __big_delete(): the last page of the pair is not freed.
RECURSIVE FreePieces(_, _, _)
FreePieces(t, r, last) ==
  LET t1 == free_ovflpage(t, r[2])
  IN  IF r = last THEN t1 ELSE FreePieces(t1, Ovfl(t.page[r].next), last)
big_deleteKeepsLast(t, r) ==
  LET last == find_last_page(t, r)
  IN  [SetPage(t, r, [PAGE_INIT EXCEPT !.next = t.page[last].next, !.short = TRUE,
                                       !.free = @ - (IF t.page[last].next = 0 THEN 0 ELSE OVFLSIZE)])
         EXCEPT !.nkeys = @ - 1]

\* __big_delete(): the first page of the pair stays in the chain, without a pair,
\* and the others are freed.
big_delete(t, r) ==
  LET last == find_last_page(t, r)
      next == t.page[last].next
      t1 == FreePieces(t, Ovfl(t.page[r].next), last)
  IN  [SetPage(t1, r, [PAGE_INIT EXCEPT !.next = next, !.short = TRUE,
                                        !.free = @ - (IF next = 0 THEN 0 ELSE OVFLSIZE)])
         EXCEPT !.nkeys = @ - 1]

-----------------------------------------------------------------------------
(* Pairs, and the split of a bucket, hash_page.c.                              *)

\* putpair(): on a page whose OFFSET is one short the first key is read back with
\* a byte too many, as another key.
putpair(t, r, k, d) ==
  LET p == t.page[r]
      odd == p.short /\ p.pairs = <<>>
  IN  SetPage(t, r, [p EXCEPT !.pairs = Append(@, [k |-> IF odd THEN -k ELSE k, d |-> d]),
                              !.free = @ - PAIRSIZE(KSize(k), d) - (IF odd THEN 1 ELSE 0)])
\* squeeze_key(): the pair goes before the entry for the next page. Nothing marks
\* the page as modified.
squeeze_key(t, r, k, d) ==
  LET p == t.page[r]
      q == [p EXCEPT !.pairs = Append(@, [k |-> k, d |-> d]),
                     !.free = @ - PAIRSIZE(ksize[k], d),
                     !.disk = IF p.mod THEN <<>> ELSE IF @ = <<>> THEN <<p>> ELSE @]
  IN  [t EXCEPT !.page[r] = q]

\* __delpair()
delpair(t, r, i) ==
  LET p == t.page[r]
      q == p.pairs[i]
  IN  IF i = 0 THEN big_delete(t, r)
      ELSE [SetPage(t, r, [p EXCEPT !.pairs = RemoveAt(@, i),
                                    !.free = @ + PAIRSIZE(KSize(q.k), q.d),
                                    !.short = @ /\ i # 1])
              EXCEPT !.nkeys = @ - 1]

\* A faulty __call_hash(): the last bucket is taken for one not made yet.
call_hashShort(t, k) ==
  LET b == k % (t.high_mask + 1)
  IN  IF b >= t.max_bucket THEN b % (t.low_mask + 1) ELSE b

\* __call_hash(), with the masks of the doubling the table is in.
call_hash(t, k) ==
  LET b == k % (t.high_mask + 1)
  IN  IF b > t.max_bucket THEN b % (t.low_mask + 1) ELSE b

Placed(a, k, d) == [a EXCEPT !.t = putpair(a.t, a.r, k, d)]
Place(t, r, k, d) ==
  Placed(IF PAIRFITS(t.page[r], KSize(k), d) THEN [t |-> t, r |-> r] ELSE add_ovflpage(t, r), k, d)

\* The state of a split: the table, the last pages of the old and the new bucket,
\* and the overflow page whose pairs are being moved, 0 if it may not be freed.
Moved(s, q, ob) ==
  LET old == call_hash(s.t, q.k) = ob
      To(m) == IF old THEN [s EXCEPT !.t = m.t, !.old = m.r] ELSE [s EXCEPT !.t = m.t, !.new = m.r]
  IN  To(Place(s.t, IF old THEN s.old ELSE s.new, q.k, q.d))

FreeLast(s) == IF s.last = 0 THEN s ELSE [s EXCEPT !.t = free_ovflpage(@, s.last), !.last = 0]

\* __big_split(): the bucket that big pair r belongs to gets its pages, and an
\* empty page after them if it had a successor.
big_split(s, r, ob) ==
  LET change == call_hash(s.t, s.t.page[r].big.k) # ob
      to == IF change THEN s.new ELSE s.old
      last == find_last_page(s.t, r)
      next == s.t.page[last].next
      p == s.t.page[to]
      t1 == SetPage(s.t, to, [p EXCEPT !.next = r[2], !.free = @ - OVFLSIZE])
      l == t1.page[last]
      To(e) == [s EXCEPT !.t = e.t, !.last = next,
                         !.new = IF change THEN e.r ELSE @, !.old = IF change THEN @ ELSE e.r]
  IN  To(IF next = 0 THEN [t |-> SetPage(t1, last, l), r |-> last]
         ELSE add_ovflpage(SetPage(t1, last, [l EXCEPT !.next = 0, !.free = @ + OVFLSIZE]), last))

\* ugly_split(): along the chain from page a, 0 at its end.
RECURSIVE ugly_split(_, _, _)
ugly_split(s, a, ob) ==
  LET p == s.t.page[Ovfl(a)]
      After(b) == ugly_split([b EXCEPT !.last = 0], b.last, ob)
      s1 == [FreeLast(s) EXCEPT !.last = a]
      s2 == FoldLeft(LAMBDA x, q : Moved(x, q, ob), s1, p.pairs)
  IN  IF a = 0 THEN FreeLast(s).t
      ELSE IF IsBig(p) THEN After(big_split(FreeLast(s), Ovfl(a), ob))
      ELSE ugly_split(s2, p.next, ob)

\* __split_page(): what stays on the page of the old bucket, what moves to the
\* new one, and then the overflow pages.
split_page(t, ob, nb) ==
  LET p == t.page[Bucket(ob)]
      Stays(q) == call_hash(t, q.k) = ob
      gone == SelectSeq(p.pairs, LAMBDA q : ~Stays(q))
      Size(qs) == FoldLeft(LAMBDA n, q : n + PAIRSIZE(KSize(q.k), q.d), 0, qs)
      t1 == SetPage(t, Bucket(ob),
                    [p EXCEPT !.pairs = SelectSeq(@, Stays), !.next = 0,
                              !.free = @ + Size(gone) + (IF p.next = 0 THEN 0 ELSE OVFLSIZE)])
      t2 == SetPage(t1, Bucket(nb), [PAGE_INIT EXCEPT !.pairs = gone, !.free = @ - Size(gone)])
  IN  ugly_split([t |-> t2, old |-> Bucket(ob), new |-> Bucket(nb), last |-> 0], p.next, ob)

\* __expand_table(). A bucket is split before the masks change, as its number was
\* worked out.
expand_table(t) ==
  LET nb == t.max_bucket + 1
      s == log2(nb + 1)
      t1 == IF s <= t.ovfl_point THEN t
            ELSE [t EXCEPT !.spares[s] = t.spares[t.ovfl_point], !.ovfl_point = s]
      t2 == IF nb <= t.high_mask THEN t1
            ELSE [t1 EXCEPT !.low_mask = t.high_mask, !.high_mask = 2 ^ s - 1]
  IN  split_page([t2 EXCEPT !.max_bucket = nb], nb % (t.low_mask + 1), nb)

\* __addel(): from page r on, the first page that can take the pair.
OnNewPage(a, k, d) == IF PAIRFITS(a.t.page[a.r], ksize[k], d) THEN putpair(a.t, a.r, k, d)
                      ELSE big_insert(a.t, a.r, k, d)
Counted(t, grow) ==
  IF grow \/ (t.nkeys + 1) \div (t.max_bucket + 1) > t.ffactor
  THEN expand_table([t EXCEPT !.nkeys = @ + 1]) ELSE [t EXCEPT !.nkeys = @ + 1]
Added(t, r, k, d) ==
  LET fits == PAIRFITS(t.page[r], ksize[k], d)
  IN  Counted(IF fits THEN putpair(t, r, k, d) ELSE OnNewPage(add_ovflpage(t, r), k, d), ~fits)
RECURSIVE addel(_, _, _, _)
addel(t, r, k, d) ==
  LET p == t.page[r]
      last == Count(p) = 0 \/ (~IsBig(p) /\ p.next = 0) \/ (p.big.tag = "FULL_KEY_DATA" /\ Count(p) = 2)
  IN  IF last THEN Added(t, r, k, d)
      ELSE IF EndsInOvfl(p) /\ p.free > PAIRSIZE(ksize[k], d) THEN squeeze_key(t, r, k, d)
      ELSE addel(t, Ovfl(p.next), k, d)

-----------------------------------------------------------------------------
(* The calls, hash.c.                                                          *)

\* The search of hash_access(), from page r on: the page and the index of the pair,
\* 0 for a big one, or the page where the chain ends.
RECURSIVE Search(_, _, _)
Search(t, r, k) ==
  LET p == t.page[r]
      at == {i \in DOMAIN p.pairs : p.pairs[i].k = k}
      last == find_last_page(t, r)
      l == t.page[last]
      Missed(q) == [found |-> FALSE, r |-> q, i |-> 0]
  IN  IF IsBig(p)
        THEN IF p.big.k = k THEN [found |-> TRUE, r |-> r, i |-> 0]
             ELSE IF Count(l) = 2 \/ l.pairs # <<>> THEN Missed(last)
             ELSE Search(t, Ovfl(l.next), k)
      ELSE IF at # {} THEN [found |-> TRUE, r |-> r, i |-> Min(at)]
      ELSE IF p.next # 0 THEN Search(t, Ovfl(p.next), k)
      ELSE Missed(r)

Find(t, k) == Search(t, Bucket(call_hash(t, k)), k)

\* hash_get(): the datum, or -1.
hash_get(t, k) ==
  LET f == Find(t, k)
  IN  IF ~f.found THEN -1
      ELSE IF f.i = 0 THEN big_return(t, f.r) ELSE t.page[f.r].pairs[f.i].d

\* hash_put(): a pair that is there is deleted, and added from its page on.
hash_put(t, k, d) ==
  LET f == Find(t, k)
  IN  addel(IF f.found THEN delpair(t, f.r, f.i) ELSE t, f.r, k, d)

\* hash_seq() with R_FIRST and then R_NEXT to the end: the pairs it returns from
\* page r of bucket b, index i.
Beyond(t, b) == {c \in b .. t.max_bucket : Count(t.page[Bucket(c)]) # 0}
RECURSIVE Seq1(_, _, _, _)
NextBucket(t, b) ==
  IF Beyond(t, b) = {} THEN <<>> ELSE Seq1(t, Min(Beyond(t, b)), Bucket(Min(Beyond(t, b))), 1)
Seq1(t, b, r, i) ==
  LET p == t.page[r]
      last == find_last_page(t, r)
      l == t.page[last]
  IN  IF Count(p) = 0 THEN NextBucket(t, b + 1)
      ELSE IF IsBig(p)
        THEN <<<<p.big.k, big_return(t, r)>>>>
             \o (IF Count(l) = 2 \/ Count(t.page[Ovfl(l.next)]) = 0 THEN NextBucket(t, b + 1)
                 ELSE Seq1(t, b, Ovfl(l.next), 1))
      ELSE IF i <= Len(p.pairs)
        THEN <<<<p.pairs[i].k, p.pairs[i].d>>>>
             \o (IF 2 * i + 1 > Count(p) THEN NextBucket(t, b + 1) ELSE Seq1(t, b, r, i + 1))
      ELSE Seq1(t, b, Ovfl(p.next), 1)
hash_seq(t) == NextBucket(t, 0)

\* The pages that leave memory with page r: those that follow it.
RECURSIVE ChainFrom(_, _)
ChainFrom(t, r) ==
  {r} \cup IF t.page[r].next = 0 THEN {} ELSE ChainFrom(t, Ovfl(t.page[r].next))
\* A page is written if BUF_MOD is set, and read back later.
Flushed(p) == IF p.mod \/ p.disk = <<>> THEN [p EXCEPT !.mod = FALSE, !.disk = <<>>] ELSE p.disk[1]
Dropped(t, rs) == [t EXCEPT !.page = [r \in DOMAIN @ |-> IF r \in rs THEN Flushed(@[r]) ELSE @[r]]]

-----------------------------------------------------------------------------
(* Where the code fails.                                                       *)

\* A pair put on the page that a deleted big pair leaves.
NoOddKey(t) == \A r \in DOMAIN t.page : \A i \in DOMAIN t.page[r].pairs : t.page[r].pairs[i].k >= 0
\* A datum that fills the page its key ends on: the next page is taken for more.
NoExactFit(t) ==
  \A r \in DOMAIN t.page :
    LET p == t.page[r]
    IN  p.big.tag = "FULL_KEY_DATA" /\ p.big.ks > 0 /\ p.free = 0 => IsBig(t.page[Ovfl(p.next)])
\* A pair squeezed on a page of a big one.
NoMixedPage(t) == \A r \in DOMAIN t.page : IsBig(t.page[r]) => t.page[r].pairs = <<>>
\* A page changed that is not marked as modified.
NoLostPage(t) == \A r \in DOMAIN t.page : t.page[r].disk = <<>>
Fails(flaw, safe) == flaw \notin Flaws => safe

-----------------------------------------------------------------------------

\* init_htab() for nelem elements.
init_htab(nelem) ==
  LET n == (nelem - 1) \div DEF_FFACTOR + 1
      l2 == log2(IF n < 2 THEN 2 ELSE n)
      nb == 2 ^ l2
      none == [max_bucket |-> nb - 1, low_mask |-> nb - 1, high_mask |-> 2 * nb - 1,
               ovfl_point |-> l2, last_freed |-> 2,
               spares |-> [s \in 0 .. NCACHED |-> IF s \in l2 .. l2 + 1 THEN l2 + 1 ELSE 0],
               clear |-> {}, bitmaps |-> <<>>, nkeys |-> 0, ffactor |-> DEF_FFACTOR,
               page |-> [r \in {Bucket(b) : b \in 0 .. nb - 1} |-> PAGE_INIT]]
  IN  ibitmap(none, OADDR_OF(l2, 1), l2 + 1, 0)

Init == table = init_htab(1) /\ recs = <<>> /\ use \in Uses

Put(k, d) ==
  \E t \in {hash_put(table, k, d)} :
     /\ t.max_bucket < MaxBuckets
     /\ t.nkeys + MaxDrift >= Cardinality(DOMAIN recs \cup {k})
     /\ Fails("short", NoOddKey(t)) /\ Fails("exact", NoExactFit(t))
     /\ Fails("mixed", NoMixedPage(t)) /\ Fails("modified", NoLostPage(t))
     /\ table' = t
     /\ recs' = (k :> d) @@ recs
     /\ UNCHANGED use
\* R_NOOVERWRITE changes nothing when the key is there.
PutNew(k, d) == ~Find(table, k).found /\ Put(k, d)
Delete(k) ==
  \E f \in {Find(table, k)} :
     /\ f.found
     /\ table' = delpair(table, f.r, f.i)
     /\ recs' = [j \in DOMAIN recs \ {k} |-> recs[j]]
     /\ UNCHANGED use
\* newbuf() takes the buffer of page r.
Evict(r) == table' = Dropped(table, ChainFrom(table, r)) /\ UNCHANGED <<recs, use>>
\* hash_close() and __hash_open() of the file again.
Reopen == table' = Dropped(table, DOMAIN table.page) /\ UNCHANGED <<recs, use>>

Next ==
  \/ \E k \in Keys, d \in Data : Put(k, d) \/ PutNew(k, d)
  \/ \E k \in Keys : Delete(k)
  \/ Evicts /\ \E r \in DOMAIN table.page : Evict(r)
  \/ Evicts /\ Reopen

Spec == Init /\ [][Next]_vars

-----------------------------------------------------------------------------

\* A get of every key, and a scan from the first pair to the last, return what was
\* put and not deleted since: through overflow pages, big pairs, the splits of
\* __expand_table() and pages that are written and read back.
TableAgrees ==
  /\ \A k \in Keys : hash_get(table, k) = IF k \in DOMAIN recs THEN recs[k] ELSE -1
  /\ LET s == hash_seq(table)
     IN  /\ Len(s) = Cardinality(DOMAIN recs)
         /\ \A k \in DOMAIN recs : \E i \in DOMAIN s : s[i] = <<k, recs[k]>>

\* Every page has its own place in the file, and every overflow page is in one
\* chain: the addresses overflow_page() gives out, those of the bit maps and the
\* buckets, of which __expand_table() puts more in between, do not meet, and a
\* page that is in use is not free in the bit maps.
PagesHaveOnePlace ==
  LET ovfl == {r[2] : r \in {x \in DOMAIN table.page : x[1] = "ovfl"}}
      maps == ToSet(table.bitmaps)
      all == [b \in 0 .. table.max_bucket |-> BUCKET_TO_PAGE(table, b)]
      Chained(a) == {r \in DOMAIN table.page : table.page[r].next = a}
  IN  /\ \A b, c \in DOMAIN all : b # c => all[b] # all[c]
      /\ \A a \in ovfl \cup maps :
           /\ \A b \in DOMAIN all : all[b] # OADDR_TO_PAGE(table, a)
           /\ \A c \in ovfl \cup maps : c # a => OADDR_TO_PAGE(table, a) # OADDR_TO_PAGE(table, c)
           /\ BitOf(table, a) \notin table.clear
      /\ ovfl \cap maps = {}
      /\ \A a \in ovfl : Cardinality(Chained(a)) = 1
=============================================================================
