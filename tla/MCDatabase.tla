----------------------------- MODULE MCDatabase -----------------------------
(* The access methods of the database library and its buffer pool, each by     *)
(* itself on small databases.                                                  *)
EXTENDS Integers, Sequences

CONSTANTS Instances, Flaws

VARIABLES
  instance,        \* which of them it is
  btree, brecs, cur, bdone, buse,
  rtree, rest, eof, modified, source, rfile, rdone, rrecs, ruse,
  table, hrecs, huse,
  lru, npages, curcache, file, last, held, filters

bvars == <<btree, brecs, cur, bdone, buse>>
rvars == <<rtree, rest, eof, modified, source, rfile, rdone, rrecs, ruse>>
hvars == <<table, hrecs, huse>>
pvars == <<lru, npages, curcache, file, last, held, filters>>

AllCalls == {"", "R_NOOVERWRITE", "put_cursor", "del_cursor", "R_FIRST", "R_LAST", "R_NEXT",
             "R_PREV", "R_CURSOR"}
BtreeUses == {
  \* Three levels of pages.
  [dup |-> FALSE, pairs |-> {2, 4, 6, 8, 10} \X {1}, calls |-> {""}, dels |-> {2, 4, 6, 10}],
  \* All calls, and a record on overflow pages.
  [dup |-> FALSE, pairs |-> {<<2, 1>>, <<4, 1>>, <<6, 3>>}, calls |-> AllCalls,
   dels |-> {2, 4, 6}],
  \* The file is opened again.
  [dup |-> FALSE, pairs |-> {<<2, 1>>, <<6, 3>>}, calls |-> {"", "R_NEXT", "open"},
   dels |-> {2, 6}],
  \* Duplicates over several pages.
  [dup |-> TRUE, pairs |-> {<<2, 1>>, <<6, 1>>, <<4, 0>>, <<4, 1>>, <<4, 2>>},
   calls |-> {"", "R_NOOVERWRITE"}, dels |-> {2, 4, 6}]}
B == INSTANCE Btree WITH
       FULL <- 9, INDX <- 1, NOVFLSIZE <- 1, bt_ovflsize <- 2, NRINTERNAL <- 2,
       Uses <- BtreeUses, BigKeys <- {}, use <- buse, tree <- btree, recs <- brecs, done <- bdone

RecnoUses == {
  [files |-> {<<>>}, sources |-> {"none"}, maxrecs |-> 4, maxpages |-> 4],
  [files |-> {<<1, 2>>}, sources |-> {"fpipe"}, maxrecs |-> 3, maxpages |-> 3],
  [files |-> {<<1, 2>>}, sources |-> {"vpipe_unended"}, maxrecs |-> 2, maxpages |-> 3]}
R == INSTANCE Recno WITH
       FULL <- 7, INDX <- 1, NOVFLSIZE <- 1, bt_ovflsize <- 1, NRINTERNAL <- 2,
       Data <- {1, 2}, Empty <- 0, Uses <- RecnoUses, use <- ruse, tree <- rtree,
       file <- rfile, done <- rdone, recs <- rrecs

\* Key 3 does not fit on a page.
KeySizes == [k \in {0, 1, 2, 3, 4, 8, 16, 24} |-> IF k = 3 THEN 20 ELSE 1]
HashUses == {
  [keys |-> {0, 1, 4}, data |-> {2, 15}, evicts |-> FALSE, maxbuckets |-> 5],
  [keys |-> {0, 4}, data |-> {2, 7, 15}, evicts |-> FALSE, maxbuckets |-> 5],
  [keys |-> {0, 2, 3}, data |-> {2, 8}, evicts |-> FALSE, maxbuckets |-> 5],
  [keys |-> {0, 2}, data |-> {2, 15}, evicts |-> TRUE, maxbuckets |-> 4]}
H == INSTANCE Hash WITH
       BSIZE <- 20, SHORT <- 1, SPLITMASK <- 15, NCACHED <- 6, BITS_PER_MAP <- 4, MAPBITS <- 8,
       DEF_FFACTOR <- 100, MIN_FFACTOR <- 2, ksize <- KeySizes, MaxDrift <- 1,
       Uses <- HashUses, use <- huse, recs <- hrecs

P == INSTANCE Mpool WITH maxcache <- 2, MaxPages <- 3, Values <- {1}

-----------------------------------------------------------------------------

BIdle == B!Init /\ buse = CHOOSE u \in BtreeUses : TRUE
RIdle == R!Init /\ ruse = (CHOOSE u \in RecnoUses : u.files = {<<>>})
HIdle == H!Init /\ huse = CHOOSE u \in HashUses : TRUE

MCInit ==
  /\ instance \in Instances
  /\ IF instance = "btree" THEN B!Init ELSE BIdle
  /\ IF instance = "recno" THEN R!Init ELSE RIdle
  /\ IF instance = "hash" THEN H!Init ELSE HIdle
  /\ P!Init
  /\ instance # "mpool" => filters

MCNext ==
  /\ UNCHANGED instance
  /\ \/ instance = "btree" /\ B!Next /\ UNCHANGED <<rvars, hvars, pvars>>
     \/ instance = "recno" /\ R!Next /\ UNCHANGED <<bvars, hvars, pvars>>
     \/ instance = "hash" /\ H!Next /\ UNCHANGED <<bvars, rvars, pvars>>
     \/ instance = "mpool" /\ P!Next /\ UNCHANGED <<bvars, rvars, hvars>>

MCSpec == MCInit /\ [][MCNext]_<<instance, bvars, rvars, hvars, pvars>>

-----------------------------------------------------------------------------
(* The properties of each: see its module.                                     *)

\* A page has one use: in the btree it is in the tree, in one overflow chain or
\* free (bt_page.c, bt_split.c, bt_overflow.c); in the hash table no two pages meet in
\* the file (hash_page.c); and a page of the pool is what was last written on it,
\* wherever it is kept (mpool.c).
PagesHaveOneUse ==
  /\ instance = "btree" => B!PagesHaveOneUse
  /\ instance = "hash" => H!PagesHaveOnePlace
  /\ instance = "mpool" => P!PoolIsTrue

\* What was put is found: gets and scans of a btree miss nothing (bt_search.c,
\* bt_seq.c), the counts on internal pages lead to the record of a number
\* (rec_search.c), and gets and scans of a hash table return what was put (hash.c,
\* hash_page.c, hash_bigkey.c).
RecordsAreFound ==
  /\ instance = "btree" => B!NothingIsMissed
  /\ instance = "recno" => R!NumbersFindRecords
  /\ instance = "hash" => H!TableAgrees

\* The records and the cursor are those of dbopen.3: a btree implements the keyed
\* store (bt_put.c, bt_delete.c), a recno file, with its text file, the list of
\* records (rec_put.c, rec_close.c).
ImplementsRecords == B!ImplementsStore /\ R!ImplementsList
=============================================================================
