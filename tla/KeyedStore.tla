----------------------------- MODULE KeyedStore -----------------------------
(* What the access methods with keys promise (man/man3/dbopen.3): a set of     *)
(* key/data pairs, in the order of the keys, and one cursor.                   *)
EXTENDS Integers, FiniteSets

CONSTANTS
  Ordered,         \* seq goes by key
  Keys, Data

VARIABLES
  dup,             \* a key may have several records
  recs,            \* a set of <<key, data>>
  cur              \* the key of the cursor's record and whether that is gone

NoCur == [k |-> 0, gone |-> FALSE]
Of(k) == {r \in recs : r[1] = k}
Has(k) == Of(k) # {}

Init == recs = {} /\ cur = NoCur /\ dup \in BOOLEAN

\* The cursor's record is gone when its key was deleted or written over. Where
\* records of one key have no order nothing is said about the cursor.
Lost(k) == cur' = IF cur.k = k THEN [cur EXCEPT !.gone = TRUE] ELSE cur
CurFree == dup \/ ~Ordered

Put(k, d) ==
  /\ recs' = (IF dup THEN recs ELSE recs \ Of(k)) \cup {<<k, d>>}
  /\ CurFree \/ IF Has(k) THEN Lost(k) ELSE cur' = cur

\* R_NOOVERWRITE
PutNew(k, d) ==
  /\ ~Has(k)
  /\ recs' = recs \cup {<<k, d>>}
  /\ CurFree \/ cur' = cur

\* R_CURSOR: the cursor's record is replaced, and counts as deleted after it.
PutAtCursor(k, d) ==
  /\ cur.k = k /\ ~cur.gone
  /\ \E r \in Of(k) : recs' = (recs \ {r}) \cup {<<k, d>>}
  /\ CurFree \/ Lost(k)

Delete(k) ==
  /\ recs' = recs \ Of(k)
  /\ CurFree \/ IF Has(k) THEN Lost(k) ELSE cur' = cur

DeleteAtCursor ==
  /\ cur.k # 0 /\ ~cur.gone
  /\ \E r \in Of(cur.k) : recs' = recs \ {r}
  /\ CurFree \/ Lost(cur.k)

\* Where seq goes: nothing is skipped and nothing comes twice.
Above(k) == {r \in recs : r[1] > k}
Below(k) == {r \in recs : r[1] < k}
Least(S) == {r \in S : \A q \in S : r[1] <= q[1]}
Greatest(S) == {r \in S : \A q \in S : r[1] >= q[1]}
Candidates(k, flags) ==
  CASE flags = "R_CURSOR" -> Least(Above(k - 1))
    [] flags = "R_FIRST" \/ (flags = "R_NEXT" /\ cur.k = 0) -> Least(recs)
    [] flags = "R_LAST" \/ (flags = "R_PREV" /\ cur.k = 0) -> Greatest(recs)
    [] cur.gone -> Least(Above(cur.k - 1))
    [] flags = "R_NEXT" -> Least(Above(cur.k))
    [] OTHER -> Greatest(Below(cur.k))
Seq(k, flags) ==
  /\ recs' = recs
  /\ CurFree \/ \E r \in Candidates(k, flags) : cur' = [k |-> r[1], gone |-> FALSE]

\* A file that is closed and opened again has its records.
Open ==
  /\ recs' = recs
  /\ CurFree \/ cur' = NoCur

Next ==
  \/ \E k \in Keys, d \in Data : Put(k, d) \/ PutNew(k, d) \/ PutAtCursor(k, d)
  \/ \E k \in Keys : Delete(k)
  \/ DeleteAtCursor
  \/ \E k \in Keys \cup {0},
        flags \in {"R_FIRST", "R_LAST", "R_NEXT", "R_PREV", "R_CURSOR"} : Seq(k, flags)
  \/ Open

Spec == Init /\ [][Next /\ UNCHANGED dup]_<<recs, cur, dup>>
=============================================================================
