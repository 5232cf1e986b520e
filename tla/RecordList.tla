------------------------------ MODULE RecordList ----------------------------
(* What a recno database promises (man/man3/dbopen.3): a list of records, known *)
(* by their number, and a file the list is written to.                         *)
EXTENDS Integers, Sequences, SequencesExt

CONSTANTS Data, Empty, MaxRecs

VARIABLES list, file

vars == <<list, file>>

\* The list, with empty records added up to n of them.
Filled(n) == list \o [i \in 1 .. n - Len(list) |-> Empty]

Put(n, d) == list' = [Filled(n) EXCEPT ![n] = d]
InsertBefore(n, d) == list' = InsertAt(Filled(n - 1), n, d)
InsertAfter(n, d) == n \in 0 .. Len(list) /\ list' = InsertAt(list, n + 1, d)
Delete(n) == n \in 1 .. Len(list) /\ list' = RemoveAt(list, n)
Sync == file' = list /\ UNCHANGED list

Next ==
  \/ \E n \in 1 .. MaxRecs, d \in Data : (Put(n, d) \/ InsertBefore(n, d)) /\ UNCHANGED file
  \/ \E n \in 0 .. MaxRecs, d \in Data : InsertAfter(n, d) /\ UNCHANGED file
  \/ \E n \in 1 .. MaxRecs : Delete(n) /\ UNCHANGED file
  \/ Sync

Spec == list = file /\ [][Next]_vars
=============================================================================
