------------------------------- MODULE MCPipe -------------------------------
(* Small instances of Pipe.                                                    *)
EXTENDS Pipe, TLC

CONSTANTS p1, p2, p3

\* p1 reads, the others write.
OneReader == [t \in Tasks |-> IF t = p1 THEN {"read"} ELSE {"write"}]
\* p1 also waits in select() for something to read; p2 also uses ioctl().
SelectAndIoctl == [t \in Tasks |-> IF t = p1 THEN {"read", "select"}
                                   ELSE {"write", "ioctl"}]
\* p1 and p2 both wait in select() for something to read.
TwoSelectors == [t \in Tasks |-> IF t = p3 THEN {"write"} ELSE {"select"}]
\* One task at each end.
ReaderAndWriter == [t \in Tasks |-> IF t = p1 THEN {"read"}
                                    ELSE IF t = p2 THEN {"write"} ELSE {}]
\* Bytes 1, 2, 3, ...: a lost, repeated or reordered byte shows.
Counting == {[i \in 1 .. n |-> i] : n \in 0 .. MaxLen}
\* AllocSignal() gave every task the same bit, or each task another one.
SameBit == [t \in Tasks |-> 16]
OwnBit == [t \in Tasks |-> IF t = p1 THEN 16 ELSE 17]
=============================================================================
