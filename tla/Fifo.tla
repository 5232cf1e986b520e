-------------------------------- MODULE Fifo --------------------------------
(* What a pipe promises its readers and writers: a bounded queue of bytes from *)
(* which every byte comes out once, in the order in which it went in.  A call  *)
(* moves bytes in turns; a turn moves as many bytes as the request and the     *)
(* queue allow.                                                                *)
EXTENDS Integers, Sequences

CONSTANTS Tasks, Byte, Capacity

VARIABLES
  q,     \* the bytes in the pipe
  out,   \* out[t]: what t's write() has still to put in
  want,  \* want[t]: how many bytes t's read() still asks for
  in     \* in[t]: what t's read() has been given

fvars == <<q, out, want, in>>

Least(a, b) == IF a < b THEN a ELSE b

FifoInit ==
  /\ q = <<>>
  /\ out = [t \in Tasks |-> <<>>]
  /\ want = [t \in Tasks |-> 0]
  /\ in = [t \in Tasks |-> <<>>]

\* t has no request outstanding and no bytes of an earlier read().
Quiet(t) == out[t] = <<>> /\ want[t] = 0 /\ in[t] = <<>>

StartWrite(t) ==
  /\ Quiet(t)
  /\ out'[t] \in Seq(Byte) /\ out' = [out EXCEPT ![t] = out'[t]]
  /\ UNCHANGED <<q, want, in>>

StartRead(t) ==
  /\ Quiet(t)
  /\ want'[t] \in Nat /\ want' = [want EXCEPT ![t] = want'[t]]
  /\ UNCHANGED <<q, out, in>>

Put(t) ==
  LET n == Least(Len(out[t]), Capacity - Len(q))
  IN  /\ n > 0
      /\ q' = q \o SubSeq(out[t], 1, n)
      /\ out' = [out EXCEPT ![t] = SubSeq(@, n + 1, Len(@))]
      /\ UNCHANGED <<want, in>>

Get(t) ==
  LET n == Least(want[t], Len(q))
  IN  /\ n > 0
      /\ in' = [in EXCEPT ![t] = @ \o SubSeq(q, 1, n)]
      /\ q' = SubSeq(q, n + 1, Len(q))
      /\ want' = [want EXCEPT ![t] = @ - n]
      /\ UNCHANGED out

Finish(t) ==
  /\ out' = [out EXCEPT ![t] = <<>>]
  /\ want' = [want EXCEPT ![t] = 0]
  /\ in' = [in EXCEPT ![t] = <<>>]
  /\ UNCHANGED q

FifoNext ==
  \E t \in Tasks : StartWrite(t) \/ StartRead(t) \/ Put(t) \/ Get(t) \/ Finish(t)

FifoSpec == FifoInit /\ [][FifoNext]_fvars
=============================================================================
