------------------------------- MODULE SysvMsg ------------------------------
(***************************************************************************)
(* System V message queues, library/sysv_msg.c.  Every call runs under     *)
(* Forbid(), which only ix_sleep() breaks: msgsnd() and msgrcv() are       *)
(* atomic up to where they sleep, and from where they wake.                *)
(*                                                                         *)
(* msqids is the table of queues, hdrs that of message headers; a queue is *)
(* the chain of headers from first to last.  The segments of the messages  *)
(* are counted, not told apart.  The headers and the segments are shared   *)
(* by all queues; a sleeper waits for its own queue.                       *)
(***************************************************************************)
EXTENDS Integers, Sequences, FiniteSets, SequencesExt

CONSTANTS
  MSGMNI,         \* the number of queues
  MSGTQL,         \* the number of headers
  MSGSEG, MSGSSZ, \* the number of segments, and the size of one
  MSGMNB,         \* the bytes that a queue may hold at first
  Keys, Private,  \* keys, IPC_PRIVATE among them
  SEQMOD,         \* 2^16 in the code: seq is an unsigned short
  Procs,
  Sends,          \* messages [type, ts] to send
  Limits,         \* values of msg_qbytes to set
  Receives,       \* [typ, sz, noerror] to ask for
  MaxCreates,     \* bound: queues created
  Cut,            \* the identifier is cut down to its index before its sequence
                  \* number is compared, as in the code
  Flaws           \* "signal", "shared", "set", "reused": see where they are tested

Queues == 0 .. MSGMNI - 1
Hdrs == 1 .. MSGTQL
NULL == 0

VARIABLES
  msqids,   \* [key, seq, qbytes (0: free), first, last, cbytes, qnum, locked]
  hdrs,     \* [type, ts, next, to]; to is history: the seq of the identifier
            \* with which the message was sent
  freehdrs, \* the headers on the list free_msghdrs; the lowest is taken
  nfree,    \* nfree_msgmaps
  given,    \* history: the identifiers that msgget() returned
  pc        \* of a process [at, id, own, msg]: at is "user", or "snd" or "rcv"
            \* asleep, or "sndwoken" or "rcvwoken"; own is we_own_it

vars == <<msqids, hdrs, freehdrs, nfree, given, pc>>

Idle == [at |-> "user"]
Blank == [type |-> 0, ts |-> 0, next |-> NULL, to |-> 0]

Init ==
  /\ msqids = [q \in Queues |-> [key |-> Private, seq |-> 0, qbytes |-> 0, first |-> NULL,
                                 last |-> NULL, cbytes |-> 0, qnum |-> 0, locked |-> FALSE]]
  /\ hdrs = [h \in Hdrs |-> Blank]
  /\ freehdrs = Hdrs
  /\ nfree = MSGSEG /\ given = {}
  /\ pc = [p \in Procs |-> Idle]

\* IXSEQ_TO_IPCID(), IPCID_TO_IX() and IPCID_TO_SEQ(): an identifier is the pair
\* of its halves.
IXSEQ_TO_IPCID(q, n) == [ix |-> q, seq |-> n]
IPCID_TO_IX(id) == [ix |-> id.ix, seq |-> 0]
IPCID_TO_SEQ(id) == id.seq

Lowest(S) == CHOOSE q \in S : \A r \in S : q <= r
Used == {q \in Queues : msqids[q].qbytes # 0}
Segs(ts) == (ts + MSGSSZ - 1) \div MSGSSZ

\* A faulty ix_wakeup(): only senders are woken.
WokenSenders(pcs, q) ==
  [p \in Procs |-> IF pcs[p].at = "snd" /\ pcs[p].id.ix = q
                   THEN [pcs[p] EXCEPT !.at = "sndwoken"] ELSE pcs[p]]

\* ix_wakeup(): everybody who sleeps on the queue
Woken(pcs, q) ==
  [p \in Procs |-> IF pcs[p].at \in {"snd", "rcv"} /\ pcs[p].id.ix = q
                   THEN [pcs[p] EXCEPT !.at = IF @ = "snd" THEN "sndwoken" ELSE "rcvwoken"]
                   ELSE pcs[p]]

\* the headers of a queue, in order
Chain[h \in {NULL} \cup Hdrs] == IF h = NULL THEN <<>> ELSE <<h>> \o Chain[hdrs[h].next]
Messages(q) == Chain[msqids[q].first]
Total(F(_), s) == FoldLeft(LAMBDA n, h : n + F(h), 0, s)

\* msg_freehdr(): headers H go back, with their segments; their contents are
\* read no more
msg_freehdr(table, H) ==
  /\ freehdrs' = freehdrs \cup H
  /\ nfree' = nfree + Total(LAMBDA h : Segs(hdrs[h].ts), SetToSeq(H))
  /\ hdrs' = [h \in Hdrs |-> IF h \in H THEN Blank ELSE table[h]]

\* Somebody sleeps for room in another queue; freeing headers or segments wakes
\* only who sleeps on the queue they were in
OthersNeedRoom(q) == \E p \in Procs : pc[p].at = "snd" /\ pc[p].id.ix # q

-----------------------------------------------------------------------------
(* msgget(), msgctl() *)

WithKey(k) == {q \in Used : k # Private /\ msqids[q].key = k}

\* msgget() makes a queue.
Create(k, q) ==
  LET n == (msqids[q].seq + 1) % SEQMOD
  IN  /\ msqids' = [msqids EXCEPT ![q] = [key |-> k, seq |-> n, qbytes |-> MSGMNB, first |-> NULL,
                                          last |-> NULL, cbytes |-> 0, qnum |-> 0, locked |-> FALSE]]
      /\ given' = given \cup {IXSEQ_TO_IPCID(q, n)}

\* A queue may be made in a slot that is not in use and that nobody has locked.
Room == {q \in Queues \ Used : ~msqids[q].locked}

\* A faulty msgget: an existing key is not looked for.
msggetBlind(k, creat, excl) ==
  IF (k = Private \/ creat) /\ Room # {}
    THEN Create(k, Lowest(Room)) ELSE UNCHANGED <<msqids, given>>

\* EEXIST, or the queue that has the key; ENOENT; ENOSPC; or a new queue
msgget(k, creat, excl) ==
  IF WithKey(k) # {} \/ ~(k = Private \/ creat) \/ Room = {}
    THEN UNCHANGED <<msqids, given>> ELSE Create(k, Lowest(Room))

Msgget(p, k, creat, excl) ==
  /\ pc[p].at = "user" /\ Cardinality(given) < MaxCreates
  /\ msgget(k, creat, excl)
  /\ UNCHANGED <<hdrs, freehdrs, nfree, pc>>

\* The checks with which msgctl(), msgsnd() and msgrcv() begin
Accepts(id) ==
  LET msqid == IF Cut THEN IPCID_TO_IX(id) ELSE id IN
  /\ msqid.ix \in Used
  /\ msqids[msqid.ix].seq = IPCID_TO_SEQ(msqid)

\* msgctl() with IPC_RMID: all messages of the queue are freed; msg_first and
\* msg_last, which nobody reads until msgget() sets them, are cleared here
Rmid(p, id) ==
  LET q == id.ix
      M == Messages(q)
  IN  /\ pc[p].at = "user" /\ Accepts(id)
      /\ "shared" \in Flaws \/ M = <<>> \/ ~OthersNeedRoom(q)
      /\ msqids' = [msqids EXCEPT ![q].qbytes = 0, ![q].cbytes = 0, ![q].qnum = 0,
                                  ![q].first = NULL, ![q].last = NULL]
      /\ msg_freehdr(hdrs, Range(M))
      /\ pc' = Woken(pc, q)
      /\ UNCHANGED given

\* msgctl() with IPC_SET: raising msg_qbytes wakes nobody, and a sender that
\* finds its message too long now leaves without waking those behind it
IpcSet(p, id, n) ==
  /\ pc[p].at = "user" /\ Accepts(id) /\ n # 0 /\ n <= MSGMNB
  /\ "set" \in Flaws \/ \A r \in Procs : pc[r].at \in {"snd", "sndwoken"} => pc[r].id.ix # id.ix
  /\ msqids' = [msqids EXCEPT ![id.ix].qbytes = n]
  /\ UNCHANGED <<hdrs, freehdrs, nfree, given, pc>>

-----------------------------------------------------------------------------
(* msgsnd() *)

\* need_more_resources
NeedMore(queues, q, m) ==
  \/ queues[q].locked
  \/ m.ts + queues[q].cbytes > queues[q].qbytes
  \/ Segs(m.ts) > nfree
  \/ freehdrs = {}

\* the message goes to the end of the queue
Enqueue(queues, q, m, n) ==
  LET h == Lowest(freehdrs)
      l == queues[q].last
  IN  /\ msqids' = [queues EXCEPT ![q].first = IF @ = NULL THEN h ELSE @, ![q].last = h,
                             ![q].cbytes = @ + m.ts, ![q].qnum = @ + 1]
      /\ hdrs' = [g \in Hdrs |-> IF g = h THEN [type |-> m.type, ts |-> m.ts, next |-> NULL, to |-> n]
                                 ELSE IF queues[q].first # NULL /\ g = l THEN [hdrs[g] EXCEPT !.next = h]
                                 ELSE hdrs[g]]
      /\ freehdrs' = freehdrs \ {h}
      /\ nfree' = nfree - Segs(m.ts)

\* The loop of msgsnd() and what follows it, on the table queues: a message longer
\* than the queue is refused; without the room for it the sender sleeps, and
\* whoever is the first to do so locks the queue; a type below 1 is refused
\* when all is there
Send(p, queues, id, m, nowait) ==
  LET q == id.ix
      user == [pc EXCEPT ![p] = Idle]
      same == UNCHANGED <<hdrs, freehdrs, nfree>>
  IN  IF m.ts > queues[q].qbytes THEN msqids' = queues /\ pc' = user /\ same
      ELSE IF NeedMore(queues, q, m) /\ nowait THEN msqids' = queues /\ pc' = user /\ same
      ELSE IF NeedMore(queues, q, m)
      THEN /\ msqids' = [queues EXCEPT ![q].locked = TRUE]
           /\ pc' = [pc EXCEPT ![p] = [at |-> "snd", id |-> id, own |-> ~queues[q].locked, msg |-> m]]
           /\ same
      ELSE /\ pc' = Woken(user, q)
           /\ IF m.type < 1 THEN msqids' = queues /\ same ELSE Enqueue(queues, q, m, id.seq)

msgsnd(p, id, m, nowait) ==
  /\ pc[p].at = "user" /\ Accepts(id)
  /\ Send(p, msqids, id, m, nowait)
  /\ UNCHANGED given

Unlocked(p) == [msqids EXCEPT ![pc[p].id.ix].locked = @ /\ ~pc[p].own]

\* msgsnd() wakes; whether the queue is still the one it was called for is not
\* asked
msgsndWakes(p) ==
  /\ pc[p].at = "sndwoken"
  /\ "reused" \in Flaws \/ msqids[pc[p].id.ix].qbytes = 0 \/ msqids[pc[p].id.ix].seq = pc[p].id.seq
  /\ IF msqids[pc[p].id.ix].qbytes = 0                                     \* EIDRM
     THEN msqids' = Unlocked(p) /\ pc' = [pc EXCEPT ![p] = Idle] /\ UNCHANGED <<hdrs, freehdrs, nfree>>
     ELSE Send(p, Unlocked(p), pc[p].id, pc[p].msg, FALSE)
  /\ UNCHANGED given

\* a signal ends the sleep: EINTR, and nobody is told that the lock is gone
msgsndInterrupted(p) ==
  /\ pc[p].at \in {"snd", "sndwoken"}
  /\ "signal" \in Flaws \/ ~pc[p].own \/ \A r \in Procs \ {p} : pc[r].at = "snd" => pc[r].id.ix # pc[p].id.ix
  /\ msqids' = Unlocked(p)
  /\ pc' = [pc EXCEPT ![p] = Idle]
  /\ UNCHANGED <<hdrs, freehdrs, nfree, given>>

-----------------------------------------------------------------------------
(* msgrcv() *)

\* whether message h is one that is asked for
Matches(h, typ) == typ = 0 \/ hdrs[h].type = typ \/ hdrs[h].type <= -typ
Found(q, typ) == SelectInSeq(Messages(q), LAMBDA h : Matches(h, typ))

\* A faulty msgrcv: msg_last stays when the last of several messages is taken.
UnlinkedKeepsLast(q, i) ==
  LET M == Messages(q)
      h == M[i]
      queues == [msqids EXCEPT ![q].cbytes = @ - hdrs[h].ts, ![q].qnum = @ - 1]
  IN  IF i = 1 THEN [queues EXCEPT ![q].first = hdrs[h].next, ![q].last = IF Len(M) = 1 THEN NULL ELSE @]
      ELSE queues

\* the queue without its i-th message
Unlinked(q, i) ==
  LET M == Messages(q)
      h == M[i]
      queues == [msqids EXCEPT ![q].cbytes = @ - hdrs[h].ts, ![q].qnum = @ - 1,
                          ![q].first = IF i = 1 THEN hdrs[h].next ELSE @]
  IN  IF h = msqids[q].last THEN [queues EXCEPT ![q].last = IF i = 1 THEN NULL ELSE M[i - 1]] ELSE queues

\* The loop of msgrcv() and what follows it: a message longer than the buffer is
\* refused (E2BIG) unless it may be cut; the message is taken out, and its header
\* and its segments are freed
Receive(p, id, r, nowait) ==
  LET q == id.ix
      i == Found(q, r.typ)
      h == Messages(q)[i]
      user == [pc EXCEPT ![p] = Idle]
      same == UNCHANGED <<msqids, hdrs, freehdrs, nfree>>
  IN  IF i = 0
      THEN /\ pc' = IF nowait THEN user
                    ELSE [pc EXCEPT ![p] = [at |-> "rcv", id |-> id, own |-> FALSE, msg |-> r]]
           /\ same
      ELSE IF r.sz < hdrs[h].ts /\ ~r.noerror THEN pc' = user /\ same
      ELSE /\ "shared" \in Flaws \/ ~OthersNeedRoom(q)
           /\ msqids' = Unlinked(q, i)
           /\ msg_freehdr(IF i = 1 THEN hdrs
                          ELSE [hdrs EXCEPT ![Messages(q)[i - 1]].next = hdrs[h].next], {h})
           /\ pc' = Woken(user, q)

msgrcv(p, id, r, nowait) ==
  /\ pc[p].at = "user" /\ Accepts(id)
  /\ Receive(p, id, r, nowait)
  /\ UNCHANGED given

msgrcvWakes(p) ==
  /\ pc[p].at = "rcvwoken"
  /\ IF ~Accepts(pc[p].id)
     THEN pc' = [pc EXCEPT ![p] = Idle] /\ UNCHANGED <<msqids, hdrs, freehdrs, nfree>>
     ELSE Receive(p, pc[p].id, pc[p].msg, FALSE)
  /\ UNCHANGED given

msgrcvInterrupted(p) ==
  /\ pc[p].at \in {"rcv", "rcvwoken"}
  /\ pc' = [pc EXCEPT ![p] = Idle]
  /\ UNCHANGED <<msqids, hdrs, freehdrs, nfree, given>>

Next ==
  \E p \in Procs :
    \/ \E k \in Keys, creat, excl \in BOOLEAN : Msgget(p, k, creat, excl)
    \/ \E id \in given :
         \/ Rmid(p, id)
         \/ \E n \in Limits : IpcSet(p, id, n)
         \/ \E nowait \in BOOLEAN :
              \/ \E m \in Sends : msgsnd(p, id, m, nowait)
              \/ \E r \in Receives : msgrcv(p, id, r, nowait)
    \/ msgsndWakes(p) \/ msgsndInterrupted(p) \/ msgrcvWakes(p) \/ msgrcvInterrupted(p)

Spec == Init /\ [][Next]_vars

-----------------------------------------------------------------------------
(* Properties.                                                                 *)

\* Two queues never have the same key, unless it is IPC_PRIVATE: whoever asks
\* msgget() for a key gets the queue that everybody else got.
KeyIsUnique ==
  \A q, r \in Used : (q # r /\ msqids[q].key # Private) => msqids[q].key # msqids[r].key

\* An identifier of a queue that is in use, as msgget() returned it, is accepted
\* by the other calls.
FreshIdIsAccepted == \A id \in given : id.ix \in Used /\ msqids[id.ix].seq = id.seq => Accepts(id)

\* The queues and the free list share the headers out among them, a queue ends at
\* msg_last, its counts are those of its messages, no segment is lost or counted
\* twice, and a message is in the queue for which it was sent: however messages
\* of different types are taken out of the middle, and queues removed under
\* sleeping senders.
QueuesAreWhole ==
  LET all == FoldLeft(LAMBDA s, q : s \o Messages(q), <<>>, SetToSeq(Used))
  IN  /\ \A q \in Used :
           LET M == Messages(q)
           IN  /\ IF M = <<>> THEN msqids[q].last = NULL ELSE msqids[q].last = Last(M)
               /\ msqids[q].qnum = Len(M)
               /\ msqids[q].cbytes = Total(LAMBDA h : hdrs[h].ts, M)
               /\ msqids[q].cbytes <= MSGMNB
               /\ \A h \in Range(M) : hdrs[h].to = msqids[q].seq
      /\ Len(all) + Cardinality(freehdrs) = MSGTQL
      /\ Range(all) \cup freehdrs = Hdrs
      /\ nfree = MSGSEG - Total(LAMBDA h : Segs(hdrs[h].ts), all)

\* Nobody sleeps on what is there: a receiver asleep has no message of its type in
\* its queue, and a sender asleep could not send, except that it locked the queue
\* itself; and a lock belongs to a sender that sleeps or is about to run.
NobodySleepsInVain ==
  /\ \A p \in Procs :
       LET q == pc[p].id.ix
       IN  /\ pc[p].at = "rcv" => Accepts(pc[p].id) /\ Found(q, pc[p].msg.typ) = 0
           /\ pc[p].at = "snd" => NeedMore([msqids EXCEPT ![q].locked = @ /\ ~pc[p].own], q, pc[p].msg)
  /\ \A q \in Queues : msqids[q].locked =>
       \E p \in Procs : pc[p].at \in {"snd", "sndwoken"} /\ pc[p].id.ix = q /\ pc[p].own
=============================================================================
