----------------------------- MODULE PipeProofs -----------------------------
(* Proofs about the ring buffer and the pipe, for any number of tasks, any     *)
(* size of the buffer and any set of calls.                                    *)
EXTENDS Pipe, FiniteSetTheorems, TLAPS

-----------------------------------------------------------------------------
(* What one turn of stream_read's and of stream_write's copy does to the ring. *)

\* FIONREAD is the number of bytes in the ring: 0 for equal positions, never
\* SIZE, since one cell stays empty.
LEMMA CountRange ==
  ASSUME NEW rd \in Pos, NEW wr \in Pos
  PROVE  /\ FIONREAD(rd, wr) \in 0 .. SIZE - 1
         /\ can_read(rd, wr) <=> FIONREAD(rd, wr) > 0
         /\ can_write(rd, wr) <=> FIONREAD(rd, wr) < SIZE - 1
BY SizeAssumption DEF Pos, FIONREAD, can_read, can_write

\* A turn of stream_read() moves the smaller of what is asked for and what is
\* there, and leaves the reader inside the buffer.
THEOREM ReadTurnMovesAll ==
  ASSUME NEW rd \in Pos, NEW wr \in Pos, NEW n \in Nat
  PROVE  /\ ReadSeg1(rd, wr, n) \in Nat /\ ReadSeg2(rd, wr, n) \in Nat
         /\ ReadMid(rd, wr, n) \in Pos /\ ReadEnd(rd, wr, n) \in Pos
         /\ ReadCount(rd, wr, n) \in 0 .. n
         /\ ReadCount(rd, wr, n) = Least(n, FIONREAD(rd, wr))
         /\ FIONREAD(ReadEnd(rd, wr, n), wr)
              = FIONREAD(rd, wr) - ReadCount(rd, wr, n)
<1> DEFINE s1 == ReadSeg1(rd, wr, n)
           mid == ReadMid(rd, wr, n)
           s2 == ReadSeg2(rd, wr, n)
<1>1. CASE rd > wr
  <2>1. s1 = Least(n, SIZE - rd) /\ mid = IF rd + s1 = SIZE THEN 0 ELSE rd + s1
    BY <1>1 DEF ReadSeg1, ReadMid
  <2>2. CASE n < SIZE - rd
    <3>1. s1 = n /\ mid = rd + n /\ s2 = 0
      BY <1>1, <2>1, <2>2, SizeAssumption DEF ReadSeg2, Least, Pos
    <3> QED
      BY <1>1, <2>2, <3>1, SizeAssumption
      DEF ReadCount, ReadEnd, FIONREAD, Pos, Least
  <2>3. CASE ~(n < SIZE - rd)
    <3>1. s1 = SIZE - rd /\ mid = 0 /\ s2 = Least(n - s1, wr)
      BY <1>1, <2>1, <2>3, SizeAssumption DEF ReadSeg2, Least, Pos
    <3> QED
      BY <1>1, <2>3, <3>1, SizeAssumption
      DEF ReadCount, ReadEnd, FIONREAD, Pos, Least
  <2> QED
    BY <2>2, <2>3
<1>2. CASE ~(rd > wr)
  <2>1. s1 = 0 /\ mid = rd
    BY <1>2, SizeAssumption DEF ReadSeg1, ReadMid, Pos
  <2>2. s2 = Least(n, wr - rd)
    BY <1>2, <2>1, SizeAssumption DEF ReadSeg2, Least, Pos
  <2> QED
    BY <1>2, <2>1, <2>2, SizeAssumption
    DEF ReadCount, ReadEnd, FIONREAD, Pos, Least
<1> QED
  BY <1>1, <1>2

\* A turn of stream_write() moves the smaller of what is to be written and the
\* room, which is one cell less than the buffer has, and leaves the writer inside.
THEOREM WriteTurnMovesAll ==
  ASSUME NEW rd \in Pos, NEW wr \in Pos, NEW n \in Nat
  PROVE  /\ WriteSeg1(rd, wr, n) \in Nat /\ WriteSeg2(rd, wr, n) \in Nat
         /\ WriteMid(rd, wr, n) \in Pos /\ WriteEnd(rd, wr, n) \in Pos
         /\ WriteCount(rd, wr, n) \in 0 .. n
         /\ WriteCount(rd, wr, n) = Least(n, SIZE - 1 - FIONREAD(rd, wr))
         /\ FIONREAD(rd, WriteEnd(rd, wr, n))
              = FIONREAD(rd, wr) + WriteCount(rd, wr, n)
<1> DEFINE s1 == WriteSeg1(rd, wr, n)
           mid == WriteMid(rd, wr, n)
           s2 == WriteSeg2(rd, wr, n)
           room == SIZE - 1 - wr + (IF rd > 0 THEN 1 ELSE 0)
<1>1. CASE wr >= rd
  <2>1. /\ s1 = Least(n, room) /\ room \in Nat
        /\ mid = IF wr + s1 = SIZE THEN 0 ELSE wr + s1
    BY <1>1, SizeAssumption DEF WriteSeg1, WriteMid, Pos
  <2>2. CASE rd = 0
    <3>1. s1 = Least(n, SIZE - 1 - wr) /\ mid = wr + s1 /\ s2 = 0
      BY <1>1, <2>1, <2>2, SizeAssumption DEF WriteSeg2, Least, Pos
    <3> QED
      BY <1>1, <2>2, <3>1, SizeAssumption
      DEF WriteCount, WriteEnd, FIONREAD, Pos, Least
  <2>3. CASE rd # 0 /\ n < SIZE - wr
    <3>1. s1 = n /\ mid = wr + n /\ s2 = 0
      BY <1>1, <2>1, <2>3, SizeAssumption DEF WriteSeg2, Least, Pos
    <3> QED
      BY <1>1, <2>3, <3>1, SizeAssumption
      DEF WriteCount, WriteEnd, FIONREAD, Pos, Least
  <2>4. CASE rd # 0 /\ ~(n < SIZE - wr)
    <3>1. s1 = SIZE - wr /\ mid = 0
      BY <1>1, <2>1, <2>4, SizeAssumption DEF Least, Pos
    <3>2. s2 = Least(n - s1, rd - 1)
      BY <1>1, <2>4, <3>1, SizeAssumption DEF WriteSeg2, Least, Pos
    <3> QED
      BY <1>1, <2>4, <3>1, <3>2, SizeAssumption
      DEF WriteCount, WriteEnd, FIONREAD, Pos, Least
  <2> QED
    BY <2>2, <2>3, <2>4
<1>2. CASE ~(wr >= rd)
  <2>1. s1 = 0 /\ mid = wr
    BY <1>2, SizeAssumption DEF WriteSeg1, WriteMid, Pos
  <2>2. s2 = Least(n, rd - wr - 1)
    BY <1>2, <2>1, SizeAssumption DEF WriteSeg2, Least, Pos
  <2> QED
    BY <1>2, <2>1, <2>2, SizeAssumption
    DEF WriteCount, WriteEnd, FIONREAD, Pos, Least
<1> QED
  BY <1>1, <1>2

\* What a turn of stream_read() delivers is a sequence of bytes of the buffer.
LEMMA ReadBytesAreBytes ==
  ASSUME NEW Bs, NEW buf \in [Pos -> Bs],
         NEW rd \in Pos, NEW wr \in Pos, NEW n \in Nat
  PROVE  /\ ReadBytes(buf, rd, wr, n) \in Seq(Bs)
         /\ Len(ReadBytes(buf, rd, wr, n)) = ReadCount(rd, wr, n)
<1>1. ReadCount(rd, wr, n) \in Nat
  BY ReadTurnMovesAll
<1>2. ASSUME NEW i \in 1 .. ReadCount(rd, wr, n), i <= ReadSeg1(rd, wr, n)
      PROVE  rd + i - 1 \in Pos
  BY <1>2, SizeAssumption DEF Pos, ReadSeg1, Least
<1>3. ASSUME NEW i \in 1 .. ReadCount(rd, wr, n), ~(i <= ReadSeg1(rd, wr, n))
      PROVE  ReadMid(rd, wr, n) + i - ReadSeg1(rd, wr, n) - 1 \in Pos
  BY <1>3, SizeAssumption
  DEF Pos, ReadSeg1, ReadMid, ReadSeg2, ReadCount, ReadEnd, Least
<1>4. ASSUME NEW i \in 1 .. ReadCount(rd, wr, n)
      PROVE  (IF i <= ReadSeg1(rd, wr, n) THEN buf[rd + i - 1]
              ELSE buf[ReadMid(rd, wr, n) + i - ReadSeg1(rd, wr, n) - 1]) \in Bs
  BY <1>2, <1>3
<1> QED
  BY <1>1, <1>4 DEF ReadBytes

\* A turn of stream_write() leaves bytes in every cell of the buffer.
LEMMA WrittenBufferHoldsBytes ==
  ASSUME NEW Bs, NEW buf \in [Pos -> Bs], NEW d \in Seq(Bs),
         NEW rd \in Pos, NEW wr \in Pos
  PROVE  WrittenBuffer(buf, rd, wr, Len(d), d) \in [Pos -> Bs]
<1> DEFINE n1 == WriteSeg1(rd, wr, Len(d))
           n2 == WriteSeg2(rd, wr, Len(d))
           mid == WriteMid(rd, wr, Len(d))
<1>1. Len(d) \in Nat
  OBVIOUS
<1>2. /\ n1 \in Nat /\ n2 \in Nat /\ mid \in Pos
      /\ n1 + n2 \in 0 .. Len(d)
  BY <1>1, WriteTurnMovesAll DEF WriteCount
<1>3. ASSUME NEW p \in Pos, wr <= p, p < wr + n1
      PROVE  d[p - wr + 1] \in Bs
  BY <1>1, <1>2, <1>3 DEF Pos
<1>4. ASSUME NEW p \in Pos, mid <= p, p < mid + n2
      PROVE  d[n1 + p - mid + 1] \in Bs
  BY <1>1, <1>2, <1>4 DEF Pos
<1> QED
  BY <1>3, <1>4 DEF WrittenBuffer

-----------------------------------------------------------------------------
(* The struct files and their counts.                                          *)

FilesInv ==
  /\ holds \in [Ends -> SUBSET Tasks]
  /\ f_count \in [Ends -> Nat]
  /\ \A e \in Ends : f_count[e] = Cardinality(holds[e])

LEMMA HoldsFinite ==
  ASSUME FilesInv, NEW e \in Ends
  PROVE  IsFiniteSet(holds[e])
<1>1. holds[e] \subseteq Tasks
  BY DEF FilesInv
<1> QED
  BY <1>1, PipeAssumption, FS_Subset

LEMMA FilesInit == Init => FilesInv
<1> SUFFICES ASSUME Init PROVE FilesInv
  OBVIOUS
<1>1. holds \in [Ends -> SUBSET Tasks]
  BY PipeAssumption DEF Init
<1>2. \A e \in Ends : holds[e] \subseteq Tasks /\ IsFiniteSet(holds[e])
  BY <1>1, PipeAssumption, FS_Subset
<1>3. \A e \in Ends : Cardinality(holds[e]) \in Nat
  BY <1>2, FS_CardinalityType
<1> QED
  BY <1>1, <1>3 DEF Init, FilesInv

LEMMA FilesNext == FilesInv /\ [Next]_vars => FilesInv'
<1> SUFFICES ASSUME FilesInv, [Next]_vars PROVE FilesInv'
  OBVIOUS
<1>1. ASSUME NEW t \in Tasks, NEW e \in Ends, Close(t, e)
      PROVE  FilesInv'
  <2>1. IsFiniteSet(holds[e]) /\ t \in holds[e]
    BY <1>1, HoldsFinite DEF Close
  <2>2. /\ Cardinality(holds[e] \ {t}) = Cardinality(holds[e]) - 1
        /\ Cardinality(holds[e] \ {t}) \in Nat
    BY <2>1, FS_RemoveElement, FS_CardinalityType
  <2> QED
    BY <1>1, <2>2 DEF Close, FilesInv
<1>2. ASSUME NEW t \in Tasks, NEW e \in Ends, NEW c \in Tasks, Inherit(t, c, e)
      PROVE  FilesInv'
  <2>1. IsFiniteSet(holds[e]) /\ c \notin holds[e]
    BY <1>2, HoldsFinite DEF Inherit
  <2>2. Cardinality(holds[e] \cup {c}) = Cardinality(holds[e]) + 1
    BY ZenonT(30), <2>1, FS_AddElement
  <2> QED
    BY <1>2, <2>2 DEF Inherit, FilesInv
<1>3. CASE UNCHANGED <<holds, f_count>>
  BY <1>3 DEF FilesInv
<1>4. ASSUME NEW t \in Tasks,
             Read(t) \/ Write(t) \/ Ioctl(t) \/ Select(t) \/ Step(t) \/ Interrupt(t)
      PROVE  UNCHANGED <<holds, f_count>>
  BY ZenonT(30), <1>4 DEF Read, Write, Ioctl, Select, Enter, Step, Interrupt, AcquireStream,
     WaitForStream, Release, ReadTest, ReadCopy, WriteTest, WriteCopy, Notify,
     GoToSleep, DoNotSleep, Resume, Abandon, IoctlBody, SelectInterrupted,
     SelectPoll, SelectPrepare, SelectRecheck, SelectWait, SelectCheck,
     SelectLeave, fileVars
<1> QED
  BY <1>1, <1>2, <1>3, <1>4 DEF Next, Gone, vars, fileVars

-----------------------------------------------------------------------------
(* Types.  The bytes a write() copies exist: len is what data has left.        *)

WriteLen == \A t \in Tasks : call[t] = "write" => len[t] = Len(data[t])

TypeInv == TypeOK /\ WriteLen

LEMMA TypeInit == Init => TypeInv
<1> SUFFICES ASSUME Init PROVE TypeInv
  OBVIOUS
<1>1. FilesInv
  BY FilesInit
<1>2. reader \in Pos /\ writer \in Pos
  BY SizeAssumption DEF Init, Pos
<1>3. buffer \in [Pos -> Byte]
  BY PipeAssumption DEF Init
<1>4. /\ len \in [Tasks -> 0 .. MaxLen] /\ done \in [Tasks -> Int]
      /\ data \in [Tasks -> Seq(Byte)] /\ got \in [Tasks -> Seq(Byte)]
  BY PipeAssumption DEF Init
<1>5. /\ call \in [Tasks -> CallKinds \cup {"none"}] /\ end \in [Tasks -> Ends]
      /\ err \in [Tasks -> Errors] /\ timo \in [Tasks -> Timeouts]
      /\ wchan \in [Tasks -> Chans \cup {NoChan}]
  BY DEF Init, Ends, Errors, Timeouts
<1>6. WriteLen
  BY ZenonT(30) DEF Init, WriteLen
<1> QED
  BY <1>1, <1>2, <1>3, <1>4, <1>5, <1>6 DEF Init, FilesInv, TypeInv, TypeOK, Pcs

LEMMA EnterType ==
  ASSUME TypeInv, NEW t \in Tasks,
         NEW c \in CallKinds, NEW e \in Ends, NEW n \in 0 .. MaxLen,
         NEW d \in Seq(Byte), NEW to \in Timeouts, NEW l \in {"get", "poll"},
         c = "write" => n = Len(d), Enter(t, c, e, n, d, to, l)
  PROVE  TypeInv'
<1>1. WriteLen'
  BY ZenonT(30) DEF TypeInv, TypeOK, WriteLen, Enter
<1> QED
  BY ZenonT(30), <1>1 DEF TypeInv, TypeOK, Enter, Goto, streamVars, fileVars, sleepVars,
              Critical, Pcs

LEMMA CallType ==
  ASSUME TypeInv, NEW t \in Tasks, Read(t) \/ Write(t) \/ Ioctl(t) \/ Select(t)
  PROVE  TypeInv'
<1>1. /\ {"read", "write", "ioctl", "select"} \subseteq CallKinds
      /\ {"r", "w"} \subseteq Ends /\ "nil" \in Timeouts
  BY DEF CallKinds, Ends, Timeouts
<1> DEFINE empty == <<>>
<1>2. empty \in Seq(Byte) /\ 0 \in 0 .. MaxLen
  BY PipeAssumption
<1>3. CASE Read(t)
  <2>1. PICK n \in 0 .. MaxLen : Enter(t, "read", "r", n, empty, "nil", "get")
    BY <1>3 DEF Read
  <2>2. "read" = "write" => n = Len(empty)
    OBVIOUS
  <2> HIDE DEF empty
  <2> QED
    BY <1>1, <1>2, <2>1, <2>2, EnterType
<1>4. CASE Write(t)
  <2>1. PICK d \in Payloads : Enter(t, "write", "w", Len(d), d, "nil", "get")
    BY <1>4 DEF Write
  <2>2. d \in Seq(Byte) /\ Len(d) \in 0 .. MaxLen
    BY PipeAssumption
  <2> QED
    BY <1>1, <2>1, <2>2, EnterType
<1>5. CASE Ioctl(t)
  <2>1. PICK e \in Ends : Enter(t, "ioctl", e, 0, empty, "nil", "get")
    BY <1>5 DEF Ioctl
  <2>2. "ioctl" = "write" => 0 = Len(empty)
    OBVIOUS
  <2> HIDE DEF empty
  <2> QED
    BY <1>1, <1>2, <2>1, <2>2, EnterType
<1>6. CASE Select(t)
  <2>1. PICK e \in Ends, to \in Timeouts : Enter(t, "select", e, 0, empty, to, "poll")
    BY <1>6 DEF Select
  <2>2. "select" = "write" => 0 = Len(empty)
    OBVIOUS
  <2> HIDE DEF empty
  <2> QED
    BY <1>1, <1>2, <2>1, <2>2, EnterType
<1> QED
  BY <1>3, <1>4, <1>5, <1>6

\* The result of ix_wakeup() is a function of the tasks to the Booleans.
LEMMA WakeupType ==
  ASSUME NEW w, NEW s \in [Tasks -> BOOLEAN], NEW c
  PROVE  Wakeup(w, s, c) \in [Tasks -> BOOLEAN]
BY DEF Wakeup

LEMMA ReadCopyType ==
  ASSUME TypeInv, NEW t \in Tasks, ReadCopy(t)
  PROVE  TypeInv'
<1> DEFINE n == ReadCount(reader, writer, len[t])
<1>1. /\ reader \in Pos /\ writer \in Pos /\ len[t] \in 0 .. MaxLen
      /\ buffer \in [Pos -> Byte] /\ done[t] \in Int /\ got[t] \in Seq(Byte)
  BY DEF TypeInv, TypeOK
<1>2. MaxLen \in Nat /\ len[t] \in Nat
  BY <1>1, PipeAssumption
<1>3. n \in 0 .. len[t] /\ ReadEnd(reader, writer, len[t]) \in Pos
  BY ZenonT(30), <1>1, <1>2, ReadTurnMovesAll
<1>4. ReadBytes(buffer, reader, writer, len[t]) \in Seq(Byte)
  BY ZenonT(30), <1>1, <1>2, ReadBytesAreBytes
<1>5. len[t] - n \in 0 .. MaxLen /\ done[t] + n \in Int
  BY <1>1, <1>2, <1>3
<1>6. got[t] \o ReadBytes(buffer, reader, writer, len[t]) \in Seq(Byte)
  BY <1>1, <1>4
<1> HIDE DEF n
<1>7. reader' \in Pos /\ len' \in [Tasks -> 0 .. MaxLen] /\ done' \in [Tasks -> Int]
  BY ZenonT(30), <1>3, <1>5 DEF TypeInv, TypeOK, ReadCopy, n
<1>8. got' \in [Tasks -> Seq(Byte)]
  BY <1>6 DEF TypeInv, TypeOK, ReadCopy
<1>9. WriteLen'
  BY ZenonT(30) DEF TypeInv, WriteLen, TypeOK, ReadCopy
<1> QED
  BY ZenonT(30), <1>7, <1>8, <1>9
  DEF TypeInv, TypeOK, ReadCopy, Goto, fileVars, sleepVars, Critical, Pcs

LEMMA WriteCopyType ==
  ASSUME TypeInv, NEW t \in Tasks, WriteCopy(t)
  PROVE  TypeInv'
<1> DEFINE n == WriteCount(reader, writer, len[t])
           rest == SubSeq(data[t], n + 1, Len(data[t]))
<1>1. /\ reader \in Pos /\ writer \in Pos /\ len[t] \in 0 .. MaxLen
      /\ buffer \in [Pos -> Byte] /\ done[t] \in Int
      /\ data[t] \in Seq(Byte) /\ len[t] = Len(data[t])
  BY DEF TypeInv, TypeOK, WriteLen, WriteCopy
<1>2. MaxLen \in Nat /\ len[t] \in Nat
  BY <1>1, PipeAssumption
<1>3. n \in 0 .. len[t] /\ WriteEnd(reader, writer, len[t]) \in Pos
  BY <1>1, <1>2, WriteTurnMovesAll
<1>4. WrittenBuffer(buffer, reader, writer, len[t], data[t]) \in [Pos -> Byte]
  BY <1>1, WrittenBufferHoldsBytes
<1>5. len[t] - n \in 0 .. MaxLen /\ done[t] + n \in Int
  BY <1>1, <1>2, <1>3
<1> HIDE DEF n
<1>6. rest \in Seq(Byte) /\ Len(rest) = len[t] - n
  BY <1>1, <1>2, <1>3
<1> HIDE DEF rest
<1>7. writer' \in Pos /\ len' \in [Tasks -> 0 .. MaxLen] /\ done' \in [Tasks -> Int]
  BY ZenonT(30), <1>3, <1>5 DEF TypeInv, TypeOK, WriteCopy, n
<1>8. data' \in [Tasks -> Seq(Byte)]
  BY ZenonT(30), <1>6 DEF TypeInv, TypeOK, WriteCopy, n, rest
<1>9. WriteLen'
  BY ZenonT(30), <1>6 DEF TypeInv, WriteLen, TypeOK, WriteCopy, n, rest
<1>10. buffer' \in [Pos -> Byte]
  BY ZenonT(30), <1>4 DEF WriteCopy
<1> QED
  BY ZenonT(30), <1>7, <1>8, <1>9, <1>10
  DEF TypeInv, TypeOK, WriteCopy, Goto, fileVars, sleepVars, Critical, Pcs

LocalsType ==
  /\ pc \in [Tasks -> Pcs]
  /\ call \in [Tasks -> CallKinds \cup {"none"}] /\ end \in [Tasks -> Ends]
  /\ len \in [Tasks -> 0 .. MaxLen] /\ data \in [Tasks -> Seq(Byte)]
  /\ got \in [Tasks -> Seq(Byte)] /\ done \in [Tasks -> Int]
  /\ err \in [Tasks -> Errors] /\ timo \in [Tasks -> Timeouts]
  /\ WriteLen

\* A call that returns resets its locals.
LEMMA LeaveType ==
  ASSUME TypeInv, NEW t \in Tasks, Leave(t)
  PROVE  LocalsType'
<1>1. 0 \in 0 .. MaxLen
  BY PipeAssumption
<1> QED
  BY <1>1 DEF LocalsType, TypeInv, TypeOK, WriteLen, Leave, Goto, Ends, Errors,
              Timeouts, Pcs

LEMMA ReleaseStreamType ==
  ASSUME TypeInv, release_stream
  PROVE  sleepSig' \in [Tasks -> BOOLEAN] /\ flags' \in SUBSET Flags
BY ZenonT(30), WakeupType DEF TypeInv, TypeOK, release_stream

LEMMA SignalTaskType ==
  ASSUME TypeInv, NEW task, NEW t \in Tasks, SignalTask(task, PipeSig[t])
  PROVE  pipeSig' \in [Tasks -> SUBSET SigBits]
BY ZenonT(30) DEF TypeInv, TypeOK, SignalTask, SigBits

LEMMA SigAfterGetType ==
  ASSUME TypeInv, NEW t \in Tasks
  PROVE  SigAfterGet(t) \in [Tasks -> BOOLEAN]
BY DEF TypeInv, TypeOK, SigAfterGet, ClearSig

LEMMA TypeNext == TypeInv /\ FilesInv' /\ [Next]_vars => TypeInv'
<1> SUFFICES ASSUME TypeInv, FilesInv', [Next]_vars PROVE TypeInv'
  BY ZenonT(30)
<1> USE DEF TypeInv, TypeOK, WriteLen, Goto, streamVars, fileVars, callVars, sleepVars
<1>1. ASSUME NEW t \in Tasks, AcquireStream(t) PROVE TypeInv'
  BY ZenonT(30), <1>1, SigAfterGetType DEF AcquireStream, Dequeue, Flags, Critical, Pcs
<1>2. ASSUME NEW t \in Tasks, WaitForStream(t) PROVE TypeInv'
  <2>1. wchan' \in [Tasks -> Chans \cup {NoChan}]
    BY <1>2 DEF WaitForStream, SleepOn, Chans
  <2>2. sleepSig' \in [Tasks -> BOOLEAN]
    BY ZenonT(30), <1>2, SigAfterGetType DEF WaitForStream
  <2> QED
    BY ZenonT(30), <1>2, <2>1, <2>2 DEF WaitForStream, Flags, Pcs
<1>3. ASSUME NEW t \in Tasks, Release(t) PROVE TypeInv'
  <2>1. LocalsType'
    BY ZenonT(30), <1>3, LeaveType DEF Release
  <2>2. sleepSig' \in [Tasks -> BOOLEAN] /\ flags' \in SUBSET Flags
    BY ZenonT(30), <1>3, ReleaseStreamType DEF Release
  <2> QED
    BY ZenonT(30), <1>3, <2>1, <2>2 DEF Release, LocalsType
<1>4. ASSUME NEW t \in Tasks, ReadTest(t) PROVE TypeInv'
  <2>1. done' \in [Tasks -> Int]
    BY <1>4 DEF ReadTest, Return
  <2>2. err' \in [Tasks -> Errors]
    BY ZenonT(30), <1>4 DEF ReadTest, Return, Errors
  <2>3. pc' \in [Tasks -> Pcs]
    <3>1. \/ pc' = [pc EXCEPT ![t] = "rel"]
          \/ pc' = [pc EXCEPT ![t] = "presleep"]
      BY <1>4 DEF ReadTest, Return
    <3> QED
      BY ZenonT(30), <3>1 DEF Critical, Pcs
  <2> QED
    BY ZenonT(30), <1>4, <2>1, <2>2, <2>3 DEF ReadTest
<1>5. ASSUME NEW t \in Tasks, WriteTest(t) PROVE TypeInv'
  <2>1. done' \in [Tasks -> Int]
    BY <1>5 DEF WriteTest, Return
  <2>2. err' \in [Tasks -> Errors]
    BY ZenonT(30), <1>5 DEF WriteTest, Return, Errors
  <2>3. pc' \in [Tasks -> Pcs]
    <3>1. \/ pc' = [pc EXCEPT ![t] = "rel"]
          \/ pc' = [pc EXCEPT ![t] = "presleep"]
      BY ZenonT(30), <1>5 DEF WriteTest, Return
    <3> QED
      BY ZenonT(30), <3>1 DEF Critical, Pcs
  <2> QED
    BY ZenonT(30), <1>5, <2>1, <2>2, <2>3 DEF WriteTest
<1>6. ASSUME NEW t \in Tasks, Notify(t) PROVE TypeInv'
  <2>1. pipeSig' \in [Tasks -> SUBSET SigBits]
    BY ZenonT(30), <1>6, SignalTaskType DEF Notify
  <2>2. sleepSig' \in [Tasks -> BOOLEAN]
    BY ZenonT(30), <1>6, WakeupType DEF Notify
  <2> QED
    BY ZenonT(30), <1>6, <2>1, <2>2 DEF Notify, Critical, Pcs
<1>7. ASSUME NEW t \in Tasks, GoToSleep(t) PROVE TypeInv'
  <2>1. sleepSig' \in [Tasks -> BOOLEAN] /\ flags' \in SUBSET Flags
    BY ZenonT(30), <1>7, ReleaseStreamType DEF GoToSleep
  <2>2. wchan' \in [Tasks -> Chans \cup {NoChan}]
    BY ZenonT(30), <1>7 DEF GoToSleep, SleepOn, Chans
  <2> QED
    BY ZenonT(30), <1>7, <2>1, <2>2 DEF GoToSleep, Pcs
<1>8. ASSUME NEW t \in Tasks, DoNotSleep(t) PROVE TypeInv'
  <2>1. sleepSig' \in [Tasks -> BOOLEAN] /\ flags' \in SUBSET Flags
    BY ZenonT(30), <1>8, ReleaseStreamType DEF DoNotSleep
  <2> QED
    BY ZenonT(30), <1>8, <2>1 DEF DoNotSleep, Pcs
<1>9. ASSUME NEW t \in Tasks, Resume(t) PROVE TypeInv'
  BY ZenonT(30), <1>9 DEF Resume, Dequeue, ClearSig, Pcs
<1>10. ASSUME NEW t \in Tasks, Abandon(t) PROVE TypeInv'
  <2>1. LocalsType'
    BY <1>10, LeaveType DEF Abandon
  <2> QED
    BY ZenonT(30), <1>10, <2>1 DEF Abandon, Dequeue, ClearSig, LocalsType
<1>11. ASSUME NEW t \in Tasks, IoctlBody(t) PROVE TypeInv'
  <2>1. FIONREAD(reader, writer) \in Int
    BY CountRange
  <2>2. done' \in [Tasks -> Int]
    BY <1>11, <2>1 DEF IoctlBody
  <2>3. nonblock' \in [Ends -> BOOLEAN]
    BY ZenonT(30), <1>11 DEF IoctlBody
  <2> QED
    BY ZenonT(30), <1>11, <2>2, <2>3 DEF IoctlBody, Critical, Pcs
<1>12. ASSUME NEW t \in Tasks, SelectPoll(t) \/ SelectInterrupted(t) PROVE TypeInv'
  <2>1. done' \in [Tasks -> Int]
    <3>1. done' = done \/ \E n \in {-1, 0, 1} : done' = [done EXCEPT ![t] = n]
      BY ZenonT(30), <1>12 DEF SelectPoll, SelectInterrupted, SelectReturn
    <3> QED
      BY <3>1
  <2>2. err' \in [Tasks -> Errors]
    BY ZenonT(30), <1>12 DEF SelectPoll, SelectInterrupted, SelectReturn, Errors
  <2>3. pc' \in [Tasks -> Pcs]
    <3>1. \/ pc' = [pc EXCEPT ![t] = "ret"]
          \/ pc' = [pc EXCEPT ![t] = "prep"]
      BY <1>12 DEF SelectPoll, SelectInterrupted, SelectReturn
    <3> QED
      BY ZenonT(30), <3>1 DEF Pcs
  <2> QED
    BY ZenonT(30), <1>12, <2>1, <2>2, <2>3 DEF SelectPoll, SelectInterrupted
<1>13. ASSUME NEW t \in Tasks, SelectPrepare(t) PROVE TypeInv'
  BY ZenonT(30), <1>13 DEF SelectPrepare, Pcs
<1>14. ASSUME NEW t \in Tasks, SelectRecheck(t) PROVE TypeInv'
  <2>1. pipeSig' \in [Tasks -> SUBSET SigBits]
    BY ZenonT(30), <1>14, SignalTaskType DEF SelectRecheck
  <2> QED
    BY ZenonT(30), <1>14, <2>1 DEF SelectRecheck, Pcs
<1>15. ASSUME NEW t \in Tasks, SelectWait(t) PROVE TypeInv'
  <2>1. recv' \in [Tasks -> SUBSET {"timer", "sleep", "pipe"}]
    BY <1>15 DEF SelectWait
  <2>2. sleepSig' \in [Tasks -> BOOLEAN] /\ pipeSig' \in [Tasks -> SUBSET SigBits]
    BY ZenonT(30), <1>15 DEF SelectWait, ClearSig
  <2> QED
    BY ZenonT(30), <1>15, <2>1, <2>2 DEF SelectWait, Pcs
<1>16. ASSUME NEW t \in Tasks, SelectCheck(t) PROVE TypeInv'
  <2>1. done' \in [Tasks -> Int]
    <3>1. done' = done \/ \E n \in {-1, 0, 1} : done' = [done EXCEPT ![t] = n]
      BY ZenonT(30), <1>16 DEF SelectCheck, SelectReturn
    <3> QED
      BY <3>1
  <2>2. err' \in [Tasks -> Errors]
    BY ZenonT(30), <1>16 DEF SelectCheck, SelectReturn, Errors
  <2>3. pc' \in [Tasks -> Pcs]
    <3>1. \/ pc' = [pc EXCEPT ![t] = "ret"]
          \/ pc' = [pc EXCEPT ![t] = "prep"]
      BY <1>16 DEF SelectCheck, SelectReturn
    <3> QED
      BY ZenonT(30), <3>1 DEF Pcs
  <2> QED
    BY ZenonT(30), <1>16, <2>1, <2>2, <2>3 DEF SelectCheck
<1>17. ASSUME NEW t \in Tasks, SelectLeave(t) PROVE TypeInv'
  <2>1. LocalsType'
    BY ZenonT(30), <1>17, LeaveType DEF SelectLeave
  <2> QED
    BY ZenonT(30), <1>17, <2>1 DEF SelectLeave, LocalsType
<1>18. ASSUME NEW t \in Tasks, Interrupt(t) PROVE TypeInv'
  BY ZenonT(30), <1>18 DEF Interrupt
<1>19. ASSUME NEW t \in Tasks, NEW e \in Ends, Close(t, e) PROVE TypeInv'
  <2>1. sleepSig' \in [Tasks -> BOOLEAN]
    <3>1. CASE UNCHANGED sleepSig
      BY <3>1
    <3>2. CASE sleepSig' = Wakeup(wchan, sleepSig, "ss")
      BY ZenonT(30), <3>2, WakeupType
    <3> QED
      BY ZenonT(30), <1>19, <3>1, <3>2 DEF Close
  <2>2. pipeSig' \in [Tasks -> SUBSET SigBits]
    BY ZenonT(30), <1>19, SignalTaskType DEF Close
  <2>3. flags' \in SUBSET Flags /\ freed' \in BOOLEAN
    BY ZenonT(30), <1>19 DEF Close, NoUser, Flags
  <2> QED
    BY ZenonT(30), <1>19, <2>1, <2>2, <2>3 DEF Close, FilesInv
<1>20. ASSUME NEW t \in Tasks, NEW c \in Tasks, NEW e \in Ends, Inherit(t, c, e)
       PROVE  TypeInv'
  BY ZenonT(30), <1>20 DEF Inherit, FilesInv
<1>21. CASE UNCHANGED vars
  BY <1>21 DEF vars
<1> QED
  BY ZenonT(30), <1>1, <1>2, <1>3, <1>4, <1>5, <1>6, <1>7, <1>8, <1>9, <1>10, <1>11, <1>12,
     <1>13, <1>14, <1>15, <1>16, <1>17, <1>18, <1>19, <1>20, <1>21, CallType,
     ReadCopyType, WriteCopyType
  DEF Next, Step, Gone

\* Every variable of the pipe keeps its type in every run; in particular reader
\* and writer stay inside the buffer and the reference counts are never negative.
THEOREM TypeCorrect == Spec => []TypeOK
<1>1. Init => FilesInv /\ TypeInv
  BY FilesInit, TypeInit
<1>2. FilesInv /\ TypeInv /\ [Next]_vars => (FilesInv /\ TypeInv)'
  BY FilesNext, TypeNext
<1>3. TypeInv => TypeOK
  BY DEF TypeInv
<1> QED
  BY <1>1, <1>2, <1>3, PTL DEF Spec

-----------------------------------------------------------------------------
(* The stream lock, the sleeps in get_stream(), stream_read() and              *)
(* stream_write(), and the end of the stream.                                  *)

\* A task is queued under the channel of the place it sleeps at, and only there.
SleepChannel ==
  \A t \in Tasks :
    wchan[t] = IF pc[t] = "getwait" THEN "flags"
               ELSE IF pc[t] = "sleep" THEN "ss" ELSE NoChan

\* What stream_read() or stream_write() found before it decided to sleep.
Blocked(t) ==
  \/ call[t] = "read" /\ ~can_read(reader, writer)
  \/ call[t] = "write" /\ ~can_write(reader, writer)

\* Nobody changes the stream between that test and the sleep.
StillBlocked == \A t \in Tasks : pc[t] = "presleep" => Blocked(t)

LockInv == SleepChannel /\ StreamLock /\ NoLostLockWakeup
DataInv == StillBlocked /\ NoLostDataWakeup

LEMMA LockInit == Init => LockInv /\ DataInv
BY DEF Init, LockInv, DataInv, SleepChannel, StreamLock, NoLostLockWakeup,
       StillBlocked, NoLostDataWakeup, Critical

\* The steps that touch neither the lock nor a sleeper.
QuietStep(t) ==
  /\ "LOCKED" \in flags' <=> "LOCKED" \in flags
  /\ "WANT_LOCK" \in flags' <=> "WANT_LOCK" \in flags
  /\ wchan' = wchan
  /\ \A u \in Tasks : u # t => pc'[u] = pc[u] /\ (sleepSig[u] => sleepSig'[u])
  /\ pc[t] \notin {"getwait", "sleep"} /\ pc'[t] \notin {"getwait", "sleep"}
  /\ pc[t] \in Critical <=> pc'[t] \in Critical

LEMMA QuietLock ==
  ASSUME TypeInv, TypeInv', LockInv, NEW t \in Tasks, QuietStep(t)
  PROVE  LockInv'
<1>1. SleepChannel'
  BY DEF QuietStep, LockInv, SleepChannel
<1>2. \A u \in Tasks : pc'[u] \in Critical <=> pc[u] \in Critical
  BY DEF QuietStep
<1>3. StreamLock'
  BY ZenonT(30), <1>2 DEF QuietStep, LockInv, StreamLock
<1>4. NoLostLockWakeup'
  BY ZenonT(30) DEF QuietStep, LockInv, NoLostLockWakeup
<1> QED
  BY ZenonT(30), <1>1, <1>3, <1>4 DEF LockInv

LEMMA CallQuiet ==
  ASSUME TypeInv, NEW t \in Tasks, Read(t) \/ Write(t) \/ Ioctl(t) \/ Select(t)
  PROVE  QuietStep(t)
<1>1. PICK l \in {"get", "poll"} : pc' = [pc EXCEPT ![t] = l]
  BY ZenonT(30) DEF Read, Write, Ioctl, Select, Enter, Goto
<1>2. pc[t] = "idle" /\ UNCHANGED <<flags, wchan, sleepSig>>
  BY ZenonT(30) DEF Read, Write, Ioctl, Select, Enter, sleepVars
<1> QED
  BY ZenonT(30), <1>1, <1>2 DEF QuietStep, TypeInv, TypeOK, Critical

LEMMA StepQuiet ==
  ASSUME TypeInv, NEW t \in Tasks,
         \/ ReadTest(t) \/ ReadCopy(t) \/ WriteTest(t) \/ WriteCopy(t) \/ Notify(t)
         \/ IoctlBody(t) \/ SelectInterrupted(t) \/ SelectPoll(t) \/ SelectPrepare(t)
         \/ SelectRecheck(t) \/ SelectWait(t) \/ SelectCheck(t) \/ SelectLeave(t)
  PROVE  QuietStep(t)
<1> USE DEF TypeInv, TypeOK
<1>1. UNCHANGED <<flags, wchan>>
  BY ZenonT(30) DEF ReadTest, ReadCopy, WriteTest, WriteCopy, Notify, IoctlBody,
     SelectInterrupted, SelectPoll, SelectPrepare, SelectRecheck, SelectWait,
     SelectCheck, SelectLeave, sleepVars
<1>2. \A u \in Tasks : u # t => (sleepSig[u] => sleepSig'[u])
  BY ZenonT(30) DEF ReadTest, ReadCopy, WriteTest, WriteCopy, Notify, IoctlBody,
     SelectInterrupted, SelectPoll, SelectPrepare, SelectRecheck, SelectWait,
     SelectCheck, SelectLeave, sleepVars, Wakeup, ClearSig
<1>3. PICK l \in {"rel", "presleep", "notify", "loop", "ret", "prep", "prepared",
                  "wait", "check", "idle"} :
        /\ pc' = [pc EXCEPT ![t] = l]
        /\ pc[t] \notin {"getwait", "sleep"}
        /\ l \in Critical <=> pc[t] \in Critical
  BY ZenonT(30) DEF ReadTest, ReadCopy, WriteTest, WriteCopy, Notify, IoctlBody,
     SelectInterrupted, SelectPoll, SelectPrepare, SelectRecheck, SelectWait,
     SelectCheck, SelectLeave, Return, SelectReturn, Leave, Goto, Critical
<1> QED
  BY ZenonT(30), <1>1, <1>2, <1>3 DEF QuietStep

\* release_stream() leaves nobody asleep in get_stream() without a signal.
LEMMA ReleaseWakes ==
  ASSUME TypeInv, LockInv, release_stream
  PROVE  /\ \A u \in Tasks : pc[u] = "getwait" => sleepSig'[u]
         /\ \A u \in Tasks : sleepSig[u] => sleepSig'[u]
         /\ "LOCKED" \notin flags'
<1>1. CASE "WANT_LOCK" \in flags
  BY ZenonT(30), <1>1 DEF TypeInv, TypeOK, LockInv, SleepChannel, release_stream, Wakeup
<1>2. CASE "WANT_LOCK" \notin flags
  BY <1>2 DEF TypeInv, TypeOK, LockInv, NoLostLockWakeup, release_stream
<1> QED
  BY ZenonT(30), <1>1, <1>2

LEMMA LockNext == TypeInv /\ TypeInv' /\ LockInv /\ [Next]_vars => LockInv'
<1> SUFFICES ASSUME TypeInv, TypeInv', LockInv, [Next]_vars PROVE LockInv'
  OBVIOUS
<1> USE DEF Goto
<1>1. ASSUME NEW t \in Tasks, AcquireStream(t) PROVE LockInv'
  <2>1. /\ pc[t] \notin Critical /\ pc' = [pc EXCEPT ![t] = "loop"]
        /\ "LOCKED" \notin flags /\ "LOCKED" \in flags'
        /\ wchan' = [wchan EXCEPT ![t] = NoChan]
    BY ZenonT(30), <1>1 DEF AcquireStream, AtGetStream, Dequeue, Critical
  <2>2. SleepChannel'
    BY ZenonT(30), <2>1 DEF TypeInv, TypeOK, LockInv, SleepChannel
  <2>3. StreamLock'
    BY ZenonT(30), <2>1 DEF TypeInv, TypeOK, LockInv, StreamLock, Critical
  <2>4. \A u \in Tasks : u # t => sleepSig'[u] = sleepSig[u]
    BY ZenonT(30), <1>1 DEF AcquireStream, SigAfterGet, ClearSig, TypeInv, TypeOK
  <2>5. NoLostLockWakeup'
    BY ZenonT(30), <2>1, <2>4 DEF TypeInv, TypeOK, LockInv, NoLostLockWakeup
  <2> QED
    BY <2>2, <2>3, <2>5 DEF LockInv
<1>2. ASSUME NEW t \in Tasks, WaitForStream(t) PROVE LockInv'
  <2>1. /\ pc[t] \notin Critical /\ pc' = [pc EXCEPT ![t] = "getwait"]
        /\ "LOCKED" \in flags /\ flags' = flags \cup {"WANT_LOCK"}
        /\ wchan' = [wchan EXCEPT ![t] = "flags"]
    BY ZenonT(30), <1>2 DEF WaitForStream, AtGetStream, SleepOn, Critical
  <2>2. SleepChannel'
    BY ZenonT(30), <2>1 DEF TypeInv, TypeOK, LockInv, SleepChannel
  <2>3. StreamLock'
    <3>1. \A u \in Tasks : pc'[u] \in Critical <=> pc[u] \in Critical
      BY ZenonT(30), <2>1 DEF TypeInv, TypeOK, Critical
    <3> QED
      BY <2>1, <3>1 DEF LockInv, StreamLock
  <2>4. NoLostLockWakeup'
    BY <2>1 DEF NoLostLockWakeup
  <2> QED
    BY <2>2, <2>3, <2>4 DEF LockInv
<1>3. ASSUME NEW t \in Tasks, Release(t) \/ DoNotSleep(t) PROVE LockInv'
  <2>1. PICK l \in {"idle", "get"} : pc' = [pc EXCEPT ![t] = l]
    BY <1>3 DEF Release, DoNotSleep, Leave
  <2>2. pc[t] \in {"rel", "presleep"} /\ wchan' = wchan /\ release_stream
    BY ZenonT(30), <1>3 DEF Release, DoNotSleep
  <2>3. SleepChannel'
    BY ZenonT(30), <2>1, <2>2 DEF TypeInv, TypeOK, LockInv, SleepChannel
  <2>4. StreamLock'
    <3>1. "LOCKED" \notin flags'
      BY ZenonT(30), <2>2, ReleaseWakes
    <3>2. \A u \in Tasks : pc'[u] \notin Critical
      BY ZenonT(30), <2>1, <2>2 DEF TypeInv, TypeOK, LockInv, StreamLock, Critical
    <3> QED
      BY <3>1, <3>2 DEF StreamLock
  <2>5. NoLostLockWakeup'
    BY ZenonT(30), <2>1, <2>2, ReleaseWakes DEF TypeInv, TypeOK, NoLostLockWakeup
  <2> QED
    BY ZenonT(30), <2>3, <2>4, <2>5 DEF LockInv
<1>4. ASSUME NEW t \in Tasks, GoToSleep(t) PROVE LockInv'
  <2>1. /\ pc[t] = "presleep" /\ pc' = [pc EXCEPT ![t] = "sleep"]
        /\ wchan' = [wchan EXCEPT ![t] = "ss"] /\ release_stream
    BY ZenonT(30), <1>4 DEF GoToSleep, SleepOn
  <2>2. SleepChannel'
    BY ZenonT(30), <2>1 DEF TypeInv, TypeOK, LockInv, SleepChannel
  <2>3. StreamLock'
    <3>1. "LOCKED" \notin flags'
      BY ZenonT(30), <2>1, ReleaseWakes
    <3>2. \A u \in Tasks : pc'[u] \notin Critical
      BY ZenonT(30), <2>1 DEF TypeInv, TypeOK, LockInv, StreamLock, Critical
    <3> QED
      BY <3>1, <3>2 DEF StreamLock
  <2>4. NoLostLockWakeup'
    BY ZenonT(30), <2>1, ReleaseWakes DEF TypeInv, TypeOK, NoLostLockWakeup
  <2> QED
    BY <2>2, <2>3, <2>4 DEF LockInv
<1>5. ASSUME NEW t \in Tasks, Resume(t) \/ Abandon(t) PROVE LockInv'
  <2>1. PICK l \in {"idle", "get"} : pc' = [pc EXCEPT ![t] = l]
    BY <1>5 DEF Resume, Abandon, Leave
  <2>2. /\ pc[t] = "sleep" /\ flags' = flags
        /\ wchan' = [wchan EXCEPT ![t] = NoChan]
        /\ sleepSig' = [sleepSig EXCEPT ![t] = FALSE]
    BY ZenonT(30), <1>5 DEF Resume, Abandon, Dequeue, ClearSig
  <2>3. SleepChannel'
    BY ZenonT(30), <2>1, <2>2 DEF TypeInv, TypeOK, LockInv, SleepChannel
  <2>4. StreamLock'
    <3>1. \A u \in Tasks : pc'[u] \in Critical <=> pc[u] \in Critical
      BY ZenonT(30), <2>1, <2>2 DEF TypeInv, TypeOK, Critical
    <3> QED
      BY ZenonT(30), <2>2, <3>1 DEF LockInv, StreamLock
  <2>5. NoLostLockWakeup'
    BY ZenonT(30), <2>1, <2>2 DEF TypeInv, TypeOK, LockInv, NoLostLockWakeup
  <2> QED
    BY <2>3, <2>4, <2>5 DEF LockInv
<1>6. ASSUME NEW t \in Tasks, Interrupt(t) PROVE LockInv'
  <2>1. /\ UNCHANGED <<flags, pc, wchan>>
        /\ sleepSig' = [sleepSig EXCEPT ![t] = TRUE]
    BY ZenonT(30), <1>6 DEF Interrupt
  <2> QED
    BY ZenonT(30), <2>1 DEF TypeInv, TypeOK, LockInv, SleepChannel, StreamLock, NoLostLockWakeup
<1>7. ASSUME NEW t \in Tasks, NEW e \in Ends, Close(t, e) PROVE LockInv'
  <2>1. UNCHANGED <<pc, wchan>>
    BY ZenonT(30), <1>7 DEF Close
  <2>2. /\ "LOCKED" \in flags' <=> "LOCKED" \in flags
        /\ "WANT_LOCK" \in flags' <=> "WANT_LOCK" \in flags
    BY <1>7 DEF Close, NoUser
  <2>3. \A u \in Tasks : sleepSig[u] => sleepSig'[u]
    BY ZenonT(30), <1>7 DEF Close, Wakeup
  <2> QED
    BY ZenonT(30), <2>1, <2>2, <2>3 DEF LockInv, SleepChannel, StreamLock, NoLostLockWakeup
<1>8. ASSUME NEW t \in Tasks, NEW c \in Tasks, NEW e \in Ends, Inherit(t, c, e)
      PROVE  LockInv'
  BY ZenonT(30), <1>8 DEF Inherit, sleepVars, LockInv, SleepChannel, StreamLock, NoLostLockWakeup
<1>9. CASE UNCHANGED vars
  BY <1>9 DEF vars, sleepVars, LockInv, SleepChannel, StreamLock, NoLostLockWakeup
<1> QED
  BY <1>1, <1>2, <1>3, <1>4, <1>5, <1>6, <1>7, <1>8, <1>9, CallQuiet, StepQuiet,
     QuietLock
  DEF Next, Step, Gone

-----------------------------------------------------------------------------
(* Sleeping for data or room.                                                  *)

\* The steps of t that leave reader and writer alone, end no notification, and
\* put nobody to sleep.
CalmStep(t) ==
  /\ UNCHANGED <<reader, writer>>
  /\ \A u \in Tasks :
       u # t => pc'[u] = pc[u] /\ call'[u] = call[u] /\ (sleepSig[u] => sleepSig'[u])
  /\ pc[t] # "notify" /\ pc'[t] # "sleep"
  /\ pc'[t] = "presleep" => Blocked(t)'

LEMMA CalmData ==
  ASSUME TypeInv, TypeInv', DataInv, NEW t \in Tasks, CalmStep(t)
  PROVE  DataInv'
<1>1. StillBlocked'
  BY ZenonT(30) DEF CalmStep, DataInv, StillBlocked, Blocked
<1>2. ASSUME NEW u \in Tasks, pc'[u] = "sleep", ~sleepSig'[u]
      PROVE  \/ \E v \in Tasks : pc'[v] = "notify"
             \/ call'[u] = "read" /\ ~can_read(reader', writer')
             \/ call'[u] = "write" /\ ~can_write(reader', writer')
  <2>1. u # t /\ pc[u] = "sleep" /\ ~sleepSig[u] /\ call'[u] = call[u]
    BY <1>2 DEF CalmStep
  <2>2. CASE \E v \in Tasks : pc[v] = "notify"
    <3>1. PICK v \in Tasks : pc[v] = "notify"
      BY ZenonT(30), <2>2
    <3>2. pc'[v] = "notify"
      BY ZenonT(30), <3>1 DEF CalmStep
    <3> QED
      BY <3>2
  <2>3. CASE Blocked(u)
    BY ZenonT(30), <2>1, <2>3 DEF CalmStep, Blocked
  <2> QED
    BY ZenonT(30), <2>1, <2>2, <2>3 DEF DataInv, NoLostDataWakeup, Blocked
<1>3. NoLostDataWakeup'
  BY <1>2 DEF NoLostDataWakeup
<1> QED
  BY ZenonT(30), <1>1, <1>3 DEF DataInv

LEMMA CallCalm ==
  ASSUME TypeInv, NEW t \in Tasks, Read(t) \/ Write(t) \/ Ioctl(t) \/ Select(t)
  PROVE  CalmStep(t)
<1>1. PICK c \in CallKinds : call' = [call EXCEPT ![t] = c]
  BY ZenonT(30) DEF Read, Write, Ioctl, Select, Enter, CallKinds
<1>2. PICK l \in {"get", "poll"} : pc' = [pc EXCEPT ![t] = l]
  BY ZenonT(30) DEF Read, Write, Ioctl, Select, Enter, Goto
<1>3. pc[t] = "idle" /\ UNCHANGED <<reader, writer, sleepSig>>
  BY ZenonT(30) DEF Read, Write, Ioctl, Select, Enter, sleepVars, streamVars
<1> QED
  BY ZenonT(30), <1>1, <1>2, <1>3 DEF CalmStep, TypeInv, TypeOK

LEMMA StepCalm ==
  ASSUME TypeInv, TypeInv', LockInv, NEW t \in Tasks,
         \/ AcquireStream(t) \/ WaitForStream(t) \/ Release(t) \/ ReadTest(t)
         \/ WriteTest(t) \/ DoNotSleep(t) \/ Resume(t) \/ Abandon(t) \/ IoctlBody(t)
         \/ SelectInterrupted(t) \/ SelectPoll(t) \/ SelectPrepare(t)
         \/ SelectRecheck(t) \/ SelectWait(t) \/ SelectCheck(t) \/ SelectLeave(t)
  PROVE  CalmStep(t)
<1> USE DEF TypeInv, TypeOK
<1>1. UNCHANGED <<reader, writer>>
  BY ZenonT(30) DEF AcquireStream, WaitForStream, Release, ReadTest, WriteTest, DoNotSleep,
     Resume, Abandon, IoctlBody, SelectInterrupted, SelectPoll, SelectPrepare,
     SelectRecheck, SelectWait, SelectCheck, SelectLeave, streamVars
<1>2. CASE Release(t) \/ DoNotSleep(t)
  <2>1. \A u \in Tasks : sleepSig[u] => sleepSig'[u]
    BY ZenonT(30), <1>2, ReleaseWakes DEF Release, DoNotSleep
  <2>2. /\ pc[t] \in {"rel", "presleep"}
        /\ pc' = [pc EXCEPT ![t] = "idle"] \/ pc' = [pc EXCEPT ![t] = "get"]
        /\ call' = call \/ call' = [call EXCEPT ![t] = "none"]
    BY ZenonT(30), <1>2 DEF Release, DoNotSleep, Leave, Goto, callVars
  <2> QED
    BY ZenonT(30), <1>1, <2>1, <2>2 DEF CalmStep
<1>3. CASE AcquireStream(t) \/ WaitForStream(t)
  <2>1. \A u \in Tasks : u # t => (sleepSig[u] => sleepSig'[u])
    BY ZenonT(30), <1>3 DEF AcquireStream, WaitForStream, SigAfterGet, ClearSig
  <2>2. /\ pc[t] \in {"get", "getwait"} /\ call' = call
        /\ pc' = [pc EXCEPT ![t] = "loop"] \/ pc' = [pc EXCEPT ![t] = "getwait"]
    BY ZenonT(30), <1>3 DEF AcquireStream, WaitForStream, AtGetStream, Goto, callVars
  <2> QED
    BY ZenonT(30), <1>1, <2>1, <2>2 DEF CalmStep
<1>4. CASE ReadTest(t) \/ WriteTest(t)
  <2>1. pc[t] = "loop" /\ UNCHANGED <<call, sleepSig>>
    BY ZenonT(30), <1>4 DEF ReadTest, WriteTest, sleepVars
  <2>2. \/ pc' = [pc EXCEPT ![t] = "rel"]
        \/ pc' = [pc EXCEPT ![t] = "presleep"] /\ Blocked(t)
    BY ZenonT(30), <1>4 DEF ReadTest, WriteTest, Return, Goto, Blocked
  <2> QED
    BY ZenonT(30), <1>1, <2>1, <2>2 DEF CalmStep, Blocked
<1>5. CASE Resume(t) \/ Abandon(t)
  <2>1. /\ pc[t] = "sleep"
        /\ pc' = [pc EXCEPT ![t] = "idle"] \/ pc' = [pc EXCEPT ![t] = "get"]
        /\ call' = call \/ call' = [call EXCEPT ![t] = "none"]
        /\ sleepSig' = [sleepSig EXCEPT ![t] = FALSE]
    BY ZenonT(30), <1>5 DEF Resume, Abandon, Leave, Goto, callVars, ClearSig
  <2>2. \A u \in Tasks : u # t => sleepSig'[u] = sleepSig[u]
    BY <2>1
  <2>3. \A u \in Tasks : u # t => pc'[u] = pc[u] /\ call'[u] = call[u]
    BY ZenonT(30), <2>1
  <2>4. pc[t] # "notify" /\ pc'[t] \notin {"sleep", "presleep"}
    BY <2>1
  <2> QED
    BY ZenonT(30), <1>1, <2>2, <2>3, <2>4 DEF CalmStep
<1>6. CASE \/ IoctlBody(t) \/ SelectInterrupted(t) \/ SelectPoll(t) \/ SelectPrepare(t)
           \/ SelectRecheck(t) \/ SelectWait(t) \/ SelectCheck(t) \/ SelectLeave(t)
  <2>1. PICK l \in {"rel", "ret", "prep", "prepared", "wait", "check", "idle"} :
          pc' = [pc EXCEPT ![t] = l] /\ pc[t] # "notify"
    BY ZenonT(30), <1>6 DEF IoctlBody, SelectInterrupted, SelectPoll, SelectPrepare,
       SelectRecheck, SelectWait, SelectCheck, SelectLeave, SelectReturn, Leave, Goto
  <2>2. call' = call \/ call' = [call EXCEPT ![t] = "none"]
    BY ZenonT(30), <1>6 DEF IoctlBody, SelectInterrupted, SelectPoll, SelectPrepare,
       SelectRecheck, SelectWait, SelectCheck, SelectLeave, Leave, callVars
  <2>3. sleepSig' = sleepSig \/ sleepSig' = [sleepSig EXCEPT ![t] = FALSE]
    BY ZenonT(30), <1>6 DEF IoctlBody, SelectInterrupted, SelectPoll, SelectPrepare,
       SelectRecheck, SelectWait, SelectCheck, SelectLeave, sleepVars, ClearSig
  <2>4. \A u \in Tasks : u # t => (sleepSig[u] => sleepSig'[u])
    BY ZenonT(30), <2>3
  <2>5. \A u \in Tasks : u # t => pc'[u] = pc[u] /\ call'[u] = call[u]
    BY ZenonT(30), <2>1, <2>2
  <2>6. pc[t] # "notify" /\ pc'[t] \notin {"sleep", "presleep"}
    BY ZenonT(30), <2>1
  <2> QED
    BY ZenonT(30), <1>1, <2>4, <2>5, <2>6 DEF CalmStep
<1> QED
  BY ZenonT(30), <1>2, <1>3, <1>4, <1>5, <1>6

LEMMA DataNext ==
  TypeInv /\ TypeInv' /\ LockInv /\ DataInv /\ [Next]_vars => DataInv'
<1> SUFFICES ASSUME TypeInv, TypeInv', LockInv, DataInv, [Next]_vars PROVE DataInv'
  BY ZenonT(30)
<1>1. ASSUME NEW t \in Tasks, ReadCopy(t) \/ WriteCopy(t) PROVE DataInv'
  <2>1. pc[t] = "loop" /\ pc' = [pc EXCEPT ![t] = "notify"]
    BY ZenonT(30), <1>1 DEF ReadCopy, WriteCopy, Goto
  <2>2. \A u \in Tasks : pc'[u] # "presleep"
    BY ZenonT(30), <2>1 DEF TypeInv, TypeOK, LockInv, StreamLock, Critical
  <2>3. pc'[t] = "notify"
    BY ZenonT(30), <2>1 DEF TypeInv, TypeOK
  <2> QED
    BY ZenonT(30), <2>2, <2>3 DEF DataInv, StillBlocked, NoLostDataWakeup
<1>2. ASSUME NEW t \in Tasks, Notify(t) PROVE DataInv'
  <2>1. /\ pc[t] = "notify" /\ pc' = [pc EXCEPT ![t] = "loop"]
        /\ sleepSig' = Wakeup(wchan, sleepSig, "ss")
    BY ZenonT(30), <1>2 DEF Notify, Goto
  <2>2. \A u \in Tasks : pc'[u] # "presleep"
    BY ZenonT(30), <2>1 DEF TypeInv, TypeOK, LockInv, StreamLock, Critical
  <2>3. \A u \in Tasks : pc'[u] = "sleep" => wchan[u] = "ss"
    BY ZenonT(30), <2>1 DEF TypeInv, TypeOK, LockInv, SleepChannel
  <2>4. \A u \in Tasks : pc'[u] = "sleep" => sleepSig'[u]
    BY ZenonT(30), <2>1, <2>3 DEF Wakeup
  <2> QED
    BY <2>2, <2>4 DEF DataInv, StillBlocked, NoLostDataWakeup
<1>3. ASSUME NEW t \in Tasks, GoToSleep(t) PROVE DataInv'
  <2>1. /\ pc[t] = "presleep" /\ pc' = [pc EXCEPT ![t] = "sleep"]
        /\ UNCHANGED <<reader, writer, call>> /\ release_stream
    BY ZenonT(30), <1>3 DEF GoToSleep, Goto, streamVars, callVars
  <2>2. \A u \in Tasks : pc'[u] # "presleep"
    BY ZenonT(30), <2>1 DEF TypeInv, TypeOK, LockInv, StreamLock, Critical
  <2>3. Blocked(t)
    BY <2>1 DEF DataInv, StillBlocked
  <2>4. \A u \in Tasks : sleepSig[u] => sleepSig'[u]
    BY ZenonT(30), <2>1, ReleaseWakes
  <2>5. NoLostDataWakeup'
    BY ZenonT(30), <2>1, <2>3, <2>4 DEF TypeInv, TypeOK, DataInv, NoLostDataWakeup, Blocked
  <2> QED
    BY <2>2, <2>5 DEF DataInv, StillBlocked
<1>4. ASSUME UNCHANGED <<reader, writer, pc, call>>,
             \A u \in Tasks : sleepSig[u] => sleepSig'[u]
      PROVE  DataInv'
  BY ZenonT(30), <1>4 DEF DataInv, StillBlocked, NoLostDataWakeup, Blocked
<1>5. ASSUME NEW t \in Tasks, Interrupt(t) PROVE DataInv'
  <2>1. UNCHANGED <<reader, writer, pc, call>>
    BY ZenonT(30), <1>5 DEF Interrupt, streamVars, callVars
  <2>2. \A u \in Tasks : sleepSig[u] => sleepSig'[u]
    BY ZenonT(30), <1>5 DEF Interrupt, TypeInv, TypeOK
  <2> QED
    BY ZenonT(30), <1>4, <2>1, <2>2
<1>6. ASSUME NEW t \in Tasks, NEW e \in Ends, Close(t, e) PROVE DataInv'
  <2>1. UNCHANGED <<reader, writer, pc, call>>
    BY ZenonT(30), <1>6 DEF Close, streamVars, callVars
  <2>2. \A u \in Tasks : sleepSig[u] => sleepSig'[u]
    BY ZenonT(30), <1>6 DEF Close, Wakeup
  <2> QED
    BY ZenonT(30), <1>4, <2>1, <2>2
<1>7. ASSUME NEW t \in Tasks, NEW c \in Tasks, NEW e \in Ends, Inherit(t, c, e)
      PROVE  DataInv'
  BY <1>4, <1>7 DEF Inherit, streamVars, callVars, sleepVars
<1>8. CASE UNCHANGED vars
  BY ZenonT(30), <1>4, <1>8 DEF vars, streamVars, callVars, sleepVars
<1> QED
  BY ZenonT(30), <1>1, <1>2, <1>3, <1>5, <1>6, <1>7, <1>8, CallCalm, StepCalm, CalmData
  DEF Next, Step, Gone

-----------------------------------------------------------------------------
(* The end of the stream.                                                      *)

\* A task in a call has the end it uses open.
InCallOpen == \A t \in Tasks : pc[t] # "idle" => t \in holds[end[t]]

EndInv ==
  /\ InCallOpen
  /\ freed <=> \A e \in Ends : holds[e] = {}
  /\ \A e \in Ends : NoUser(e) \in flags <=> holds[e] = {}

LEMMA EndInit == Init => EndInv
<1> SUFFICES ASSUME Init PROVE EndInv
  BY ZenonT(30)
<1>1. \A e \in Ends : holds[e] # {}
  BY ZenonT(30), PipeAssumption DEF Init, Ends
<1>2. InCallOpen
  BY ZenonT(30) DEF Init, InCallOpen
<1> QED
  BY <1>1, <1>2 DEF Init, EndInv, Ends

\* A step inside a call stays in it, on the same end, or returns from it.
LEMMA StepStays ==
  ASSUME TypeInv, NEW t \in Tasks, Step(t) \/ Interrupt(t)
  PROVE  \A u \in Tasks : pc'[u] # "idle" => pc[u] # "idle" /\ end'[u] = end[u]
<1>1. PICK l \in Pcs : pc' = [pc EXCEPT ![t] = l] \/ pc' = pc
  BY ZenonT(30) DEF Step, Interrupt, AcquireStream, WaitForStream, Release, ReadTest, ReadCopy,
     WriteTest, WriteCopy, Notify, GoToSleep, DoNotSleep, Resume, Abandon, IoctlBody,
     SelectInterrupted, SelectPoll, SelectPrepare, SelectRecheck, SelectWait,
     SelectCheck, SelectLeave, Return, SelectReturn, Leave, Goto, Pcs, Critical
<1>2. pc[t] # "idle"
  BY ZenonT(30) DEF Step, Interrupt, AcquireStream, WaitForStream, AtGetStream, Release, ReadTest,
     ReadCopy, WriteTest, WriteCopy, Notify, GoToSleep, DoNotSleep, Resume, Abandon,
     IoctlBody, SelectInterrupted, SelectPoll, SelectPrepare, SelectRecheck,
     SelectWait, SelectCheck, SelectLeave
<1>3. CASE Release(t) \/ Abandon(t) \/ SelectLeave(t)
  BY ZenonT(30), <1>2, <1>3 DEF Release, Abandon, SelectLeave, Leave, Goto, TypeInv, TypeOK
<1>4. CASE UNCHANGED end
  BY ZenonT(30), <1>1, <1>2, <1>4 DEF TypeInv, TypeOK
<1> QED
  BY ZenonT(30), <1>3, <1>4 DEF Step, Interrupt, AcquireStream, WaitForStream, ReadTest, ReadCopy,
     WriteTest, WriteCopy, Notify, GoToSleep, DoNotSleep, Resume, IoctlBody,
     SelectInterrupted, SelectPoll, SelectPrepare, SelectRecheck, SelectWait,
     SelectCheck, callVars

\* ... and leaves the descriptors and the flags of the last close alone.
LEMMA StepKeepsEnds ==
  ASSUME NEW t \in Tasks,
         Read(t) \/ Write(t) \/ Ioctl(t) \/ Select(t) \/ Step(t) \/ Interrupt(t)
  PROVE  /\ UNCHANGED <<holds, freed>>
         /\ \A e \in Ends : NoUser(e) \in flags' <=> NoUser(e) \in flags
<1>1. UNCHANGED <<holds, freed>>
  BY ZenonT(30) DEF Read, Write, Ioctl, Select, Enter, Step, Interrupt, AcquireStream,
     WaitForStream, Release, ReadTest, ReadCopy, WriteTest, WriteCopy, Notify,
     GoToSleep, DoNotSleep, Resume, Abandon, IoctlBody, SelectInterrupted,
     SelectPoll, SelectPrepare, SelectRecheck, SelectWait, SelectCheck,
     SelectLeave, fileVars
<1>2. \/ flags' = flags \/ flags' = flags \ {"WANT_LOCK", "LOCKED"}
      \/ flags' = (flags \ {"WANT_LOCK"}) \cup {"LOCKED"}
      \/ flags' = flags \cup {"WANT_LOCK"}
  BY ZenonT(30) DEF Read, Write, Ioctl, Select, Enter, Step, Interrupt, AcquireStream,
     WaitForStream, Release, ReadTest, ReadCopy, WriteTest, WriteCopy, Notify,
     GoToSleep, DoNotSleep, Resume, Abandon, IoctlBody, SelectInterrupted,
     SelectPoll, SelectPrepare, SelectRecheck, SelectWait, SelectCheck,
     SelectLeave, release_stream
<1> QED
  BY ZenonT(30), <1>1, <1>2 DEF NoUser, Ends

LEMMA EndNext == TypeInv /\ FilesInv /\ EndInv /\ [Next]_vars => EndInv'
<1> SUFFICES ASSUME TypeInv, FilesInv, EndInv, [Next]_vars PROVE EndInv'
  BY ZenonT(30)
<1>1. ASSUME NEW t \in Tasks, Step(t) \/ Interrupt(t) PROVE EndInv'
  BY ZenonT(30), <1>1, StepStays, StepKeepsEnds DEF EndInv, InCallOpen
<1>2. ASSUME NEW t \in Tasks, Read(t) \/ Write(t) \/ Ioctl(t) \/ Select(t)
      PROVE  EndInv'
  <2>1. PICK e \in Ends : t \in holds[e] /\ end' = [end EXCEPT ![t] = e]
    BY ZenonT(30), <1>2 DEF Read, Write, Ioctl, Select, Enter, Ends
  <2>2. PICK l : pc' = [pc EXCEPT ![t] = l]
    BY ZenonT(30), <1>2 DEF Read, Write, Ioctl, Select, Enter, Goto
  <2>3. UNCHANGED holds
    BY ZenonT(30), <1>2, StepKeepsEnds
  <2>4. InCallOpen'
    BY <2>1, <2>2, <2>3 DEF EndInv, InCallOpen, TypeInv, TypeOK
  <2> QED
    BY ZenonT(30), <1>2, <2>4, StepKeepsEnds DEF EndInv
<1>3. ASSUME NEW t \in Tasks, NEW e \in Ends, Close(t, e) PROVE EndInv'
  <2>1. /\ pc[t] = "idle" /\ t \in holds[e] /\ UNCHANGED <<pc, end>>
        /\ holds' = [holds EXCEPT ![e] = @ \ {t}]
    BY ZenonT(30), <1>3 DEF Close, callVars
  <2>2. f_count[e] = 1 <=> holds[e] = {t}
    <3>1. IsFiniteSet(holds[e]) /\ f_count[e] = Cardinality(holds[e])
      BY ZenonT(30), HoldsFinite DEF FilesInv
    <3>2. Cardinality(holds[e]) = 1 <=> \E x : holds[e] = {x}
      BY ZenonT(30), <3>1, FS_Singleton
    <3> QED
      BY ZenonT(30), <2>1, <3>1, <3>2
  <2>3. f_count[e] = 1 <=> holds'[e] = {}
    BY ZenonT(30), <2>1, <2>2 DEF TypeInv, TypeOK
  <2>4. InCallOpen'
    BY <2>1 DEF EndInv, InCallOpen, TypeInv, TypeOK
  <2>5. \A d \in Ends : d # e => holds'[d] = holds[d]
    BY ZenonT(30), <2>1 DEF TypeInv, TypeOK
  <2>6. \A d \in Ends : NoUser(d) \in flags' <=> holds'[d] = {}
    <3>1. IF f_count[e] = 1 THEN flags' = flags \cup {NoUser(e)} ELSE flags' = flags
      BY ZenonT(30), <1>3 DEF Close
    <3>2. \A d \in Ends : NoUser(d) = NoUser(e) => d = e
      BY DEF NoUser, Ends
    <3>3. \A d \in Ends : NoUser(d) \in flags <=> holds[d] = {}
      BY ZenonT(30) DEF EndInv
    <3>4. \A d \in Ends : d # e => (NoUser(d) \in flags' <=> NoUser(d) \in flags)
      BY ZenonT(30), <3>1, <3>2
    <3>5. NoUser(e) \in flags' <=> holds'[e] = {}
      BY ZenonT(30), <2>1, <2>3, <3>1, <3>3
    <3> QED
      BY ZenonT(30), <2>5, <3>3, <3>4, <3>5
  <2>7. freed' <=> \A d \in Ends : NoUser(d) \in flags'
    BY ZenonT(30), <1>3, <2>1 DEF Close, NoUser, EndInv, Ends, TypeInv, TypeOK
  <2> QED
    BY ZenonT(30), <2>4, <2>6, <2>7 DEF EndInv
<1>4. ASSUME NEW t \in Tasks, NEW c \in Tasks, NEW e \in Ends, Inherit(t, c, e)
      PROVE  EndInv'
  <2>1. /\ t \in holds[e] /\ holds' = [holds EXCEPT ![e] = @ \cup {c}]
        /\ UNCHANGED <<pc, end, flags, freed>>
    BY <1>4 DEF Inherit, callVars
  <2>2. \A d \in Ends : holds[d] \subseteq holds'[d] /\ (holds'[d] = {} <=> holds[d] = {})
    BY ZenonT(30), <2>1 DEF TypeInv, TypeOK
  <2> QED
    BY ZenonT(30), <2>1, <2>2 DEF EndInv, InCallOpen, TypeInv, TypeOK
<1>5. CASE UNCHANGED vars
  BY <1>5 DEF vars, fileVars, callVars, EndInv, InCallOpen
<1> QED
  BY <1>1, <1>2, <1>3, <1>4, <1>5 DEF Next, Gone

-----------------------------------------------------------------------------

\* The inductive invariant of the pipe.
PipeInv == FilesInv /\ TypeInv /\ LockInv /\ DataInv /\ EndInv

THEOREM Invariance == Spec => []PipeInv
<1>1. Init => PipeInv
  BY ZenonT(30), FilesInit, TypeInit, LockInit, EndInit DEF PipeInv
<1>2. PipeInv /\ [Next]_vars => PipeInv'
  BY FilesNext, TypeNext, LockNext, DataNext, EndNext DEF PipeInv
<1> QED
  BY <1>1, <1>2, PTL DEF Spec

\* At most one task at a time is between get_stream() and release_stream(), and
\* UNF_LOCKED says so, whatever else the tasks do.
THEOREM StreamLockHolds == Spec => []StreamLock
BY Invariance, PTL DEF PipeInv, LockInv

\* No task sleeps in get_stream() without the flag that gets it woken.
THEOREM NoLostLockWakeupHolds == Spec => []NoLostLockWakeup
BY Invariance, PTL DEF PipeInv, LockInv

\* No task sleeps in stream_read() or stream_write() on a stream that is ready for
\* it, unless the task that made it ready is on its way to ix_wakeup().
THEOREM NoLostDataWakeupHolds == Spec => []NoLostDataWakeup
BY Invariance, PTL DEF PipeInv, DataInv

\* __pclose() frees the stream when, and only when, nobody has it open or uses it.
THEOREM FreedWhenUnusedHolds == Spec => []FreedWhenUnused
<1>1. PipeInv => FreedWhenUnused
  BY DEF PipeInv, FilesInv, TypeInv, TypeOK, EndInv, InCallOpen, FreedWhenUnused
<1> QED
  BY <1>1, Invariance, PTL
=============================================================================
