-------------------------------- MODULE Pipe --------------------------------
(* A pipe shared by several processes: library/pipe.c and the stream functions *)
(* of library/unp.c (get_stream, release_stream, stream_read, stream_write,    *)
(* unp_ioctl, unp_select, __pclose), with select() on one of its ends          *)
(* (library/select.c).  A step is the code between two points at which the     *)
(* task can be preempted and at which another task could tell the difference;  *)
(* the code between Forbid() and Permit(), or Forbid() and ix_sleep(), is one  *)
(* step.                                                                       *)
EXTENDS Integers, Sequences, SleepQueue, FiniteSets

-----------------------------------------------------------------------------
(* The ring buffer of struct sock_stream (include/sys/unix_socket.h) and the   *)
(* copy loops of stream_read() and stream_write() (library/unp.c).             *)
(* Positions are offsets from ss->buffer; one of the SIZE cells stays empty.   *)

CONSTANT SIZE      \* UNIX_SOCKET_SIZE

ASSUME SizeAssumption == SIZE \in Nat /\ SIZE >= 2

Pos == 0 .. SIZE - 1

Least(a, b) == IF a < b THEN a ELSE b

can_read(rd, wr) == rd # wr

can_write(rd, wr) == ~(rd = wr + 1 \/ (rd = 0 /\ wr = SIZE - 1))

\* unp_ioctl(FIONREAD): the number of bytes that can be read.
FIONREAD(rd, wr) ==
  IF rd < wr THEN wr - rd ELSE IF rd > wr THEN SIZE - (rd - wr) ELSE 0

(* One turn of stream_read's copy, for a request of len bytes: ReadSeg1 bytes   *)
(* up to the end of the buffer, which takes the reader to ReadMid, and ReadSeg2 *)
(* bytes from there.                                                            *)
ReadSeg1(rd, wr, len) == IF rd > wr THEN Least(len, SIZE - rd) ELSE 0

ReadMid(rd, wr, len) ==
  LET r == rd + ReadSeg1(rd, wr, len) IN IF r = SIZE THEN 0 ELSE r

ReadSeg2(rd, wr, len) ==
  LET left == len - ReadSeg1(rd, wr, len)
      mid  == ReadMid(rd, wr, len)
  IN  IF left # 0 /\ mid < wr THEN Least(left, wr - mid) ELSE 0

ReadCount(rd, wr, len) == ReadSeg1(rd, wr, len) + ReadSeg2(rd, wr, len)
ReadEnd(rd, wr, len) == ReadMid(rd, wr, len) + ReadSeg2(rd, wr, len)

\* The bytes the turn delivers.
ReadBytes(buffer, rd, wr, len) ==
  [i \in 1 .. ReadCount(rd, wr, len) |->
     IF i <= ReadSeg1(rd, wr, len)
     THEN buffer[rd + i - 1]
     ELSE buffer[ReadMid(rd, wr, len) + i - ReadSeg1(rd, wr, len) - 1]]

\* A faulty WriteSeg1: it fills the last cell too, up to the reader.
WriteSeg1FillsAll(rd, wr, len) ==
  IF wr >= rd THEN Least(len, SIZE - wr) ELSE 0

(* One turn of stream_write's copy: WriteSeg1 bytes up to the end of the buffer *)
(* (one cell less when the reader is at its start), then WriteSeg2 bytes up to  *)
(* one cell before the reader.                                                  *)
WriteSeg1(rd, wr, len) ==
  IF wr >= rd THEN Least(len, SIZE - 1 - wr + (IF rd > 0 THEN 1 ELSE 0)) ELSE 0

\* A faulty WriteMid: the writer is not wrapped around.
WriteMidNoWrap(rd, wr, len) == wr + WriteSeg1(rd, wr, len)

WriteMid(rd, wr, len) ==
  LET w == wr + WriteSeg1(rd, wr, len) IN IF w = SIZE THEN 0 ELSE w

WriteSeg2(rd, wr, len) ==
  LET left == len - WriteSeg1(rd, wr, len)
      mid  == WriteMid(rd, wr, len)
  IN  IF mid < rd - 1 THEN Least(left, rd - mid - 1) ELSE 0

WriteCount(rd, wr, len) == WriteSeg1(rd, wr, len) + WriteSeg2(rd, wr, len)
WriteEnd(rd, wr, len) == WriteMid(rd, wr, len) + WriteSeg2(rd, wr, len)

\* The buffer after a turn that writes the first bytes of data.
WrittenBuffer(buffer, rd, wr, len, data) ==
  LET n1  == WriteSeg1(rd, wr, len)
      n2  == WriteSeg2(rd, wr, len)
      mid == WriteMid(rd, wr, len)
  IN  [p \in Pos |->
         IF wr <= p /\ p < wr + n1 THEN data[p - wr + 1]
         ELSE IF mid <= p /\ p < mid + n2 THEN data[n1 + p - mid + 1]
         ELSE buffer[p]]

\* The bytes between reader and writer, oldest first.
Contents(buffer, rd, wr) ==
  [i \in 1 .. FIONREAD(rd, wr) |->
     buffer[IF rd + i - 1 < SIZE THEN rd + i - 1 ELSE rd + i - 1 - SIZE]]

-----------------------------------------------------------------------------
(* The pipe.                                                                   *)

CONSTANTS
  Byte,           \* the values a byte can have
  MaxLen,         \* the longest read() or write()
  Payloads,       \* what a write() may have to write
  Readers,        \* tasks that hold the read end at the start
  Writers,        \* tasks that hold the write end at the start
  Calls,          \* [Tasks -> SUBSET CallKinds]: the calls a task may make
  Interruptible,  \* tasks that Unix signals are sent to
  PipeSig,        \* u_pipe_sig, the exec signal bit each task allocated
  NoTask

Ends == {"r", "w"}
CallKinds == {"read", "write", "ioctl", "select"}   \* and "none" outside a call
Flags == {"NO_READER", "NO_WRITER", "LOCKED", "WANT_LOCK"}
Chans == {"ss", "flags"}     \* the two sleep channels: ss and &ss->flags
Errors == {"none", "EAGAIN", "EPIPE", "EINTR"}
Timeouts == {"nil", "zero", "some"}
SigBits == {PipeSig[t] : t \in Tasks}

ASSUME PipeAssumption ==
  /\ IsFiniteSet(Tasks)
  /\ Byte # {}
  /\ MaxLen \in Nat
  /\ Payloads \in SUBSET Seq(Byte)
  /\ \A d \in Payloads : Len(d) <= MaxLen
  /\ Readers \in SUBSET Tasks /\ Readers # {}
  /\ Writers \in SUBSET Tasks /\ Writers # {}
  /\ Calls \in [Tasks -> SUBSET CallKinds]
  /\ Interruptible \in SUBSET Tasks
  /\ NoTask \notin Tasks
  /\ NoChan \notin Chans

VARIABLES
  reader, writer, buffer, flags, \* the sock_stream
  ssTask,                        \* ss->task, the task that select()s on it
  freed,                         \* the sock_stream has been given to kfree()
  holds,                         \* [Ends -> SUBSET Tasks]: who has it open
  f_count,                       \* f_count of the two struct file
  nonblock,                      \* FNDELAY in f_flags of the two struct file
  pc, call, end,                 \* where each task is, in which call, on which end
  len, data, got, done, err,     \* locals and results of that call
  timo, recv,                    \* select(): timeout and recv_wait_sigs
  wchan, sleepSig,               \* see SleepQueue
  pipeSig                        \* the latched u_pipe_sig bits of each task

streamVars == <<reader, writer, buffer>>
fileVars == <<holds, f_count, nonblock>>
callVars == <<call, end, len, data, got, done, err, timo>>
sleepVars == <<wchan, sleepSig>>
vars == <<streamVars, flags, ssTask, freed, fileVars, pc, callVars, recv,
          sleepVars, pipeSig>>

Goto(t, l) == pc' = [pc EXCEPT ![t] = l]

\* pipe(): init_stream() and the two struct file, already shared by vfork().
Init ==
  /\ reader = 0 /\ writer = 0
  /\ buffer \in [Pos -> {CHOOSE b \in Byte : TRUE}]
  /\ flags = {}
  /\ ssTask = NoTask
  /\ freed = FALSE
  /\ holds = [e \in Ends |-> IF e = "r" THEN Readers ELSE Writers]
  /\ f_count = [e \in Ends |-> Cardinality(holds[e])]
  /\ nonblock = [e \in Ends |-> FALSE]
  /\ pc = [t \in Tasks |-> "idle"]
  /\ call = [t \in Tasks |-> "none"]
  /\ end = [t \in Tasks |-> "r"]
  /\ len = [t \in Tasks |-> 0]
  /\ data = [t \in Tasks |-> <<>>]
  /\ got = [t \in Tasks |-> <<>>]
  /\ done = [t \in Tasks |-> 0]
  /\ err = [t \in Tasks |-> "none"]
  /\ timo = [t \in Tasks |-> "nil"]
  /\ recv = [t \in Tasks |-> {}]
  /\ wchan = [t \in Tasks |-> NoChan]
  /\ sleepSig = [t \in Tasks |-> FALSE]
  /\ pipeSig = [t \in Tasks |-> {}]

-----------------------------------------------------------------------------
(* Entering and leaving a call.                                                *)

\* Task t enters call c on end e with the given locals.
Enter(t, c, e, n, d, to, l) ==
  /\ pc[t] = "idle" /\ c \in Calls[t] /\ t \in holds[e]
  /\ call' = [call EXCEPT ![t] = c]
  /\ end' = [end EXCEPT ![t] = e]
  /\ len' = [len EXCEPT ![t] = n]
  /\ data' = [data EXCEPT ![t] = d]
  /\ timo' = [timo EXCEPT ![t] = to]
  /\ Goto(t, l)
  /\ UNCHANGED <<streamVars, flags, ssTask, freed, fileVars, got, done, err,
                 recv, sleepVars, pipeSig>>

\* The call returns done and err to the caller, and its locals are gone.
Leave(t) ==
  /\ call' = [call EXCEPT ![t] = "none"]
  /\ end' = [end EXCEPT ![t] = "r"]
  /\ len' = [len EXCEPT ![t] = 0]
  /\ data' = [data EXCEPT ![t] = <<>>]
  /\ got' = [got EXCEPT ![t] = <<>>]
  /\ done' = [done EXCEPT ![t] = 0]
  /\ err' = [err EXCEPT ![t] = "none"]
  /\ timo' = [timo EXCEPT ![t] = "nil"]
  /\ Goto(t, "idle")

Read(t) == \E n \in 0 .. MaxLen : Enter(t, "read", "r", n, <<>>, "nil", "get")

Write(t) ==
  \E d \in Payloads : Enter(t, "write", "w", Len(d), d, "nil", "get")

Ioctl(t) == \E e \in Ends : Enter(t, "ioctl", e, 0, <<>>, "nil", "get")

Select(t) ==
  \E e \in Ends, to \in Timeouts : Enter(t, "select", e, 0, <<>>, to, "poll")

-----------------------------------------------------------------------------
(* The stream lock.                                                            *)

\* get_stream() reaches its test: on entry, or when its ix_sleep() returns.
AtGetStream(t) ==
  \/ pc[t] = "get"
  \/ pc[t] = "getwait" /\ CanResume(wchan, sleepSig, t)

\* What the return from ix_sleep() consumes.
SigAfterGet(t) == IF pc[t] = "getwait" THEN ClearSig(sleepSig, t) ELSE sleepSig

\* A faulty AcquireStream: it does not look at UNF_LOCKED again.
AcquireStreamUnchecked(t) ==
  /\ AtGetStream(t)
  /\ flags' = (flags \ {"WANT_LOCK"}) \cup {"LOCKED"}
  /\ wchan' = Dequeue(wchan, t)
  /\ sleepSig' = SigAfterGet(t)
  /\ Goto(t, "loop")
  /\ UNCHANGED <<streamVars, ssTask, freed, fileVars, callVars, recv, pipeSig>>

AcquireStream(t) ==
  /\ AtGetStream(t) /\ "LOCKED" \notin flags
  /\ flags' = (flags \ {"WANT_LOCK"}) \cup {"LOCKED"}
  /\ wchan' = Dequeue(wchan, t)
  /\ sleepSig' = SigAfterGet(t)
  /\ Goto(t, "loop")
  /\ UNCHANGED <<streamVars, ssTask, freed, fileVars, callVars, recv, pipeSig>>

WaitForStream(t) ==
  /\ AtGetStream(t) /\ "LOCKED" \in flags
  /\ flags' = flags \cup {"WANT_LOCK"}
  /\ wchan' = SleepOn(wchan, t, "flags")
  /\ sleepSig' = SigAfterGet(t)
  /\ Goto(t, "getwait")
  /\ UNCHANGED <<streamVars, ssTask, freed, fileVars, callVars, recv, pipeSig>>

\* A faulty release_stream: it drops UNF_WANT_LOCK without waking anybody.
release_streamSilent ==
  /\ sleepSig' = sleepSig
  /\ flags' = flags \ {"WANT_LOCK", "LOCKED"}

\* release_stream(): wake those who want the lock, then drop both flags.
release_stream ==
  /\ sleepSig' = IF "WANT_LOCK" \in flags
                 THEN Wakeup(wchan, sleepSig, "flags") ELSE sleepSig
  /\ flags' = flags \ {"WANT_LOCK", "LOCKED"}

\* The end of a call that holds the stream.
Release(t) ==
  /\ pc[t] = "rel"
  /\ release_stream
  /\ Leave(t)
  /\ UNCHANGED <<streamVars, ssTask, freed, fileVars, recv, wchan, pipeSig>>

-----------------------------------------------------------------------------
(* stream_read() and stream_write(), with the stream locked.                   *)

Return(t, n, e) ==
  /\ done' = [done EXCEPT ![t] = n]
  /\ err' = [err EXCEPT ![t] = e]
  /\ Goto(t, "rel")

\* The tests of stream_read's loop that copy nothing.
ReadTest(t) ==
  /\ pc[t] = "loop" /\ call[t] = "read"
  /\ \/ /\ len[t] = 0
        /\ Return(t, done[t], err[t])
     \/ /\ len[t] # 0 /\ ~can_read(reader, writer)
        /\ \/ /\ done[t] # 0 \/ "NO_WRITER" \in flags
              /\ Return(t, done[t], "none")
           \/ /\ done[t] = 0 /\ "NO_WRITER" \notin flags
              /\ nonblock["r"]
              /\ Return(t, -1, "EAGAIN")
           \/ /\ done[t] = 0 /\ "NO_WRITER" \notin flags
              /\ ~nonblock["r"]
              /\ Goto(t, "presleep")
              /\ UNCHANGED <<done, err>>
  /\ UNCHANGED <<streamVars, flags, ssTask, freed, fileVars, call, end, len,
                 data, got, timo, recv, sleepVars, pipeSig>>

\* A faulty ReadCopy: really_read only counts the bytes before the wrap.
ReadCopyMiscounts(t) ==
  LET n1 == ReadSeg1(reader, writer, len[t])
      n == ReadCount(reader, writer, len[t])
  IN  /\ pc[t] = "loop" /\ call[t] = "read"
      /\ len[t] # 0 /\ can_read(reader, writer)
      /\ got' = [got EXCEPT ![t] = @ \o ReadBytes(buffer, reader, writer, len[t])]
      /\ reader' = ReadEnd(reader, writer, len[t])
      /\ len' = [len EXCEPT ![t] = @ - n]
      /\ done' = [done EXCEPT ![t] = @ + IF n1 = 0 THEN n ELSE n1]
      /\ Goto(t, "notify")
      /\ UNCHANGED <<writer, buffer, flags, ssTask, freed, fileVars, call, end,
                     data, err, timo, recv, sleepVars, pipeSig>>

ReadCopy(t) ==
  LET n == ReadCount(reader, writer, len[t])
  IN  /\ pc[t] = "loop" /\ call[t] = "read"
      /\ len[t] # 0 /\ can_read(reader, writer)
      /\ got' = [got EXCEPT ![t] = @ \o ReadBytes(buffer, reader, writer, len[t])]
      /\ reader' = ReadEnd(reader, writer, len[t])
      /\ len' = [len EXCEPT ![t] = @ - n]
      /\ done' = [done EXCEPT ![t] = @ + n]
      /\ Goto(t, "notify")
      /\ UNCHANGED <<writer, buffer, flags, ssTask, freed, fileVars, call, end,
                     data, err, timo, recv, sleepVars, pipeSig>>

\* The tests of stream_write's loop that copy nothing.
WriteTest(t) ==
  /\ pc[t] = "loop" /\ call[t] = "write"
  /\ \/ /\ len[t] = 0
        /\ Return(t, done[t], err[t])
     \/ /\ len[t] # 0 /\ "NO_READER" \in flags
        /\ Return(t, -1, "EPIPE")       \* and SIGPIPE
     \/ /\ len[t] # 0 /\ "NO_READER" \notin flags /\ ~can_write(reader, writer)
        /\ \/ /\ nonblock["w"]
              /\ IF done[t] = 0 THEN Return(t, -1, "EAGAIN")
                                ELSE Return(t, done[t], err[t])
           \/ /\ ~nonblock["w"]
              /\ Goto(t, "presleep")
              /\ UNCHANGED <<done, err>>
  /\ UNCHANGED <<streamVars, flags, ssTask, freed, fileVars, call, end, len,
                 data, got, timo, recv, sleepVars, pipeSig>>

WriteCopy(t) ==
  LET n == WriteCount(reader, writer, len[t])
  IN  /\ pc[t] = "loop" /\ call[t] = "write"
      /\ len[t] # 0 /\ "NO_READER" \notin flags /\ can_write(reader, writer)
      /\ buffer' = WrittenBuffer(buffer, reader, writer, len[t], data[t])
      /\ writer' = WriteEnd(reader, writer, len[t])
      /\ data' = [data EXCEPT ![t] = SubSeq(@, n + 1, Len(@))]
      /\ len' = [len EXCEPT ![t] = @ - n]
      /\ done' = [done EXCEPT ![t] = @ + n]
      /\ Goto(t, "notify")
      /\ UNCHANGED <<reader, flags, ssTask, freed, fileVars, call, end, got,
                     err, timo, recv, sleepVars, pipeSig>>

\* Signal(task, 1 << bit), nothing if there is no task.
SignalTask(task, bit) ==
  pipeSig' = [t \in Tasks |-> IF t = task THEN pipeSig[t] \cup {bit}
                                          ELSE pipeSig[t]]

\* A faulty Notify: it wakes the channel of the lock.
NotifyWrongChannel(t) ==
  /\ pc[t] = "notify"
  /\ IF ssTask = NoTask THEN UNCHANGED pipeSig
                        ELSE SignalTask(ssTask, PipeSig[ssTask])
  /\ sleepSig' = Wakeup(wchan, sleepSig, "flags")
  /\ Goto(t, "loop")
  /\ UNCHANGED <<streamVars, flags, ssTask, freed, fileVars, callVars, recv,
                 wchan>>

\* After a copy: Signal() the selecting task, ix_wakeup(ss), back to the loop.
Notify(t) ==
  /\ pc[t] = "notify"
  /\ IF ssTask = NoTask THEN UNCHANGED pipeSig
                        ELSE SignalTask(ssTask, PipeSig[ssTask])
  /\ sleepSig' = Wakeup(wchan, sleepSig, "ss")
  /\ Goto(t, "loop")
  /\ UNCHANGED <<streamVars, flags, ssTask, freed, fileVars, callVars, recv,
                 wchan>>

\* A faulty GoToSleep: it sleeps on the channel of the lock.
GoToSleepWrongChannel(t) ==
  /\ pc[t] = "presleep"
  /\ release_stream
  /\ wchan' = SleepOn(wchan, t, "flags")
  /\ Goto(t, "sleep")
  /\ UNCHANGED <<streamVars, ssTask, freed, fileVars, callVars, recv, pipeSig>>

\* Forbid(); release_stream(ss); ix_sleep(ss): one step, as Forbid() is only
\* broken by the Wait() in ix_sleep().
GoToSleep(t) ==
  /\ pc[t] = "presleep"
  /\ release_stream
  /\ wchan' = SleepOn(wchan, t, "ss")
  /\ Goto(t, "sleep")
  /\ UNCHANGED <<streamVars, ssTask, freed, fileVars, callVars, recv, pipeSig>>

\* The same when a Unix signal is pending: ix_sleep() returns -1 at once.
DoNotSleep(t) ==
  /\ pc[t] = "presleep" /\ t \in Interruptible
  /\ release_stream
  /\ Goto(t, "get")
  /\ UNCHANGED <<streamVars, ssTask, freed, fileVars, callVars, recv, wchan,
                 pipeSig>>

\* ix_sleep(ss) returns; whatever the reason, the call gets the stream again.
Resume(t) ==
  /\ pc[t] = "sleep" /\ CanResume(wchan, sleepSig, t)
  /\ wchan' = Dequeue(wchan, t)
  /\ sleepSig' = ClearSig(sleepSig, t)
  /\ Goto(t, "get")
  /\ UNCHANGED <<streamVars, flags, ssTask, freed, fileVars, callVars, recv,
                 pipeSig>>

\* The same, but the signal that setrun() lets in leaves the call for good: it
\* terminates the process (which closes its descriptors) or its handler longjmps.
Abandon(t) ==
  /\ pc[t] = "sleep" /\ CanResume(wchan, sleepSig, t) /\ t \in Interruptible
  /\ wchan' = Dequeue(wchan, t)
  /\ sleepSig' = ClearSig(sleepSig, t)
  /\ Leave(t)
  /\ UNCHANGED <<streamVars, flags, ssTask, freed, fileVars, recv, pipeSig>>

\* unp_ioctl(): FIONREAD leaves its count in done, FIONBIO sets FNDELAY and
\* returns what it was, the other requests change nothing that matters here.
IoctlBody(t) ==
  /\ pc[t] = "loop" /\ call[t] = "ioctl"
  /\ \/ /\ done' = [done EXCEPT ![t] = FIONREAD(reader, writer)]
        /\ UNCHANGED nonblock
     \/ /\ done' = [done EXCEPT ![t] = IF nonblock[end[t]] THEN 1 ELSE 0]
        /\ \E b \in BOOLEAN : nonblock' = [nonblock EXCEPT ![end[t]] = b]
     \/ UNCHANGED <<done, nonblock>>
  /\ Goto(t, "rel")
  /\ UNCHANGED <<streamVars, flags, ssTask, freed, holds, f_count, call, end,
                 len, data, got, err, timo, recv, sleepVars, pipeSig>>

-----------------------------------------------------------------------------
(* ix_select() on one end of the pipe, which is unp_select() of that end.      *)

\* What SELCMD_POLL and SELCMD_CHECK return.
Ready(t) ==
  IF end[t] = "r" THEN can_read(reader, writer) \/ "NO_WRITER" \in flags
                  ELSE can_write(reader, writer) \/ "NO_READER" \in flags

SelectReturn(t, n, e) ==
  /\ done' = [done EXCEPT ![t] = n]
  /\ err' = [err EXCEPT ![t] = e]
  /\ Goto(t, "ret")

\* A Unix signal that is pending on entry.
SelectInterrupted(t) ==
  /\ pc[t] = "poll" /\ t \in Interruptible
  /\ SelectReturn(t, -1, "EINTR")
  /\ UNCHANGED <<streamVars, flags, ssTask, freed, fileVars, call, end, len,
                 data, got, timo, recv, sleepVars, pipeSig>>

\* The first turn of the loop only polls.
SelectPoll(t) ==
  /\ pc[t] = "poll"
  /\ \/ Ready(t) /\ SelectReturn(t, 1, "none")
     \/ ~Ready(t) /\ timo[t] = "zero" /\ SelectReturn(t, 0, "none")
     \/ ~Ready(t) /\ timo[t] # "zero" /\ Goto(t, "prep") /\ UNCHANGED <<done, err>>
  /\ UNCHANGED <<streamVars, flags, ssTask, freed, fileVars, call, end, len,
                 data, got, timo, recv, sleepVars, pipeSig>>

\* SELCMD_PREPARE: first ss->task is set, ...
SelectPrepare(t) ==
  /\ pc[t] = "prep"
  /\ ssTask' = t
  /\ Goto(t, "prepared")
  /\ UNCHANGED <<streamVars, flags, freed, fileVars, callVars, recv, sleepVars,
                 pipeSig>>

\* A faulty SelectRecheck: it goes to wait without testing the stream again.
SelectNoRecheck(t) ==
  /\ pc[t] = "prepared"
  /\ Goto(t, "wait")
  /\ UNCHANGED <<streamVars, flags, ssTask, freed, fileVars, callVars, recv,
                 sleepVars, pipeSig>>

\* ... then the stream is tested, and a ready one signals the caller itself.
SelectRecheck(t) ==
  /\ pc[t] = "prepared"
  /\ IF Ready(t) THEN SignalTask(t, PipeSig[t]) ELSE UNCHANGED pipeSig
  /\ Goto(t, "wait")
  /\ UNCHANGED <<streamVars, flags, ssTask, freed, fileVars, callVars, recv,
                 sleepVars>>

\* Wait(wait_sigs) returns the bits that came in, and consumes them.
SelectWait(t) ==
  /\ pc[t] = "wait"
  /\ \E tm \in IF timo[t] = "some" THEN {{}, {"timer"}} ELSE {{}} :
       recv' = [recv EXCEPT ![t] =
                  tm \cup (IF sleepSig[t] THEN {"sleep"} ELSE {})
                     \cup (IF PipeSig[t] \in pipeSig[t] THEN {"pipe"} ELSE {})]
  /\ recv'[t] # {}
  /\ pipeSig' = [pipeSig EXCEPT ![t] = @ \ {PipeSig[t]}]
  /\ sleepSig' = ClearSig(sleepSig, t)
  /\ Goto(t, "check")
  /\ UNCHANGED <<streamVars, flags, ssTask, freed, fileVars, callVars, wchan>>

\* SELCMD_CHECK, and the decision to return or to go round again.
SelectCheck(t) ==
  /\ pc[t] = "check"
  /\ ssTask' = IF ssTask = t THEN NoTask ELSE ssTask
  /\ recv' = [recv EXCEPT ![t] = {}]
  /\ \/ Ready(t) /\ SelectReturn(t, 1, "none")
     \/ ~Ready(t) /\ "timer" \in recv[t] /\ SelectReturn(t, 0, "none")
     \/ /\ ~Ready(t) /\ "timer" \notin recv[t] /\ "sleep" \in recv[t]
        /\ SelectReturn(t, -1, "EINTR")
     \/ /\ ~Ready(t) /\ recv[t] = {"pipe"}
        /\ Goto(t, "prep") /\ UNCHANGED <<done, err>>
  /\ UNCHANGED <<streamVars, flags, freed, fileVars, call, end, len, data, got,
                 timo, sleepVars, pipeSig>>

SelectLeave(t) ==
  /\ pc[t] = "ret"
  /\ Leave(t)
  /\ UNCHANGED <<streamVars, flags, ssTask, freed, fileVars, recv, sleepVars,
                 pipeSig>>

\* A Unix signal for a task in ix_sleep() or select(): setrun() sets its bit.  A
\* Ctrl-C also ends the sleep in get_stream(), which has the signals masked.
Interrupt(t) ==
  /\ t \in Interruptible /\ ~sleepSig[t]
  /\ pc[t] \in {"getwait", "sleep", "poll", "prep", "prepared", "wait", "check"}
  /\ sleepSig' = [sleepSig EXCEPT ![t] = TRUE]
  /\ UNCHANGED <<streamVars, flags, ssTask, freed, fileVars, pc, callVars, recv,
                 wchan, pipeSig>>

-----------------------------------------------------------------------------
(* Descriptors of the pipe.                                                    *)

\* A faulty Inherit: the file is shared without counting the new reference.
InheritUncounted(t, c, e) ==
  /\ pc[t] = "idle" /\ t \in holds[e]
  /\ pc[c] = "idle" /\ c \notin holds[e]
  /\ holds' = [holds EXCEPT ![e] = @ \cup {c}]
  /\ UNCHANGED <<streamVars, flags, ssTask, freed, f_count, nonblock, pc,
                 callVars, recv, sleepVars, pipeSig>>

\* vfork(): the child c gets t's descriptor.
Inherit(t, c, e) ==
  /\ pc[t] = "idle" /\ t \in holds[e]
  /\ pc[c] = "idle" /\ c \notin holds[e]
  /\ holds' = [holds EXCEPT ![e] = @ \cup {c}]
  /\ f_count' = [f_count EXCEPT ![e] = @ + 1]
  /\ UNCHANGED <<streamVars, flags, ssTask, freed, nonblock, pc, callVars, recv,
                 sleepVars, pipeSig>>

\* The flag the last close() of an end sets.
NoUser(e) == IF e = "r" THEN "NO_READER" ELSE "NO_WRITER"

\* __pclose(): the last close of an end marks the stream; the last close of
\* both frees it, and otherwise the other side is woken.
Close(t, e) ==
  /\ pc[t] = "idle" /\ t \in holds[e]
  /\ holds' = [holds EXCEPT ![e] = @ \ {t}]
  /\ f_count' = [f_count EXCEPT ![e] = @ - 1]
  /\ IF f_count[e] = 1
     THEN /\ flags' = flags \cup {NoUser(e)}
          /\ IF {"NO_READER", "NO_WRITER"} \subseteq flags'
             THEN freed' = TRUE /\ UNCHANGED <<pipeSig, sleepSig>>
             ELSE /\ SignalTask(ssTask, PipeSig[t])
                  /\ sleepSig' = Wakeup(wchan, sleepSig, "ss")
                  /\ UNCHANGED freed
     ELSE UNCHANGED <<flags, freed, pipeSig, sleepSig>>
  /\ UNCHANGED <<streamVars, ssTask, nonblock, pc, callVars, recv, wchan>>

\* Every descriptor is closed: the pipe is gone.
Gone == freed /\ UNCHANGED vars

\* The steps a task takes inside a call, which the scheduler lets it take.
Step(t) ==
  \/ AcquireStream(t) \/ WaitForStream(t) \/ Release(t)
  \/ ReadTest(t) \/ ReadCopy(t) \/ WriteTest(t) \/ WriteCopy(t) \/ Notify(t)
  \/ GoToSleep(t) \/ DoNotSleep(t) \/ Resume(t) \/ Abandon(t) \/ IoctlBody(t)
  \/ SelectInterrupted(t) \/ SelectPoll(t) \/ SelectPrepare(t)
  \/ SelectRecheck(t) \/ SelectWait(t) \/ SelectCheck(t) \/ SelectLeave(t)

Next ==
  \/ \E t \in Tasks :
       \/ Read(t) \/ Write(t) \/ Ioctl(t) \/ Select(t) \/ Step(t) \/ Interrupt(t)
       \/ \E e \in Ends : Close(t, e)
       \/ \E e \in Ends, c \in Tasks : Inherit(t, c, e)
  \/ Gone

Spec == Init /\ [][Next]_vars

\* exec's scheduler runs every ready task sooner or later; nothing makes a
\* program call read() or close(), and nothing sends it signals.
FairSpec == Spec /\ \A t \in Tasks : WF_vars(Step(t))

-----------------------------------------------------------------------------
(* Properties.                                                                 *)

\* The places at which a task has the stream locked.
Critical == {"loop", "presleep", "notify", "rel"}
Pcs == {"idle", "get", "getwait", "sleep"} \cup Critical
         \cup {"poll", "prep", "prepared", "wait", "check", "ret"}

\* Every variable has its type.
TypeOK ==
  /\ reader \in Pos /\ writer \in Pos
  /\ buffer \in [Pos -> Byte]
  /\ flags \in SUBSET Flags
  /\ ssTask \in Tasks \cup {NoTask}
  /\ freed \in BOOLEAN
  /\ holds \in [Ends -> SUBSET Tasks]
  /\ f_count \in [Ends -> Nat]
  /\ nonblock \in [Ends -> BOOLEAN]
  /\ pc \in [Tasks -> Pcs]
  /\ call \in [Tasks -> CallKinds \cup {"none"}]
  /\ end \in [Tasks -> Ends]
  /\ len \in [Tasks -> 0 .. MaxLen]
  /\ data \in [Tasks -> Seq(Byte)]
  /\ got \in [Tasks -> Seq(Byte)]
  /\ done \in [Tasks -> Int]
  /\ err \in [Tasks -> Errors]
  /\ timo \in [Tasks -> Timeouts]
  /\ recv \in [Tasks -> SUBSET {"timer", "sleep", "pipe"}]
  /\ wchan \in [Tasks -> Chans \cup {NoChan}]
  /\ sleepSig \in [Tasks -> BOOLEAN]
  /\ pipeSig \in [Tasks -> SUBSET SigBits]

\* get_stream() and release_stream() give the stream to one task at a time, and
\* UNF_LOCKED is set exactly while some task has it.
StreamLock ==
  /\ "LOCKED" \in flags <=> \E t \in Tasks : pc[t] \in Critical
  /\ \A t, u \in Tasks : pc[t] \in Critical /\ pc[u] \in Critical => t = u

\* No task is left asleep in get_stream(): while one sleeps unsignalled, the
\* stream is locked and the flag that makes release_stream() wake it is set.
NoLostLockWakeup ==
  \A t \in Tasks :
    pc[t] = "getwait" /\ ~sleepSig[t] => {"LOCKED", "WANT_LOCK"} \subseteq flags

\* stream_read() and stream_write() leave no task asleep on a stream that has
\* bytes (or room) for it, unless the task that put them there is about to wake it.
NoLostDataWakeup ==
  \A t \in Tasks :
    pc[t] = "sleep" /\ ~sleepSig[t] =>
      \/ \E u \in Tasks : pc[u] = "notify"
      \/ call[t] = "read" /\ ~can_read(reader, writer)
      \/ call[t] = "write" /\ ~can_write(reader, writer)

\* __pclose() frees the stream only when no task is in a call on it, and the
\* flags and counts it goes by tell exactly who still has the pipe open.
FreedWhenUnused ==
  /\ freed => \A t \in Tasks : pc[t] = "idle"
  /\ freed <=> \A e \in Ends : holds[e] = {}
  /\ \A e \in Ends : /\ f_count[e] = Cardinality(holds[e])
                     /\ NoUser(e) \in flags <=> holds[e] = {}

\* A read() or write() loses no count: what it reports as done is what was
\* moved, and what is left of the request is still to do.
CountsAgree ==
  \A t \in Tasks :
    pc[t] \in Critical \cup {"get", "getwait", "sleep"} =>
      /\ call[t] = "read" /\ err[t] = "none" => done[t] = Len(got[t])
      /\ call[t] = "write" => len[t] = Len(data[t])

\* What the comment on Forbid() in stream_read() and stream_write() promises, for
\* the last close: a task asleep on the stream still has someone to wake it.
NoLostCloseWakeup ==
  \A t \in Tasks :
    pc[t] = "sleep" /\ ~sleepSig[t] =>
      /\ call[t] = "read" => "NO_WRITER" \notin flags
      /\ call[t] = "write" => "NO_READER" \notin flags

\* select.h: SELCMD_PREPARE returns a mask that indicates a change of mode.  A
\* task in select()'s Wait() on a ready end has its bit set or is about to get it.
SelectorIsTold ==
  \A t \in Tasks :
    pc[t] = "wait" /\ Ready(t) =>
      \/ PipeSig[t] \in pipeSig[t]
      \/ ssTask = t /\ \E u \in Tasks : pc[u] = "notify"

\* A task that holds the stream gives it back.
StreamIsReleased == ("LOCKED" \in flags) ~> ("LOCKED" \notin flags)

\* A task asleep in read() while there is something to read runs again, and so
\* does one asleep in write() while there is room.
SleeperRuns ==
  \A t \in Tasks :
    (pc[t] = "sleep" /\ (IF call[t] = "read" THEN can_read(reader, writer)
                                             ELSE can_write(reader, writer)))
      ~> pc[t] # "sleep"

\* A call on the stream makes progress: StreamIsReleased and SleeperRuns.
CallsGoOn == StreamIsReleased /\ SleeperRuns

-----------------------------------------------------------------------------
(* The pipe implements the bounded queue of Fifo.                              *)

\* The queue is what lies between reader and writer; a task's requests are the
\* ones it has on its stack.
AbstractPipe ==
  INSTANCE Fifo WITH
    Capacity <- SIZE - 1,
    q <- Contents(buffer, reader, writer),
    out <- data,
    want <- [t \in Tasks |-> IF call[t] = "read" THEN len[t] ELSE 0],
    in <- got

\* stream_read() and stream_write() on one pipe, from any number of tasks, with
\* sleeps, wrap-around and early returns, only ever do what Fifo allows: no byte
\* is lost, duplicated or reordered, and each turn moves all it can.
ImplementsFifo == AbstractPipe!FifoSpec
=============================================================================
