----------------------------- MODULE UnixSocket -----------------------------
(* Unix domain sockets: bind, listen, connect, accept, shutdown and close of   *)
(* library/unp.c, with select() on a listening socket.  A connection is a pair *)
(* of streams; reading and writing them is the business of Pipe, and here a    *)
(* stream is what close_stream() looks at.  Server tasks share the listening   *)
(* sockets, every client task has one socket of its own.                       *)
EXTENDS SleepQueue, Sequences, FiniteSets, Integers

CONSTANTS
  Clients, Servers,  \* Tasks is the union of the two
  Listeners,         \* the sockets that servers bind and listen on, to one path
  Backlog,           \* the argument of listen()
  Calls,             \* SUBSET CallKinds: the optional calls programs make
  Interruptible,     \* tasks that Unix signals are sent to
  NoStream, NoTask, NoSock

CallKinds == {"select", "retry", "shutdown", "fionbio", "close", "clientclose"}
States == {"WAITING", "PROCESSING", "ACCEPTED", "ERROR"}   \* UNS_...
EndFlags == {"NO_READER", "NO_WRITER"}                     \* UNF_...
ClientPcs == {"signal", "connect", "again", "result"}
AcceptPcs == {"get", "getwait", "test", "presleep", "asleep", "take", "rel",
              "fail", "socket", "wake"}
SelectPcs == {"poll", "prep", "wait", "check"}

ASSUME UnixSocketAssumption ==
  /\ Tasks = Clients \cup Servers /\ Clients \cap Servers = {}
  /\ Backlog \in Nat
  /\ Calls \subseteq CallKinds
  /\ Interruptible \subseteq Tasks
  /\ NoTask \notin Tasks /\ NoSock \notin Listeners
  /\ \A s \in SUBSET EndFlags : s # NoStream

VARIABLES
  state, to_server, from_server, server,  \* the unix_socket of each client
  cfile, sfile,           \* is its client file open; who has its server file
  bound, holds, nonblock, \* of each listener: bind() done, who has it open, FNDELAY
  unix_name,              \* of each listener: "none", "listed" or "freed"
  names,                  \* ix_unix_names: the listed names, newest first
  queue, unTask,          \* un->queue and un->task of each name
  locked, wantlock,       \* FSFF_LOCKED and FSFF_WANTLOCK of each listener
  pc, sock, client, st,   \* locals: the listener or name, the client, its state
  tried,                  \* clients that called connect() before
  wchan, sleepSig, pipeSig

sockVars == <<state, to_server, from_server, server, cfile, sfile>>
nameVars == <<bound, holds, nonblock, unix_name, names, queue>>
fileLock == <<locked, wantlock>>
locals == <<sock, client, st, tried>>
sleepVars == <<wchan, sleepSig>>
vars == <<sockVars, nameVars, unTask, fileLock, pc, locals, sleepVars, pipeSig>>

NameChan(l) == <<"name", l>>      \* un
LockChan(l) == <<"lock", l>>      \* &f->f_sync_flags
SockChan(c) == <<"us", c>>        \* us

Init ==
  /\ state = [c \in Clients |-> "WAITING"]
  /\ to_server = [c \in Clients |-> NoStream]
  /\ from_server = [c \in Clients |-> NoStream]
  /\ server = [c \in Clients |-> FALSE]
  /\ cfile = [c \in Clients |-> TRUE]
  /\ sfile = [c \in Clients |-> NoTask]
  /\ bound = [l \in Listeners |-> FALSE]
  /\ holds = [l \in Listeners |-> Servers]
  /\ nonblock = [l \in Listeners |-> FALSE]
  /\ unix_name = [l \in Listeners |-> "none"]
  /\ names = <<>>
  /\ queue = [l \in Listeners |-> <<>>]
  /\ unTask = [l \in Listeners |-> NoTask]
  /\ locked = [l \in Listeners |-> FALSE]
  /\ wantlock = [l \in Listeners |-> FALSE]
  /\ pc = [t \in Tasks |-> "idle"]
  /\ sock = [t \in Tasks |-> NoSock]
  /\ client = [t \in Tasks |-> NoTask]
  /\ st = [t \in Tasks |-> "WAITING"]
  /\ tried = {}
  /\ wchan = [t \in Tasks |-> NoChan]
  /\ sleepSig = [t \in Tasks |-> FALSE]
  /\ pipeSig = [t \in Tasks |-> FALSE]

Goto(t, l) == pc' = [pc EXCEPT ![t] = l]

\* A task goes back to the program; its locals are gone.
Return(t) ==
  /\ Goto(t, "idle")
  /\ sock' = [sock EXCEPT ![t] = NoSock]
  /\ client' = [client EXCEPT ![t] = NoTask]
  /\ st' = [st EXCEPT ![t] = "WAITING"]

-----------------------------------------------------------------------------
(* bind() and listen().                                                        *)

\* unp_bind(): the path must not be listened on.
Bind(t, l) ==
  /\ pc[t] = "idle" /\ t \in holds[l] /\ ~bound[l]
  /\ names = <<>>                                     \* otherwise EADDRINUSE
  /\ bound' = [bound EXCEPT ![l] = TRUE]
  /\ UNCHANGED <<sockVars, holds, nonblock, unix_name, names, queue, unTask,
                 fileLock, pc, locals, sleepVars, pipeSig>>

\* unp_listen() and add_unix_name(): the new name goes to the head of the list.
Listen(t, l) ==
  /\ pc[t] = "idle" /\ t \in holds[l]
  /\ bound[l] /\ unix_name[l] = "none"                \* otherwise EOPNOTSUPP
  /\ unix_name' = [unix_name EXCEPT ![l] = "listed"]
  /\ names' = <<l>> \o names
  /\ queue' = [queue EXCEPT ![l] = <<>>]
  /\ unTask' = [unTask EXCEPT ![l] = NoTask]
  /\ UNCHANGED <<sockVars, bound, holds, nonblock, fileLock, pc, locals,
                 sleepVars, pipeSig>>

\* add_unix_name(): a backlog of 0 is taken as 1.
queue_size == IF Backlog = 0 THEN 1 ELSE Backlog

\* unp_ioctl(FIONBIO) on a listening socket, which has no stream to lock.
Fionbio(t, l) ==
  /\ "fionbio" \in Calls
  /\ pc[t] = "idle" /\ t \in holds[l] /\ unix_name[l] = "listed"
  /\ nonblock' = [nonblock EXCEPT ![l] = ~@]
  /\ UNCHANGED <<sockVars, bound, holds, unix_name, names, queue, unTask,
                 fileLock, pc, locals, sleepVars, pipeSig>>

-----------------------------------------------------------------------------
(* connect().                                                                  *)

\* A faulty ConnectQueue: a full queue is not noticed.
ConnectQueueUnbounded(c) ==
  /\ pc[c] = "idle" /\ cfile[c]
  /\ c \in tried => "retry" \in Calls
  /\ to_server[c] = NoStream /\ from_server[c] = NoStream
  /\ tried' = tried \cup {c}
  /\ names # <<>>
  /\ to_server' = [to_server EXCEPT ![c] = {}]
  /\ from_server' = [from_server EXCEPT ![c] = {}]
  /\ queue' = [queue EXCEPT ![Head(names)] = Append(@, c)]
  /\ sock' = [sock EXCEPT ![c] = Head(names)]
  /\ Goto(c, "signal")
  /\ UNCHANGED <<state, server, cfile, sfile, bound, holds, nonblock, unix_name,
                 names, unTask, fileLock, client, st, sleepVars, pipeSig>>

\* unp_connect() up to ix_unlock_base(): find the newest name of the path, and
\* queue the socket with two new streams.  Anything else is an error return.
ConnectQueue(c) ==
  /\ pc[c] = "idle" /\ cfile[c]
  /\ c \in tried => "retry" \in Calls
  /\ to_server[c] = NoStream /\ from_server[c] = NoStream     \* else EISCONN
  /\ tried' = tried \cup {c}
  /\ \/ /\ names # <<>> /\ Len(queue[Head(names)]) < queue_size
        /\ to_server' = [to_server EXCEPT ![c] = {}]
        /\ from_server' = [from_server EXCEPT ![c] = {}]
        /\ queue' = [queue EXCEPT ![Head(names)] = Append(@, c)]
        /\ sock' = [sock EXCEPT ![c] = Head(names)]
        /\ Goto(c, "signal")
     \/ /\ UNCHANGED <<to_server, from_server, queue, sock, pc>>
        \* EADDRNOTAVAIL, ECONNREFUSED or ENOMEM
  /\ UNCHANGED <<state, server, cfile, sfile, bound, holds, nonblock, unix_name,
                 names, unTask, fileLock, client, st, sleepVars, pipeSig>>

\* The two states that end the wait of unp_connect().
Final == {"ACCEPTED", "ERROR"}

\* Forbid(): signal the selecting task, wake those in accept(), and sleep unless
\* the answer is there already.
ConnectSignal(c) ==
  /\ pc[c] = "signal"
  /\ pipeSig' = [t \in Tasks |-> pipeSig[t] \/ unTask[sock[c]] = t]
  /\ sleepSig' = Wakeup(wchan, sleepSig, NameChan(sock[c]))
  /\ st' = [st EXCEPT ![c] = state[c]]
  /\ \/ /\ state[c] \in Final
        /\ Goto(c, "result") /\ UNCHANGED wchan
     \/ /\ state[c] \notin Final
        /\ Goto(c, "connect") /\ wchan' = SleepOn(wchan, c, SockChan(c))
     \/ /\ state[c] \notin Final /\ c \in Interruptible    \* ix_sleep() = -1
        /\ Goto(c, "again") /\ UNCHANGED wchan
  /\ UNCHANGED <<sockVars, nameVars, unTask, fileLock, sock, client, tried>>

\* ix_sleep() returns: the state is read, and a signal that came in (sleep_rc < 0)
\* sends the task round again whatever the state.
ConnectResume(c) ==
  /\ pc[c] = "connect" /\ CanResume(wchan, sleepSig, c)
  /\ wchan' = Dequeue(wchan, c)
  /\ sleepSig' = ClearSig(sleepSig, c)
  /\ st' = [st EXCEPT ![c] = state[c]]
  /\ \E rc \in {0} \cup (IF c \in Interruptible THEN {-1} ELSE {}) :
       Goto(c, IF rc < 0 \/ state[c] \notin Final THEN "again" ELSE "result")
  /\ UNCHANGED <<sockVars, nameVars, unTask, fileLock, sock, client, tried,
                 pipeSig>>

\* Forbid() and ix_sleep() once more.
ConnectAgain(c) ==
  /\ pc[c] = "again"
  /\ Goto(c, "connect")
  /\ wchan' = SleepOn(wchan, c, SockChan(c))
  /\ UNCHANGED <<sockVars, nameVars, unTask, fileLock, locals, sleepSig, pipeSig>>

\* A faulty ConnectResult: a refused connection is tried again on the same state.
ConnectResultRetries(c) ==
  /\ pc[c] = "result"
  /\ IF st[c] = "ERROR" THEN Goto(c, "signal") /\ UNCHANGED <<sock, client, st>>
                        ELSE Return(c)
  /\ UNCHANGED <<sockVars, nameVars, unTask, fileLock, tried, sleepVars, pipeSig>>

\* The answer: UNS_ERROR frees the streams (ECONNREFUSED), UNS_ACCEPTED is 0.
ConnectResult(c) ==
  /\ pc[c] = "result"
  /\ IF st[c] = "ERROR"
     THEN /\ to_server' = [to_server EXCEPT ![c] = NoStream]
          /\ from_server' = [from_server EXCEPT ![c] = NoStream]
     ELSE UNCHANGED <<to_server, from_server>>
  /\ Return(c)
  /\ UNCHANGED <<state, server, cfile, sfile, nameVars, unTask, fileLock, tried,
                 sleepVars, pipeSig>>

-----------------------------------------------------------------------------
(* accept().                                                                   *)

\* unp_accept() of a listening socket; one without a name gives EOPNOTSUPP.
Accept(t, l) ==
  /\ pc[t] = "idle" /\ t \in holds[l] /\ unix_name[l] = "listed"
  /\ sock' = [sock EXCEPT ![t] = l]
  /\ Goto(t, "get")
  /\ UNCHANGED <<sockVars, nameVars, unTask, fileLock, client, st, tried,
                 sleepVars, pipeSig>>

\* A faulty GetFile: it does not look at FSFF_LOCKED again after its sleep.
GetFileUnchecked(t) ==
  LET l == sock[t]
  IN  /\ \/ pc[t] = "get"
         \/ pc[t] = "getwait" /\ CanResume(wchan, sleepSig, t)
      /\ wchan' = Dequeue(wchan, t)
      /\ sleepSig' = ClearSig(sleepSig, t)
      /\ locked' = [locked EXCEPT ![l] = TRUE]
      /\ Goto(t, "test") /\ UNCHANGED wantlock
      /\ UNCHANGED <<sockVars, nameVars, unTask, locals, pipeSig>>

\* __get_file(), entered or continued after its ix_sleep().
GetFile(t) ==
  LET l == sock[t]
  IN  /\ \/ pc[t] = "get"
         \/ pc[t] = "getwait" /\ CanResume(wchan, sleepSig, t)
      /\ sleepSig' = IF pc[t] = "getwait" THEN ClearSig(sleepSig, t) ELSE sleepSig
      /\ \/ /\ ~locked[l]
            /\ locked' = [locked EXCEPT ![l] = TRUE]
            /\ wchan' = Dequeue(wchan, t)
            /\ Goto(t, "test") /\ UNCHANGED wantlock
         \/ /\ locked[l]
            /\ wantlock' = [wantlock EXCEPT ![l] = TRUE]
            /\ wchan' = SleepOn(wchan, t, LockChan(l))
            /\ Goto(t, "getwait") /\ UNCHANGED locked
      /\ UNCHANGED <<sockVars, nameVars, unTask, locals, pipeSig>>

\* __release_file(f)
release_file(l) ==
  /\ sleepSig' = IF wantlock[l] THEN Wakeup(wchan, sleepSig, LockChan(l))
                                ELSE sleepSig
  /\ locked' = [locked EXCEPT ![l] = FALSE]
  /\ wantlock' = [wantlock EXCEPT ![l] = FALSE]

\* The test of un->queue_index, and of FNDELAY when it is 0.
AcceptTest(t) ==
  /\ pc[t] = "test"
  /\ \/ queue[sock[t]] # <<>> /\ Goto(t, "take")
     \/ queue[sock[t]] = <<>> /\ nonblock[sock[t]] /\ Goto(t, "fail")
     \/ queue[sock[t]] = <<>> /\ ~nonblock[sock[t]] /\ Goto(t, "presleep")
  /\ UNCHANGED <<sockVars, nameVars, unTask, fileLock, locals, sleepVars, pipeSig>>

\* Forbid(); __release_file(f); ix_sleep(un): one step.
AcceptSleep(t) ==
  /\ pc[t] = "presleep"
  /\ release_file(sock[t])
  /\ \/ wchan' = SleepOn(wchan, t, NameChan(sock[t])) /\ Goto(t, "asleep")
     \/ t \in Interruptible /\ Goto(t, "get") /\ UNCHANGED wchan
  /\ UNCHANGED <<sockVars, nameVars, unTask, locals, pipeSig>>

\* ix_sleep() returns, for whatever reason, and the file is locked again.
AcceptResume(t) ==
  /\ pc[t] = "asleep" /\ CanResume(wchan, sleepSig, t)
  /\ wchan' = Dequeue(wchan, t)
  /\ sleepSig' = ClearSig(sleepSig, t)
  /\ Goto(t, "get")
  /\ UNCHANGED <<sockVars, nameVars, unTask, fileLock, locals, pipeSig>>

\* A faulty AcceptTake: the queue is not shifted down.
AcceptTakeNoShift(t) ==
  LET l == sock[t]
  IN  /\ pc[t] = "take"
      /\ queue[l] # <<>>
      /\ client' = [client EXCEPT ![t] = Head(queue[l])]
      /\ state' = [state EXCEPT ![Head(queue[l])] = "PROCESSING"]
      /\ Goto(t, "rel")
      /\ UNCHANGED <<to_server, from_server, server, cfile, sfile, bound, holds,
                     nonblock, unix_name, names, queue, unTask, fileLock, sock,
                     st, tried, sleepVars, pipeSig>>

\* Under ix_lock_base(): the first client leaves the queue.  (The file is locked,
\* so the queue that was not empty in AcceptTest is not empty now.)
AcceptTake(t) ==
  LET l == sock[t]
  IN  /\ pc[t] = "take"
      /\ queue[l] # <<>>
      /\ client' = [client EXCEPT ![t] = Head(queue[l])]
      /\ queue' = [queue EXCEPT ![l] = Tail(@)]
      /\ state' = [state EXCEPT ![Head(queue[l])] = "PROCESSING"]
      /\ Goto(t, "rel")
      /\ UNCHANGED <<to_server, from_server, server, cfile, sfile, bound, holds,
                     nonblock, unix_name, names, unTask, fileLock, sock, st,
                     tried, sleepVars, pipeSig>>

\* __release_file(f) on the way to the answer, or to EWOULDBLOCK.
AcceptRelease(t) ==
  /\ pc[t] \in {"rel", "fail"}
  /\ release_file(sock[t])
  /\ IF pc[t] = "fail" THEN Return(t)
                       ELSE Goto(t, "socket") /\ UNCHANGED <<sock, client, st>>
  /\ UNCHANGED <<sockVars, nameVars, unTask, tried, wchan, pipeSig>>

\* unp_socket(client) makes the server's file, unless falloc() fails.
AcceptSocket(t) ==
  LET c == client[t]
  IN  /\ pc[t] = "socket"
      /\ \/ /\ server' = [server EXCEPT ![c] = TRUE]
            /\ sfile' = [sfile EXCEPT ![c] = t]
            /\ state' = [state EXCEPT ![c] = "ACCEPTED"]
         \/ /\ state' = [state EXCEPT ![c] = "ERROR"]
            /\ UNCHANGED <<server, sfile>>
      /\ Goto(t, "wake")
      /\ UNCHANGED <<to_server, from_server, cfile, nameVars, unTask, fileLock,
                     locals, sleepVars, pipeSig>>

\* ix_wakeup(client)
AcceptWake(t) ==
  /\ pc[t] = "wake"
  /\ sleepSig' = Wakeup(wchan, sleepSig, SockChan(client[t]))
  /\ Return(t)
  /\ UNCHANGED <<sockVars, nameVars, unTask, fileLock, tried, wchan, pipeSig>>

-----------------------------------------------------------------------------
(* select() for reading on a listening socket: unp_select() when find_stream() *)
(* gives NULL.                                                                 *)

Select(t, l) ==
  /\ "select" \in Calls
  /\ pc[t] = "idle" /\ t \in holds[l] /\ unix_name[l] = "listed"
  /\ sock' = [sock EXCEPT ![t] = l]
  /\ Goto(t, "poll")
  /\ UNCHANGED <<sockVars, nameVars, unTask, fileLock, client, st, tried,
                 sleepVars, pipeSig>>

\* SELCMD_POLL and SELCMD_CHECK clear un->task and look at the queue; a check
\* after a Unix signal returns EINTR.
SelectLook(t) ==
  /\ pc[t] \in {"poll", "check"}
  /\ unTask' = [unTask EXCEPT ![sock[t]] = NoTask]
  /\ sleepSig' = IF pc[t] = "check" THEN ClearSig(sleepSig, t) ELSE sleepSig
  /\ IF queue[sock[t]] # <<>> \/ (pc[t] = "check" /\ sleepSig[t])
     THEN Return(t)
     ELSE Goto(t, "prep") /\ UNCHANGED <<sock, client, st>>
  /\ UNCHANGED <<sockVars, nameVars, fileLock, tried, wchan, pipeSig>>

\* SELCMD_PREPARE
SelectPrepare(t) ==
  /\ pc[t] = "prep"
  /\ unTask' = [unTask EXCEPT ![sock[t]] = t]
  /\ Goto(t, "wait")
  /\ UNCHANGED <<sockVars, nameVars, fileLock, locals, sleepVars, pipeSig>>

\* Wait()
SelectWait(t) ==
  /\ pc[t] = "wait" /\ (pipeSig[t] \/ sleepSig[t])
  /\ pipeSig' = [pipeSig EXCEPT ![t] = FALSE]
  /\ Goto(t, "check")
  /\ UNCHANGED <<sockVars, nameVars, unTask, fileLock, locals, sleepVars>>

-----------------------------------------------------------------------------
(* shutdown() and close().                                                     *)

\* A faulty close_stream: it frees the stream as soon as one end is closed.
close_streamEarly(s, flag) == NoStream

\* close_stream() of one stream: marked, and freed when both ends are marked.
close_stream(s, flag) ==
  IF s = NoStream \/ s \cup {flag} = EndFlags THEN NoStream ELSE s \cup {flag}

\* The flags that closing the reading and the writing side of c's client file,
\* or of its server file, leaves on the two streams.
CloseSides(c, isServer, sides) ==
  LET reads == IF isServer THEN "to" ELSE "from"
      flag(dir) == IF dir = reads THEN "NO_READER" ELSE "NO_WRITER"
      shut(dir, s) == IF flag(dir) \in sides THEN close_stream(s, flag(dir)) ELSE s
  IN  /\ to_server' = [to_server EXCEPT ![c] = shut("to", @)]
      /\ from_server' = [from_server EXCEPT ![c] = shut("from", @)]

\* unp_shutdown(how): 0 the reading side, 1 the writing side, 2 both.
Shutdown(t, c) ==
  /\ "shutdown" \in Calls
  /\ pc[t] = "idle"
  /\ \/ t = c /\ cfile[c]
     \/ sfile[c] = t
  /\ \E sides \in {{"NO_READER"}, {"NO_WRITER"}, EndFlags} :
       CloseSides(c, sfile[c] = t, sides)
  /\ UNCHANGED <<state, server, cfile, sfile, nameVars, unTask, fileLock, pc,
                 locals, sleepVars, pipeSig>>

\* unp_close() of a client's file; the unix_socket itself is never freed.
CloseClient(c) ==
  /\ "clientclose" \in Calls
  /\ pc[c] = "idle" /\ cfile[c]
  /\ cfile' = [cfile EXCEPT ![c] = FALSE]
  /\ CloseSides(c, FALSE, EndFlags)
  /\ UNCHANGED <<state, server, sfile, nameVars, unTask, fileLock, pc, locals,
                 sleepVars, pipeSig>>

\* unp_close() of the file that accept() made.
CloseServer(t, c) ==
  /\ pc[t] = "idle" /\ sfile[c] = t
  /\ sfile' = [sfile EXCEPT ![c] = NoTask]
  /\ CloseSides(c, TRUE, EndFlags)
  /\ UNCHANGED <<state, server, cfile, nameVars, unTask, fileLock, pc, locals,
                 sleepVars, pipeSig>>

\* A faulty CloseListener: every close frees the name.
CloseListenerEarly(t, l) ==
  /\ "close" \in Calls
  /\ pc[t] = "idle" /\ t \in holds[l]
  /\ holds' = [holds EXCEPT ![l] = @ \ {t}]
  /\ names' = SelectSeq(names, LAMBDA n : n # l)
  /\ unix_name' = [unix_name EXCEPT ![l] = "freed"]
  /\ queue' = [queue EXCEPT ![l] = <<>>]
  /\ UNCHANGED <<sockVars, bound, nonblock, unTask, fileLock, pc, locals,
                 sleepVars, pipeSig>>

\* unp_close() of a listening socket: the last one unlinks and frees the name.
CloseListener(t, l) ==
  /\ "close" \in Calls
  /\ pc[t] = "idle" /\ t \in holds[l]
  /\ holds' = [holds EXCEPT ![l] = @ \ {t}]
  /\ IF holds'[l] = {} /\ unix_name[l] = "listed"
     THEN /\ \E i \in DOMAIN names :
               /\ names[i] = l
               /\ names' = SubSeq(names, 1, i - 1) \o SubSeq(names, i + 1, Len(names))
          /\ unix_name' = [unix_name EXCEPT ![l] = "freed"]
          /\ queue' = [queue EXCEPT ![l] = <<>>]
     ELSE UNCHANGED <<names, unix_name, queue>>
  /\ UNCHANGED <<sockVars, bound, nonblock, unTask, fileLock, pc, locals,
                 sleepVars, pipeSig>>

-----------------------------------------------------------------------------
(* Unix signals.                                                               *)

\* A signal for a task in ix_sleep() or select().
Interrupt(t) ==
  /\ t \in Interruptible /\ ~sleepSig[t]
  /\ pc[t] \in {"connect", "getwait", "asleep", "poll", "prep", "wait", "check"}
  /\ sleepSig' = [sleepSig EXCEPT ![t] = TRUE]
  /\ UNCHANGED <<sockVars, nameVars, unTask, fileLock, pc, locals, wchan, pipeSig>>

\* The signal that setrun() lets in ends the call for good (exit or longjmp).
Abandon(t) ==
  /\ t \in Interruptible
  /\ pc[t] \in {"connect", "asleep"} /\ CanResume(wchan, sleepSig, t)
  /\ wchan' = Dequeue(wchan, t)
  /\ sleepSig' = ClearSig(sleepSig, t)
  /\ Return(t)
  /\ UNCHANGED <<sockVars, nameVars, unTask, fileLock, tried, pipeSig>>

-----------------------------------------------------------------------------
\* The steps inside a call, which the scheduler lets a task take.
ClientStep(c) ==
  \/ ConnectSignal(c) \/ ConnectResume(c) \/ ConnectAgain(c) \/ ConnectResult(c)

ServerStep(t) ==
  \/ GetFile(t) \/ AcceptTest(t) \/ AcceptSleep(t) \/ AcceptResume(t)
  \/ AcceptTake(t) \/ AcceptRelease(t) \/ AcceptSocket(t) \/ AcceptWake(t)
  \/ SelectLook(t) \/ SelectPrepare(t) \/ SelectWait(t)

Next ==
  \/ \E c \in Clients :
       ConnectQueue(c) \/ ClientStep(c) \/ CloseClient(c) \/ Shutdown(c, c)
  \/ \E t \in Servers :
       \/ ServerStep(t)
       \/ \E l \in Listeners : \/ Bind(t, l) \/ Listen(t, l) \/ Accept(t, l)
                               \/ Fionbio(t, l) \/ Select(t, l)
                               \/ CloseListener(t, l)
       \/ \E c \in Clients : CloseServer(t, c) \/ Shutdown(t, c)
  \/ \E t \in Tasks : Interrupt(t) \/ Abandon(t)

Spec == Init /\ [][Next]_vars

\* exec runs every ready task sooner or later.
FairSpec == /\ Spec
            /\ \A c \in Clients : WF_vars(ClientStep(c))
            /\ \A t \in Servers : WF_vars(ServerStep(t))

-----------------------------------------------------------------------------
(* Properties.                                                                 *)

StreamType == {NoStream} \cup SUBSET EndFlags

\* Every variable has its type, and no queue is longer than listen() asked for.
TypeOK ==
  /\ state \in [Clients -> States]
  /\ to_server \in [Clients -> StreamType] /\ from_server \in [Clients -> StreamType]
  /\ server \in [Clients -> BOOLEAN]
  /\ cfile \in [Clients -> BOOLEAN] /\ sfile \in [Clients -> Servers \cup {NoTask}]
  /\ bound \in [Listeners -> BOOLEAN] /\ holds \in [Listeners -> SUBSET Servers]
  /\ nonblock \in [Listeners -> BOOLEAN]
  /\ unix_name \in [Listeners -> {"none", "listed", "freed"}]
  /\ names \in Seq(Listeners) /\ queue \in [Listeners -> Seq(Clients)]
  /\ \A l \in Listeners : Len(queue[l]) <= queue_size
  /\ unTask \in [Listeners -> Servers \cup {NoTask}]
  /\ locked \in [Listeners -> BOOLEAN] /\ wantlock \in [Listeners -> BOOLEAN]
  /\ pc \in [Tasks -> {"idle"} \cup ClientPcs \cup AcceptPcs \cup SelectPcs]
  /\ sock \in [Tasks -> Listeners \cup {NoSock}]
  /\ client \in [Tasks -> Clients \cup {NoTask}]
  /\ st \in [Tasks -> States] /\ tried \in SUBSET Clients
  /\ sleepSig \in [Tasks -> BOOLEAN] /\ pipeSig \in [Tasks -> BOOLEAN]

\* Where accept() has the listening file locked.
Critical == {"test", "presleep", "take", "rel", "fail"}

\* __get_file() gives a listening socket to one accept() at a time, nobody sleeps
\* for the lock when it is free, and a client accept() has seen is still queued.
AcceptLock ==
  /\ \A l \in Listeners :
       locked[l] = (\E t \in Servers : pc[t] \in Critical /\ sock[t] = l)
  /\ \A t, u \in Servers :
       pc[t] \in Critical /\ pc[u] \in Critical /\ sock[t] = sock[u] => t = u
  /\ \A t \in Servers :
       /\ pc[t] = "getwait" /\ ~sleepSig[t] => locked[sock[t]] /\ wantlock[sock[t]]
       /\ pc[t] = "take" => queue[sock[t]] # <<>>

\* Every socket in a queue waits there once, in state UNS_WAITING, and one in
\* state UNS_PROCESSING is in the hands of exactly one accept(): no connection is
\* accepted twice.
QueuedOnce ==
  /\ \A l \in Listeners, i, j \in 1 .. queue_size :
       i <= Len(queue[l]) /\ j <= Len(queue[l]) /\ queue[l][i] = queue[l][j] => i = j
  /\ \A l \in Listeners, i \in 1 .. queue_size :
       i <= Len(queue[l]) => state[queue[l][i]] = "WAITING"
  /\ \A c \in Clients :
       state[c] = "PROCESSING" =>
         Cardinality({t \in Servers : client[t] = c}) = 1

\* A connection that connect() reports has its two streams, as long as neither
\* side has closed it, and connect() reports what accept() decided.
ConnectedHasStreams ==
  \A c \in Clients :
    pc[c] = "result" =>
      /\ st[c] = state[c]
      /\ st[c] = "ACCEPTED" => to_server[c] # NoStream /\ from_server[c] # NoStream

\* connect.2: "If the connection or binding succeeds, 0 is returned."  No
\* connector is asleep on an answer unless its wakeup is there or still to come.
ConnectorIsWoken ==
  \A c \in Clients :
    pc[c] \in {"connect", "again"} /\ ~sleepSig[c] /\ state[c] \in Final =>
      \E t \in Servers : pc[t] = "wake" /\ client[t] = c

\* A name is freed only when no task can be in accept() or select() on it.
NameFreedWhenUnused ==
  \A l \in Listeners :
    /\ unix_name[l] = "freed" => \A t \in Servers : sock[t] # l
    /\ unix_name[l] = "listed" <=> \E i \in 1 .. Len(names) : names[i] = l

\* The variables are of their types, a reported connection has its streams
\* (ConnectedHasStreams), and a name is freed only when it is not in use
\* (NameFreedWhenUnused).
SocketsAreWhole == TypeOK /\ ConnectedHasStreams /\ NameFreedWhenUnused

\* A connector that accept() has answered returns from connect(), if signals do
\* not interrupt it.
ConnectReturns ==
  \A c \in Clients \ Interruptible : (pc[c] = "connect" /\ state[c] \in Final) ~> pc[c] = "idle"

\* accept.2: accept() "blocks the caller until a connection is present"; it does
\* not sleep, unsignalled, on a queue with a connection in it.
AcceptorIsWoken ==
  \A t \in Servers :
    pc[t] = "asleep" /\ ~sleepSig[t] /\ queue[sock[t]] # <<>> =>
      \E c \in Clients : pc[c] = "signal"

\* select.h: the mask of SELCMD_PREPARE "indicates that this file has changed
\* mode"; select() does not wait, unsignalled, on a queue with a connection in it.
ListenSelectorIsTold ==
  \A t \in Servers :
    pc[t] = "wait" /\ ~pipeSig[t] /\ queue[sock[t]] # <<>> =>
      \E c \in Clients : pc[c] = "signal"

\* connect.2: "If the connection or binding succeeds, 0 is returned. Otherwise a
\* -1 is returned": a socket whose connect() failed is not connected later.
RefusedStaysRefused ==
  \A c \in Clients :
    pc[c] = "idle" /\ cfile[c] /\ to_server[c] = NoStream /\ from_server[c] = NoStream
      => sfile[c] = NoTask

\* connect.2, again: a connector that waits is one that somebody can answer.
ConnectorIsQueued ==
  \A c \in Clients :
    pc[c] = "connect" /\ state[c] = "WAITING" =>
      \E l \in Listeners, i \in 1 .. queue_size : i <= Len(queue[l]) /\ queue[l][i] = c

\* bind.2: EADDRINUSE, "The specified address is already in use": one path has
\* one listener.
OneNamePerPath == Len(names) <= 1
=============================================================================
