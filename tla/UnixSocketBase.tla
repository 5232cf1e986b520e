--------------------------- MODULE UnixSocketBase ----------------------------
(* An inductive invariant of Unix sockets, for any number of clients, servers  *)
(* and listening sockets, any backlog, and any calls but a second connect() of *)
(* a socket, which finds the state that the first has left                     *)
(* (RefusedStaysRefused); and the parts of it about types, the calls in        *)
(* progress and the list of names.                                             *)
EXTENDS UnixSocket, TLAPS

\* No program calls connect() again on a socket.
OneConnect == "retry" \notin Calls

-----------------------------------------------------------------------------
(* The inductive invariant.                                                    *)

\* TypeOK in three parts, and the domain of wchan.
SockTypes ==
  /\ state \in [Clients -> States]
  /\ to_server \in [Clients -> StreamType] /\ from_server \in [Clients -> StreamType]
  /\ server \in [Clients -> BOOLEAN]
  /\ cfile \in [Clients -> BOOLEAN] /\ sfile \in [Clients -> Servers \cup {NoTask}]
NameTypes ==
  /\ bound \in [Listeners -> BOOLEAN] /\ holds \in [Listeners -> SUBSET Servers]
  /\ nonblock \in [Listeners -> BOOLEAN]
  /\ unix_name \in [Listeners -> {"none", "listed", "freed"}]
  /\ names \in Seq(Listeners) /\ queue \in [Listeners -> Seq(Clients)]
  /\ \A l \in Listeners : Len(queue[l]) <= queue_size
  /\ unTask \in [Listeners -> Servers \cup {NoTask}]
  /\ locked \in [Listeners -> BOOLEAN] /\ wantlock \in [Listeners -> BOOLEAN]
OfTasks(f) == f = [t \in Tasks |-> f[t]]
TaskTypes ==
  /\ pc \in [Tasks -> {"idle"} \cup ClientPcs \cup AcceptPcs \cup SelectPcs]
  /\ sock \in [Tasks -> Listeners \cup {NoSock}]
  /\ client \in [Tasks -> Clients \cup {NoTask}]
  /\ st \in [Tasks -> States] /\ tried \in SUBSET Clients
  /\ sleepSig \in [Tasks -> BOOLEAN] /\ pipeSig \in [Tasks -> BOOLEAN]
  /\ OfTasks(wchan)
Types == SockTypes /\ NameTypes /\ TaskTypes

\* A server in a call has its listening socket open and listed, and the client
\* that accept() has taken from the queue; between calls it has neither.
TasksAreWhere ==
  /\ \A c \in Clients : pc[c] \in {"idle"} \cup ClientPcs
  /\ \A t \in Servers :
       /\ pc[t] \in {"idle"} \cup AcceptPcs \cup SelectPcs
       /\ pc[t] = "idle" => sock[t] = NoSock
       /\ pc[t] # "idle" => /\ sock[t] \in Listeners /\ t \in holds[sock[t]]
                            /\ unix_name[sock[t]] = "listed"
       /\ pc[t] \in {"rel", "socket", "wake"} => client[t] \in Clients
       /\ pc[t] \notin {"rel", "socket", "wake"} => client[t] = NoTask

\* AcceptLock, and where the tasks that wait for the lock sleep.
LockIsKept ==
  /\ AcceptLock
  /\ \A t \in Servers : pc[t] = "getwait" => wchan[t] = LockChan(sock[t])

\* The list of names has each name that is listed, once.
NamesAreListed ==
  /\ \A l \in Listeners : unix_name[l] = "listed" <=> \E i \in DOMAIN names : names[i] = l
  /\ \A i, j \in DOMAIN names : names[i] = names[j] => i = j

\* The queues hold sockets that have called connect() and that no accept() has
\* taken, each in one place.
QueuesAreApart ==
  /\ \A l \in Listeners : \A i \in DOMAIN queue[l] :
       state[queue[l][i]] = "WAITING" /\ queue[l][i] \in tried
  /\ \A l, m \in Listeners : \A i \in DOMAIN queue[l], j \in DOMAIN queue[m] :
       queue[l][i] = queue[m][j] => l = m /\ i = j

\* What state says of the accept() that has a client.
ClientsAreApart ==
  /\ \A t \in Servers : /\ pc[t] \in {"rel", "socket"} => state[client[t]] = "PROCESSING"
                        /\ pc[t] = "wake" => state[client[t]] \in Final
  /\ \A t, u \in Servers : client[t] = client[u] /\ client[t] # NoTask => t = u
  /\ \A c \in Clients : state[c] = "PROCESSING" => \E t \in Servers : client[t] = c
  /\ \A c \in Clients \ tried : state[c] = "WAITING" /\ pc[c] = "idle"

\* While connect() runs only the server's side can have been closed.
StreamsAreKept ==
  \A c \in Clients :
    /\ pc[c] # "idle" => /\ to_server[c] # NoStream /\ to_server[c] \subseteq {"NO_READER"}
                         /\ from_server[c] # NoStream /\ from_server[c] \subseteq {"NO_WRITER"}
    /\ pc[c] = "result" => st[c] = state[c] /\ state[c] \in Final

IInv ==
  /\ Types /\ TasksAreWhere /\ LockIsKept /\ NamesAreListed
  /\ QueuesAreApart /\ ClientsAreApart /\ StreamsAreKept

-----------------------------------------------------------------------------
(* Types.                                                                      *)

\* No task is a client and a server, and the markers are none of what they stand
\* for.
LEMMA Apart ==
  /\ Tasks = Clients \cup Servers /\ \A t \in Servers : t \notin Clients
  /\ NoTask \notin Tasks /\ NoSock \notin Listeners
  /\ \A s : s \subseteq EndFlags => s # NoStream
  /\ queue_size \in Nat /\ queue_size > 0
<1>1. \A s : s \subseteq EndFlags => s # NoStream
  BY UnixSocketAssumption
<1>2. queue_size \in Nat /\ queue_size > 0
  BY UnixSocketAssumption DEF queue_size
<1> QED
  BY <1>1, <1>2, UnixSocketAssumption

\* Closing sides of a connection gives streams again, and leaves one open at the
\* other side.
LEMMA ClosedTypes ==
  ASSUME NEW s \in StreamType, NEW flag \in EndFlags
  PROVE  /\ close_stream(s, flag) \in StreamType
         /\ s # NoStream /\ s \subseteq {flag} => close_stream(s, flag) = {flag}
<1>1. CASE s = NoStream
  BY <1>1 DEF close_stream, StreamType
<1>2. CASE s # NoStream
  <2>1. s \subseteq EndFlags /\ s \cup {flag} \in SUBSET EndFlags
    BY <1>2 DEF StreamType
  <2>2. {flag} # EndFlags
    BY DEF EndFlags
  <2>3. s \subseteq {flag} => s \cup {flag} = {flag}
    OBVIOUS
  <2> QED
    BY <1>2, <2>1, <2>2, <2>3 DEF close_stream, StreamType
<1> QED
  BY <1>1, <1>2

\* CloseSides() in particular.
LEMMA ClosedSides ==
  ASSUME SockTypes, NEW c \in Clients, NEW isServer \in BOOLEAN, NEW sides,
         CloseSides(c, isServer, sides)
  PROVE  /\ to_server' \in [Clients -> StreamType] /\ from_server' \in [Clients -> StreamType]
         /\ \A d \in Clients \ {c} : to_server'[d] = to_server[d] /\ from_server'[d] = from_server[d]
         /\ (isServer /\ to_server[c] # NoStream /\ to_server[c] \subseteq {"NO_READER"}) =>
              to_server'[c] # NoStream /\ to_server'[c] \subseteq {"NO_READER"}
         /\ (isServer /\ from_server[c] # NoStream /\ from_server[c] \subseteq {"NO_WRITER"}) =>
              from_server'[c] # NoStream /\ from_server'[c] \subseteq {"NO_WRITER"}
<1> DEFINE reads == IF isServer THEN "to" ELSE "from"
           flag(dir) == IF dir = reads THEN "NO_READER" ELSE "NO_WRITER"
           shut(dir, s) == IF flag(dir) \in sides THEN close_stream(s, flag(dir)) ELSE s
           a == shut("to", to_server[c])
           b == shut("from", from_server[c])
<1>1. to_server' = [to_server EXCEPT ![c] = a] /\ from_server' = [from_server EXCEPT ![c] = b]
  BY DEF CloseSides
<1>2. /\ to_server[c] \in StreamType /\ from_server[c] \in StreamType
      /\ to_server \in [Clients -> StreamType] /\ from_server \in [Clients -> StreamType]
  BY DEF SockTypes
<1>3. flag("to") \in EndFlags /\ flag("from") \in EndFlags
      /\ (isServer => flag("to") = "NO_READER" /\ flag("from") = "NO_WRITER")
  BY DEF EndFlags
<1>4. \A f \in EndFlags : {f} # NoStream
  BY Apart
<1> HIDE DEF flag, reads
<1>5. a \in StreamType /\ b \in StreamType
  BY <1>2, <1>3, ClosedTypes
<1>6. (isServer /\ to_server[c] # NoStream /\ to_server[c] \subseteq {"NO_READER"}) =>
         a # NoStream /\ a \subseteq {"NO_READER"}
  BY <1>2, <1>3, <1>4, ClosedTypes
<1>7. (isServer /\ from_server[c] # NoStream /\ from_server[c] \subseteq {"NO_WRITER"}) =>
         b # NoStream /\ b \subseteq {"NO_WRITER"}
  BY <1>2, <1>3, <1>4, ClosedTypes
<1> HIDE DEF a, b
<1> QED
  BY <1>1, <1>2, <1>5, <1>6, <1>7

\* The steps of connect() that wait leave everything but the task itself alone.
LEMMA ConnectWaits ==
  ASSUME NEW c, ConnectSignal(c) \/ ConnectResume(c) \/ ConnectAgain(c)
  PROVE  UNCHANGED <<sockVars, nameVars, unTask, fileLock, sock, client, tried>>
  BY DEF ConnectSignal, ConnectResume, ConnectAgain, locals

\* Every step keeps the types of the sockets.
LEMMA SockStep ==
  ASSUME Types, TasksAreWhere, Next
  PROVE  SockTypes'
<1>1. CASE UNCHANGED sockVars
  BY <1>1 DEF Types, SockTypes, sockVars
<1>2. ASSUME NEW c \in Clients, ConnectQueue(c) \/ ConnectResult(c) PROVE SockTypes'
  BY <1>2 DEF Types, SockTypes, ConnectQueue, ConnectResult, StreamType
<1>3. ASSUME NEW c \in Clients, CloseClient(c) PROVE SockTypes'
  <2>1. to_server' \in [Clients -> StreamType] /\ from_server' \in [Clients -> StreamType]
    BY ZenonT(30), <1>3, ClosedSides DEF CloseClient, Types
  <2> QED
    BY ZenonT(30), <1>3, <2>1 DEF Types, SockTypes, CloseClient
<1>4. ASSUME NEW c \in Clients, NEW t \in Tasks, Shutdown(t, c) PROVE SockTypes'
  <2>1. PICK sides : CloseSides(c, sfile[c] = t, sides)
    BY <1>4 DEF Shutdown
  <2>2. to_server' \in [Clients -> StreamType] /\ from_server' \in [Clients -> StreamType]
    BY ZenonT(30), <2>1, ClosedSides DEF Types
  <2> QED
    BY <1>4, <2>2 DEF Types, SockTypes, Shutdown
<1>5. ASSUME NEW c \in Clients, NEW t \in Servers, CloseServer(t, c) PROVE SockTypes'
  <2>1. to_server' \in [Clients -> StreamType] /\ from_server' \in [Clients -> StreamType]
    BY ZenonT(30), <1>5, ClosedSides DEF CloseServer, Types
  <2> QED
    BY ZenonT(30), <1>5, <2>1 DEF Types, SockTypes, CloseServer
<1>6. ASSUME NEW t \in Servers, AcceptTake(t) \/ AcceptSocket(t) PROVE SockTypes'
  BY <1>6 DEF Types, SockTypes, AcceptTake, AcceptSocket, States
<1>7. ASSUME NEW t \in Servers,
             \/ GetFile(t) \/ AcceptTest(t) \/ AcceptSleep(t) \/ AcceptResume(t) \/ AcceptRelease(t)
             \/ AcceptWake(t) \/ SelectLook(t) \/ SelectPrepare(t) \/ SelectWait(t)
      PROVE  UNCHANGED sockVars
  BY <1>7 DEF GetFile, AcceptTest, AcceptSleep, AcceptResume, AcceptRelease, AcceptWake, SelectLook,
              SelectPrepare, SelectWait
<1>8. ASSUME NEW t \in Servers, NEW l \in Listeners,
             \/ Bind(t, l) \/ Listen(t, l) \/ Accept(t, l) \/ Fionbio(t, l) \/ Select(t, l)
             \/ CloseListener(t, l)
      PROVE  UNCHANGED sockVars
  BY <1>8 DEF Bind, Listen, Accept, Fionbio, Select, CloseListener
<1>9. ASSUME NEW t \in Tasks, Interrupt(t) \/ Abandon(t) PROVE UNCHANGED sockVars
  BY <1>9 DEF Interrupt, Abandon
<1>10. \A t \in Clients \cup Servers : t \in Tasks
  BY Apart
<1> QED
  BY <1>1, <1>2, <1>3, <1>4, <1>5, <1>6, <1>7, <1>8, <1>9, <1>10, ConnectWaits
     DEF Next, ClientStep, ServerStep

\* Two sequences joined, and the end of a sequence.
LEMMA Joined ==
  ASSUME NEW S, NEW a \in Seq(S), NEW b \in Seq(S)
  PROVE  /\ a \o b \in Seq(S) /\ Len(a \o b) = Len(a) + Len(b)
         /\ \A j \in 1 .. Len(a) + Len(b) :
              (a \o b)[j] = IF j <= Len(a) THEN a[j] ELSE b[j - Len(a)]
  OBVIOUS

LEMMA Rest ==
  ASSUME NEW S, NEW q \in Seq(S), NEW i \in 2 .. Len(q) + 1
  PROVE  /\ SubSeq(q, i, Len(q)) \in Seq(S) /\ Len(SubSeq(q, i, Len(q))) = Len(q) - i + 1
         /\ \A j \in 1 .. Len(q) - i + 1 : SubSeq(q, i, Len(q))[j] = q[j + i - 1]
<1>1. \A j \in i .. Len(q) : q[j] \in S
  OBVIOUS
<1>2. SubSeq(q, i, Len(q)) \in Seq(S)
  BY <1>1
<1>3. Len(SubSeq(q, i, Len(q))) = Len(q) - i + 1
  OBVIOUS
<1>4. ASSUME NEW j \in 1 .. Len(q) - i + 1 PROVE SubSeq(q, i, Len(q))[j] = q[j + i - 1]
  OBVIOUS
<1> QED
  BY <1>2, <1>3, <1>4

\* The list without its i-th name.
LEMMA Unlinked ==
  ASSUME NEW S, NEW q \in Seq(S), NEW i \in 1 .. Len(q), NEW r,
         r = SubSeq(q, 1, i - 1) \o SubSeq(q, i + 1, Len(q))
  PROVE  /\ r \in Seq(S) /\ Len(r) = Len(q) - 1
         /\ \A j \in 1 .. Len(q) - 1 : r[j] = IF j < i THEN q[j] ELSE q[j + 1]
<1>1. i \in 1 .. Len(q) /\ Len(q) \in Nat
  OBVIOUS
<1> DEFINE n == Len(q)
           k == i + 1
           a == SubSeq(q, 1, i - 1)
           b == SubSeq(q, k, n)
<1>2. a \in Seq(S) /\ Len(a) = i - 1 /\ \A j \in 1 .. i - 1 : a[j] = q[j]
  BY <1>1
<1>3. k \in 2 .. n + 1 /\ n \in Nat /\ k = i + 1
  BY <1>1
<1>4. r = a \o b
  OBVIOUS
<1> HIDE DEF k, a
<1>5. b \in Seq(S) /\ Len(b) = n - k + 1 /\ \A j \in 1 .. n - k + 1 : b[j] = q[j + k - 1]
  BY <1>3, Rest
<1> HIDE DEF b, n
<1>6. /\ r \in Seq(S) /\ Len(r) = Len(a) + Len(b)
      /\ \A j \in 1 .. Len(a) + Len(b) : r[j] = IF j <= Len(a) THEN a[j] ELSE b[j - Len(a)]
  <2> HIDE <1>1
  <2> QED
    BY ONLY <1>2, <1>4, <1>5, Joined
<1>7. Len(a) + Len(b) = n - 1 /\ i \in 1 .. n
  BY <1>1, <1>2, <1>3, <1>5 DEF n
<1>8. ASSUME NEW j \in 1 .. n - 1 PROVE r[j] = IF j < i THEN q[j] ELSE q[j + 1]
  <2>1. CASE j < i
    <3>1. j \in 1 .. i - 1 /\ j \in 1 .. Len(a) + Len(b) /\ j <= Len(a)
      BY <1>2, <1>7, <2>1
    <3> QED
      BY ZenonT(30), <1>2, <1>6, <2>1, <3>1
  <2>2. CASE ~(j < i)
    <3>1. /\ j - Len(a) \in 1 .. n - k + 1 /\ (j - Len(a)) + k - 1 = j + 1
          /\ ~(j <= Len(a)) /\ ~(j < i)
      BY <1>2, <1>3, <1>7, <2>2
    <3>2. r[j] = b[j - Len(a)]
      BY ZenonT(30), <1>6, <1>7, <3>1
    <3>3. b[j - Len(a)] = q[j + 1]
      BY <1>5, <3>1
    <3> QED
      BY ZenonT(30), <3>1, <3>2, <3>3
  <2> QED
    BY ZenonT(30), <2>1, <2>2
<1> QED
  BY ZenonT(30), <1>6, <1>7, <1>8 DEF n

\* The first client leaves the queue, or one comes to its end.
LEMMA QueueEnds ==
  ASSUME NEW S, NEW q \in Seq(S)
  PROVE  /\ q # <<>> => /\ Tail(q) \in Seq(S) /\ Len(Tail(q)) = Len(q) - 1 /\ Len(q) > 0
                        /\ Head(q) \in S /\ Head(q) = q[1]
                        /\ \A i \in 1 .. Len(q) - 1 : Tail(q)[i] = q[i + 1]
         /\ \A x \in S : /\ Append(q, x) \in Seq(S) /\ Len(Append(q, x)) = Len(q) + 1
                         /\ \A i \in 1 .. Len(q) : Append(q, x)[i] = q[i]
                         /\ Append(q, x)[Len(q) + 1] = x
  OBVIOUS

\* Every step keeps the types of the listeners.
LEMMA NameStep ==
  ASSUME Types, TasksAreWhere, Next
  PROVE  NameTypes'
<1>1. CASE UNCHANGED <<nameVars, unTask, fileLock>>
  BY <1>1 DEF Types, NameTypes, nameVars, fileLock
<1>2. ASSUME NEW c \in Clients, ConnectQueue(c), ~UNCHANGED queue PROVE NameTypes'
  <2> DEFINE l == Head(names)
  <2>1. /\ names # <<>> /\ Len(queue[l]) < queue_size
        /\ queue' = [queue EXCEPT ![l] = Append(queue[l], c)]
        /\ UNCHANGED <<bound, holds, nonblock, unix_name, names, unTask, fileLock>>
    BY <1>2 DEF ConnectQueue
  <2>2. l \in Listeners
    BY <2>1, QueueEnds DEF Types, NameTypes
  <2> HIDE DEF l
  <2>3. Append(queue[l], c) \in Seq(Clients) /\ Len(Append(queue[l], c)) = Len(queue[l]) + 1
        /\ Len(queue[l]) \in Nat
    BY <2>2, QueueEnds DEF Types, NameTypes
  <2>4. queue' \in [Listeners -> Seq(Clients)]
    BY <2>1, <2>2, <2>3 DEF Types, NameTypes
  <2>5. ASSUME NEW m \in Listeners PROVE Len(queue'[m]) <= queue_size
    BY <2>1, <2>2, <2>3, Apart DEF Types, NameTypes
  <2> QED
    BY ZenonT(30), <2>1, <2>4, <2>5 DEF Types, NameTypes, fileLock
<1>3. ASSUME NEW t \in Servers, NEW l \in Listeners, Bind(t, l) \/ Fionbio(t, l) PROVE NameTypes'
  BY ZenonT(30), <1>3 DEF Types, NameTypes, Bind, Fionbio, fileLock
<1>4. ASSUME NEW t \in Servers, NEW l \in Listeners, Listen(t, l) PROVE NameTypes'
  <2>1. names' \in Seq(Listeners)
    BY <1>4 DEF Types, NameTypes, Listen
  <2>2. queue' \in [Listeners -> Seq(Clients)] /\ \A m \in Listeners : Len(queue'[m]) <= queue_size
    BY <1>4, Apart DEF Types, NameTypes, Listen
  <2> QED
    BY <1>4, <2>1, <2>2 DEF Types, NameTypes, Listen, fileLock
<1>5. ASSUME NEW t \in Servers, NEW l \in Listeners, CloseListener(t, l) PROVE NameTypes'
  <2>1. names' \in Seq(Listeners)
    <3>1. CASE UNCHANGED names
      BY <3>1 DEF Types, NameTypes
    <3>2. CASE ~UNCHANGED names
      <4>1. PICK i \in DOMAIN names : names' = SubSeq(names, 1, i - 1) \o SubSeq(names, i + 1, Len(names))
        BY ZenonT(30), <1>5, <3>2 DEF CloseListener
      <4>2. names \in Seq(Listeners) /\ i \in 1 .. Len(names)
        BY DEF Types, NameTypes
      <4> QED
        BY <4>1, <4>2, Unlinked
    <3> QED
      BY <3>1, <3>2
  <2>2. queue' = queue \/ queue' = [queue EXCEPT ![l] = <<>>]
    BY <1>5 DEF CloseListener
  <2>3. queue' \in [Listeners -> Seq(Clients)] /\ \A m \in Listeners : Len(queue'[m]) <= queue_size
    <3>1. CASE queue' = queue
      BY <3>1 DEF Types, NameTypes
    <3>2. CASE queue' = [queue EXCEPT ![l] = <<>>]
      BY <3>2, Apart DEF Types, NameTypes
    <3> QED
      BY <2>2, <3>1, <3>2
  <2> QED
    BY ZenonT(30), <1>5, <2>1, <2>3 DEF Types, NameTypes, CloseListener, fileLock
<1>6. ASSUME NEW t \in Servers, AcceptTake(t) PROVE NameTypes'
  <2>1. /\ sock[t] \in Listeners /\ queue[sock[t]] # <<>>
        /\ queue' = [queue EXCEPT ![sock[t]] = Tail(queue[sock[t]])]
        /\ UNCHANGED <<bound, holds, nonblock, unix_name, names, unTask, fileLock>>
    BY <1>6 DEF AcceptTake, TasksAreWhere
  <2>2. /\ Tail(queue[sock[t]]) \in Seq(Clients) /\ Len(queue[sock[t]]) \in Nat
        /\ Len(Tail(queue[sock[t]])) = Len(queue[sock[t]]) - 1
    BY <2>1, QueueEnds DEF Types, NameTypes
  <2>3. queue' \in [Listeners -> Seq(Clients)]
    BY <2>1, <2>2 DEF Types, NameTypes
  <2>4. ASSUME NEW m \in Listeners PROVE Len(queue'[m]) <= queue_size
    BY <2>1, <2>2, Apart DEF Types, NameTypes
  <2> QED
    BY <2>1, <2>3, <2>4 DEF Types, NameTypes, fileLock
<1>7. ASSUME NEW t \in Servers, SelectLook(t) \/ SelectPrepare(t) PROVE NameTypes'
  BY ZenonT(30), <1>7 DEF Types, NameTypes, SelectLook, SelectPrepare, nameVars, fileLock
<1>8. ASSUME NEW t \in Servers, GetFile(t) \/ AcceptSleep(t) \/ AcceptRelease(t) PROVE NameTypes'
  BY ZenonT(30), <1>8 DEF Types, NameTypes, GetFile, AcceptSleep, AcceptRelease, release_file, nameVars
<1>9. ASSUME NEW t \in Servers,
             \/ AcceptTest(t) \/ AcceptResume(t) \/ AcceptSocket(t) \/ AcceptWake(t) \/ SelectWait(t)
      PROVE  UNCHANGED <<nameVars, unTask, fileLock>>
  BY <1>9 DEF AcceptTest, AcceptResume, AcceptSocket, AcceptWake, SelectWait
<1>10. ASSUME NEW t \in Servers, NEW l \in Listeners, Accept(t, l) \/ Select(t, l)
       PROVE  UNCHANGED <<nameVars, unTask, fileLock>>
  BY <1>10 DEF Accept, Select
<1>11. ASSUME NEW t \in Tasks, Interrupt(t) \/ Abandon(t) PROVE UNCHANGED <<nameVars, unTask, fileLock>>
  BY ZenonT(30), <1>11 DEF Interrupt, Abandon
<1>12. ASSUME NEW c \in Clients, NEW t \in Tasks,
              \/ ConnectQueue(c) /\ UNCHANGED queue
              \/ ConnectResult(c) \/ CloseClient(c) \/ Shutdown(t, c) \/ CloseServer(t, c)
       PROVE  UNCHANGED <<nameVars, unTask, fileLock>>
  BY ZenonT(30), <1>12 DEF ConnectQueue, ConnectResult, CloseClient, Shutdown, CloseServer, nameVars
<1>13. \A t \in Clients \cup Servers : t \in Tasks
  BY Apart
<1> QED
  BY <1>1, <1>2, <1>3, <1>4, <1>5, <1>6, <1>7, <1>8, <1>9, <1>10, <1>11, <1>12, <1>13, ConnectWaits
     DEF Next, ClientStep, ServerStep

\* What the operations of SleepQueue give.
LEMMA SleepTypes ==
  ASSUME TaskTypes
  PROVE  /\ \A x : Wakeup(wchan, sleepSig, x) \in [Tasks -> BOOLEAN]
         /\ \A t : ClearSig(sleepSig, t) \in [Tasks -> BOOLEAN]
         /\ \A t, x : OfTasks(SleepOn(wchan, t, x))
         /\ \A t : OfTasks(Dequeue(wchan, t))
  BY DEF TaskTypes, Wakeup, ClearSig, SleepOn, Dequeue, OfTasks

\* Every step keeps the types of the tasks.
LEMMA TaskStep ==
  ASSUME Types, TasksAreWhere, Next
  PROVE  TaskTypes'
<1> USE DEF Types, TaskTypes
<1>0. /\ \A t \in Clients \cup Servers : t \in Tasks
      /\ \A c \in Clients : state[c] \in States
      /\ "WAITING" \in States
  BY Apart DEF SockTypes, States
<1>1. ASSUME NEW c \in Clients, ConnectQueue(c) PROVE TaskTypes'
  <2>1. names # <<>> => Head(names) \in Listeners
    BY QueueEnds DEF NameTypes
  <2> QED
    BY ZenonT(30), <1>0, <1>1, <2>1 DEF ConnectQueue, Goto, ClientPcs, sleepVars, OfTasks
<1>2. ASSUME NEW c \in Clients, ConnectSignal(c) PROVE TaskTypes'
  <2>1. \E p \in ClientPcs : pc' = [pc EXCEPT ![c] = p]
    BY ZenonT(30), <1>2 DEF ConnectSignal, Goto, ClientPcs
  <2>2. OfTasks(wchan') /\ sleepSig' \in [Tasks -> BOOLEAN] /\ pipeSig' \in [Tasks -> BOOLEAN]
    BY <1>2, SleepTypes DEF ConnectSignal
  <2> QED
    BY <1>0, <1>2, <2>1, <2>2 DEF ConnectSignal
<1>3. ASSUME NEW c \in Clients, ConnectResume(c) \/ ConnectAgain(c) PROVE TaskTypes'
  <2>1. \E p \in ClientPcs : pc' = [pc EXCEPT ![c] = p]
    BY <1>3 DEF ConnectResume, ConnectAgain, Goto, ClientPcs
  <2>2. OfTasks(wchan') /\ sleepSig' \in [Tasks -> BOOLEAN]
    BY <1>3, SleepTypes DEF ConnectResume, ConnectAgain
  <2> QED
    BY ZenonT(30), <1>0, <1>3, <2>1, <2>2 DEF ConnectResume, ConnectAgain, locals
<1>4. ASSUME NEW t \in Tasks, Return(t), UNCHANGED tried, OfTasks(wchan'),
             sleepSig' \in [Tasks -> BOOLEAN], UNCHANGED pipeSig
      PROVE  TaskTypes'
  BY <1>0, <1>4 DEF Return, Goto
<1>5. ASSUME NEW t \in Tasks,
             NEW p \in {"idle"} \cup ClientPcs \cup AcceptPcs \cup SelectPcs, Goto(t, p),
             UNCHANGED <<sock, client, st, tried>>, OfTasks(wchan'), sleepSig' \in [Tasks -> BOOLEAN],
             pipeSig' \in [Tasks -> BOOLEAN]
      PROVE  TaskTypes'
  <2>1. pc' \in [Tasks -> {"idle"} \cup ClientPcs \cup AcceptPcs \cup SelectPcs]
    BY <1>5 DEF Goto
  <2> QED
    BY <1>5, <2>1
<1>6. ASSUME NEW c \in Clients, ConnectResult(c) PROVE TaskTypes'
  BY <1>0, <1>4, <1>6 DEF ConnectResult, sleepVars, OfTasks
<1>7. ASSUME NEW t \in Servers, NEW l \in Listeners, Accept(t, l) \/ Select(t, l) PROVE TaskTypes'
  BY <1>0, <1>7 DEF Accept, Select, Goto, AcceptPcs, SelectPcs, sleepVars, OfTasks
<1>8. ASSUME NEW t \in Servers, GetFile(t) PROVE TaskTypes'
  BY <1>0, <1>5, <1>8, SleepTypes DEF GetFile, AcceptPcs, locals
<1>9. ASSUME NEW t \in Servers, AcceptTest(t) PROVE TaskTypes'
  BY ZenonT(30), <1>0, <1>5, <1>9 DEF AcceptTest, AcceptPcs, locals, sleepVars, OfTasks
<1>10. ASSUME NEW t \in Servers, SelectPrepare(t) \/ SelectWait(t) PROVE TaskTypes'
  BY ZenonT(30), <1>0, <1>5, <1>10 DEF SelectPrepare, SelectWait, SelectPcs, locals, sleepVars, OfTasks
<1>11. ASSUME NEW t \in Servers, AcceptSleep(t) \/ AcceptResume(t) PROVE TaskTypes'
  <2>1. OfTasks(wchan') /\ sleepSig' \in [Tasks -> BOOLEAN]
    BY <1>11, SleepTypes DEF AcceptSleep, AcceptResume, release_file
  <2>2. \E p \in AcceptPcs : Goto(t, p)
    BY <1>11 DEF AcceptSleep, AcceptResume, AcceptPcs
  <2> QED
    BY ZenonT(30), <1>0, <1>5, <1>11, <2>1, <2>2 DEF AcceptSleep, AcceptResume, locals
<1>12. ASSUME NEW t \in Servers, AcceptTake(t) PROVE TaskTypes'
  <2>1. Head(queue[sock[t]]) \in Clients
    BY <1>12, QueueEnds DEF AcceptTake, TasksAreWhere, NameTypes
  <2> QED
    BY ZenonT(30), <1>0, <1>12, <2>1 DEF AcceptTake, Goto, AcceptPcs, sleepVars, OfTasks
<1>13. ASSUME NEW t \in Servers, AcceptRelease(t) PROVE TaskTypes'
  <2>1. OfTasks(wchan') /\ sleepSig' \in [Tasks -> BOOLEAN]
    BY <1>13, SleepTypes DEF AcceptRelease, release_file, OfTasks
  <2> QED
    BY ZenonT(30), <1>0, <1>4, <1>5, <1>13, <2>1 DEF AcceptRelease, AcceptPcs
<1>14. ASSUME NEW t \in Servers, AcceptSocket(t) PROVE TaskTypes'
  BY ZenonT(30), <1>0, <1>5, <1>14 DEF AcceptSocket, AcceptPcs, locals, sleepVars, OfTasks
<1>15. ASSUME NEW t \in Servers, AcceptWake(t) PROVE TaskTypes'
  BY ZenonT(30), <1>0, <1>4, <1>15, SleepTypes DEF AcceptWake, OfTasks
<1>16. ASSUME NEW t \in Servers, SelectLook(t) PROVE TaskTypes'
  <2>1. OfTasks(wchan') /\ sleepSig' \in [Tasks -> BOOLEAN]
    BY <1>16, SleepTypes DEF SelectLook, OfTasks
  <2> QED
    BY <1>0, <1>4, <1>5, <1>16, <2>1 DEF SelectLook, SelectPcs
<1>17. ASSUME NEW t \in Tasks, Interrupt(t) PROVE TaskTypes'
  BY <1>17 DEF Interrupt, locals, OfTasks
<1>18. ASSUME NEW t \in Tasks, Abandon(t) PROVE TaskTypes'
  BY <1>4, <1>18, SleepTypes DEF Abandon
<1>19. ASSUME NEW c \in Clients, NEW t \in Tasks, CloseClient(c) \/ Shutdown(t, c) \/ CloseServer(t, c)
       PROVE  TaskTypes'
  BY ZenonT(30), <1>19 DEF CloseClient, Shutdown, CloseServer, locals, sleepVars, OfTasks
<1>20. ASSUME NEW t \in Servers, NEW l \in Listeners,
              Bind(t, l) \/ Listen(t, l) \/ Fionbio(t, l) \/ CloseListener(t, l)
       PROVE  TaskTypes'
  BY ZenonT(30), <1>20 DEF Bind, Listen, Fionbio, CloseListener, locals, sleepVars, OfTasks
<1> QED
  BY ZenonT(30), <1>0, <1>1, <1>2, <1>3, <1>4, <1>5, <1>6, <1>7, <1>8, <1>9, <1>10, <1>11, <1>12, <1>13,
     <1>14, <1>15, <1>16, <1>17, <1>18, <1>19, <1>20
     DEF Next, ClientStep, ServerStep

-----------------------------------------------------------------------------
(* Where the tasks are.                                                        *)

\* A server goes on in its call with the same socket and client.
LEMMA WhereMoves ==
  ASSUME TasksAreWhere, DOMAIN pc = Tasks, \A c \in Clients \cup Servers : c \in Tasks,
         NEW t \in Servers, t \notin Clients, NEW q \in AcceptPcs \cup SelectPcs,
         pc' = [pc EXCEPT ![t] = q], UNCHANGED <<sock, client, holds, unix_name>>,
         pc[t] # "idle", q # "idle",
         q \in {"rel", "socket", "wake"} <=> pc[t] \in {"rel", "socket", "wake"}
  PROVE  TasksAreWhere'
  BY DEF TasksAreWhere

\* Every step keeps them there.
LEMMA WhereStep ==
  ASSUME Types, TasksAreWhere, Next
  PROVE  TasksAreWhere'
<1> USE DEF TasksAreWhere
<1>0. /\ \A t \in Clients \cup Servers : t \in Tasks
      /\ \A t \in Servers : t \notin Clients
      /\ NoTask \notin Clients /\ NoSock \notin Listeners
      /\ DOMAIN pc = Tasks /\ DOMAIN sock = Tasks /\ DOMAIN client = Tasks
  BY Apart DEF Types, TaskTypes
<1>1. ASSUME NEW c \in Clients, ConnectQueue(c) \/ ConnectResult(c) PROVE TasksAreWhere'
  <2>1. /\ UNCHANGED <<holds, unix_name>>
        /\ \A d \in Clients : pc'[d] = pc[d] \/ pc'[d] \in {"idle", "signal"}
        /\ \A t \in Servers : pc'[t] = pc[t] /\ sock'[t] = sock[t] /\ client'[t] = client[t]
    BY <1>0, <1>1 DEF ConnectQueue, ConnectResult, Return, Goto, nameVars
  <2> QED
    BY ZenonT(30), <1>0, <2>1 DEF ClientPcs
<1>2. ASSUME NEW c \in Clients, ConnectSignal(c) \/ ConnectResume(c) \/ ConnectAgain(c)
      PROVE  TasksAreWhere'
  <2>1. PICK q \in ClientPcs :
          pc' = [pc EXCEPT ![c] = q] /\ UNCHANGED <<holds, unix_name, sock, client>>
    BY ZenonT(30), <1>2 DEF ConnectSignal, ConnectResume, ConnectAgain, Goto, ClientPcs, locals, nameVars
  <2> QED
    BY <1>0, <2>1
<1>3. ASSUME NEW t \in Servers, NEW l \in Listeners, Accept(t, l) \/ Select(t, l)
      PROVE  TasksAreWhere'
  BY <1>0, <1>3 DEF Accept, Select, Goto, AcceptPcs, SelectPcs, nameVars
<1>4. ASSUME NEW t \in Servers, GetFile(t) \/ AcceptTest(t) \/ AcceptSleep(t) \/ AcceptResume(t)
      PROVE  TasksAreWhere'
  <2>1. PICK q \in {"get", "getwait", "test", "take", "fail", "presleep", "asleep"} :
          /\ pc' = [pc EXCEPT ![t] = q] /\ UNCHANGED <<sock, client, holds, unix_name>>
          /\ pc[t] \in {"get", "getwait", "test", "presleep", "asleep"}
    BY ZenonT(30), <1>4 DEF GetFile, AcceptTest, AcceptSleep, AcceptResume, Goto, locals, nameVars
  <2>2. q \in AcceptPcs
    BY ZenonT(30), <2>1 DEF AcceptPcs
  <2> QED
    BY ZenonT(30), <1>0, <2>1, <2>2, WhereMoves
<1>5. ASSUME NEW t \in Servers, AcceptTake(t) PROVE TasksAreWhere'
  <2>1. Head(queue[sock[t]]) \in Clients
    BY ZenonT(30), <1>5, QueueEnds DEF AcceptTake, Types, NameTypes
  <2> QED
    BY <1>0, <1>5, <2>1 DEF AcceptTake, Goto, AcceptPcs
<1>6. ASSUME NEW t \in Servers, AcceptRelease(t) \/ AcceptSocket(t) \/ AcceptWake(t)
      PROVE  TasksAreWhere'
  <2>1. UNCHANGED <<holds, unix_name>>
    BY ZenonT(30), <1>6 DEF AcceptRelease, AcceptSocket, AcceptWake, nameVars
  <2>2. CASE Return(t)
    BY ZenonT(30), <1>0, <2>1, <2>2 DEF Return, Goto
  <2>3. CASE ~Return(t)
    <3>1. PICK q \in {"socket", "wake"} :
            /\ pc' = [pc EXCEPT ![t] = q] /\ UNCHANGED <<sock, client>>
            /\ pc[t] \in {"rel", "socket"}
      BY <1>6, <2>3 DEF AcceptRelease, AcceptSocket, AcceptWake, Goto, locals
    <3>2. q \in AcceptPcs
      BY ZenonT(30), <3>1 DEF AcceptPcs
    <3> QED
      BY ZenonT(30), <1>0, <2>1, <3>1, <3>2, WhereMoves
  <2> QED
    BY ZenonT(30), <2>2, <2>3
<1>7. ASSUME NEW t \in Servers, SelectLook(t) \/ SelectPrepare(t) \/ SelectWait(t)
      PROVE  TasksAreWhere'
  BY <1>0, <1>7 DEF SelectLook, SelectPrepare, SelectWait, Return, Goto, SelectPcs, locals, nameVars
<1>8. ASSUME NEW t \in Tasks, Interrupt(t) \/ Abandon(t) PROVE TasksAreWhere'
  BY <1>0, <1>8 DEF Interrupt, Abandon, Return, Goto, locals, nameVars
<1>9. ASSUME NEW c \in Clients, NEW t \in Tasks, CloseClient(c) \/ Shutdown(t, c) \/ CloseServer(t, c)
      PROVE  TasksAreWhere'
  BY ZenonT(30), <1>9 DEF CloseClient, Shutdown, CloseServer, locals, nameVars
<1>10. ASSUME NEW t \in Servers, NEW l \in Listeners, Bind(t, l) \/ Listen(t, l) \/ Fionbio(t, l)
       PROVE  TasksAreWhere'
  BY <1>10 DEF Bind, Listen, Fionbio, locals, Types, NameTypes
<1>11. ASSUME NEW t \in Servers, NEW l \in Listeners, CloseListener(t, l) PROVE TasksAreWhere'
  <2>1. /\ UNCHANGED <<pc, sock, client>> /\ pc[t] = "idle"
        /\ holds' = [holds EXCEPT ![l] = @ \ {t}]
        /\ \/ UNCHANGED unix_name
           \/ holds'[l] = {} /\ unix_name' = [unix_name EXCEPT ![l] = "freed"]
    BY ZenonT(30), <1>11 DEF CloseListener, locals
  <2>2. ASSUME NEW u \in Servers, pc[u] # "idle"
        PROVE  u \in holds'[sock[u]] /\ unix_name'[sock[u]] = "listed"
    BY <2>1, <2>2 DEF Types, NameTypes
  <2> QED
    BY <2>1, <2>2
<1> QED
  BY ZenonT(30), <1>0, <1>1, <1>2, <1>3, <1>4, <1>5, <1>6, <1>7, <1>8, <1>9, <1>10, <1>11
     DEF Next, ClientStep, ServerStep

-----------------------------------------------------------------------------
(* The list of names.                                                          *)

LEMMA NamesStep ==
  ASSUME Types, NamesAreListed, Next
  PROVE  NamesAreListed'
<1>1. CASE UNCHANGED <<names, unix_name>>
  BY ZenonT(30), <1>1 DEF NamesAreListed
<1>2. ASSUME NEW t \in Servers, NEW l \in Listeners, Listen(t, l) PROVE NamesAreListed'
  <2>1. /\ unix_name[l] = "none" /\ unix_name' = [unix_name EXCEPT ![l] = "listed"]
        /\ names' = <<l>> \o names
    BY <1>2 DEF Listen
  <2>2. /\ names' \in Seq(Listeners) /\ Len(names) \in Nat /\ Len(names') = Len(names) + 1
        /\ DOMAIN names = 1 .. Len(names) /\ DOMAIN names' = 1 .. Len(names) + 1
        /\ names'[1] = l /\ \A i \in 2 .. Len(names) + 1 : names'[i] = names[i - 1]
    BY <2>1 DEF Types, NameTypes
  <2>3. \A i \in DOMAIN names : names[i] # l
    BY ZenonT(30), <2>1 DEF NamesAreListed
  <2>4. ASSUME NEW m \in Listeners
        PROVE  unix_name'[m] = "listed" <=> \E i \in DOMAIN names' : names'[i] = m
    <3>1. CASE m = l
      <4>1. unix_name'[l] = "listed"
        BY <2>1 DEF Types, NameTypes
      <4>2. 1 \in DOMAIN names'
        BY <2>2
      <4> QED
        BY <2>2, <3>1, <4>1, <4>2
    <3>2. CASE m # l
      <4>1. unix_name'[m] = unix_name[m]
        BY <2>1, <3>2 DEF Types, NameTypes
      <4>2. ASSUME NEW i \in DOMAIN names, names[i] = m PROVE \E j \in DOMAIN names' : names'[j] = m
        <5>1. i + 1 \in 2 .. Len(names) + 1 /\ i + 1 \in DOMAIN names' /\ (i + 1) - 1 = i
          BY <2>2
        <5> QED
          BY <2>2, <4>2, <5>1
      <4>3. ASSUME NEW i \in DOMAIN names', names'[i] = m PROVE \E j \in DOMAIN names : names[j] = m
        <5>1. i # 1
          BY <2>2, <3>2, <4>3
        <5>2. i \in 2 .. Len(names) + 1 /\ i - 1 \in DOMAIN names
          BY <2>2, <5>1
        <5> QED
          BY <2>2, <4>3, <5>2
      <4> QED
        BY <4>1, <4>2, <4>3 DEF NamesAreListed
    <3> QED
      BY <3>1, <3>2
  <2>5. ASSUME NEW i \in DOMAIN names', NEW j \in DOMAIN names', names'[i] = names'[j] PROVE i = j
    <3>1. \A k \in DOMAIN names' : k # 1 => k \in 2 .. Len(names) + 1 /\ k - 1 \in DOMAIN names
      BY <2>2
    <3>2. (i = 1) <=> (j = 1)
      BY <2>2, <2>3, <2>5, <3>1
    <3>3. i # 1 => i - 1 = j - 1
      BY <2>2, <2>5, <3>1, <3>2 DEF NamesAreListed
    <3> QED
      BY <2>2, <3>2, <3>3
  <2> QED
    BY <2>4, <2>5 DEF NamesAreListed
<1>3. ASSUME NEW t \in Servers, NEW l \in Listeners, CloseListener(t, l), ~UNCHANGED <<names, unix_name>>
      PROVE  NamesAreListed'
  <2>1. PICK k \in DOMAIN names :
             /\ names[k] = l /\ unix_name' = [unix_name EXCEPT ![l] = "freed"]
             /\ names' = SubSeq(names, 1, k - 1) \o SubSeq(names, k + 1, Len(names))
    BY ZenonT(30), <1>3 DEF CloseListener
  <2>2. /\ names \in Seq(Listeners) /\ k \in 1 .. Len(names)
        /\ DOMAIN names = 1 .. Len(names) /\ Len(names) \in Nat
    BY DEF Types, NameTypes
  <2>3. /\ names' \in Seq(Listeners) /\ Len(names') = Len(names) - 1
        /\ DOMAIN names' = 1 .. Len(names) - 1
        /\ \A i \in 1 .. Len(names) - 1 : names'[i] = IF i < k THEN names[i] ELSE names[i + 1]
    <3>1. /\ names' \in Seq(Listeners) /\ Len(names') = Len(names) - 1
          /\ \A i \in 1 .. Len(names) - 1 : names'[i] = IF i < k THEN names[i] ELSE names[i + 1]
      BY <2>1, <2>2, Unlinked, ZenonT(40)
    <3> QED
      BY <3>1
  <2> DEFINE at(i) == IF i < k THEN i ELSE i + 1
  <2>4. /\ \A i \in DOMAIN names' : at(i) \in DOMAIN names /\ at(i) # k /\ names'[i] = names[at(i)]
        /\ \A i, j \in DOMAIN names' : at(i) = at(j) => i = j
        /\ \A j \in DOMAIN names : j # k => \E i \in DOMAIN names' : at(i) = j
    <3>1. ASSUME NEW i \in DOMAIN names'
          PROVE  at(i) \in DOMAIN names /\ at(i) # k /\ names'[i] = names[at(i)]
      BY <2>2, <2>3
    <3>2. ASSUME NEW i \in DOMAIN names', NEW j \in DOMAIN names', at(i) = at(j) PROVE i = j
      BY <2>2, <2>3, <3>2
    <3>3. ASSUME NEW j \in DOMAIN names, j # k PROVE \E i \in DOMAIN names' : at(i) = j
      <4>1. CASE j < k
        BY <2>2, <2>3, <4>1
      <4>2. CASE j > k
        <5>1. j - 1 \in DOMAIN names' /\ at(j - 1) = j
          BY <2>2, <2>3, <4>2
        <5> QED
          BY <5>1
      <4> QED
        BY <2>2, <2>3, <3>3, <4>1, <4>2
    <3> QED
      BY <3>1, <3>2, <3>3
  <2> HIDE DEF at
  <2>5. ASSUME NEW m \in Listeners
        PROVE  unix_name'[m] = "listed" <=> \E i \in DOMAIN names' : names'[i] = m
    <3>1. CASE m = l
      <4>1. unix_name'[m] # "listed"
        BY ZenonT(30), <2>1, <3>1 DEF Types, NameTypes
      <4>2. \A i \in DOMAIN names' : names'[i] # l
        BY ZenonT(30), <2>1, <2>4 DEF NamesAreListed
      <4> QED
        BY <3>1, <4>1, <4>2
    <3>2. CASE m # l
      <4>1. unix_name'[m] = unix_name[m]
        BY <2>1, <3>2 DEF Types, NameTypes
      <4>2. ASSUME NEW i \in DOMAIN names', names'[i] = m PROVE \E j \in DOMAIN names : names[j] = m
        BY <2>4, <4>2
      <4>3. ASSUME NEW j \in DOMAIN names, names[j] = m PROVE \E i \in DOMAIN names' : names'[i] = m
        <5>1. PICK i \in DOMAIN names' : at(i) = j
          BY ZenonT(30), <2>1, <2>4, <3>2, <4>3
        <5> QED
          BY ZenonT(30), <2>4, <4>3, <5>1
      <4> QED
        BY <4>1, <4>2, <4>3 DEF NamesAreListed
    <3> QED
      BY <3>1, <3>2
  <2>6. ASSUME NEW i \in DOMAIN names', NEW j \in DOMAIN names', names'[i] = names'[j] PROVE i = j
    BY <2>4, <2>6 DEF NamesAreListed
  <2> QED
    BY <2>5, <2>6 DEF NamesAreListed
<1>4. ASSUME NEW t \in Servers, NEW l \in Listeners,
             Bind(t, l) \/ Accept(t, l) \/ Fionbio(t, l) \/ Select(t, l)
      PROVE  UNCHANGED <<names, unix_name>>
  BY <1>4 DEF Bind, Accept, Fionbio, Select, nameVars
<1>5. ASSUME NEW t \in Servers, ServerStep(t) PROVE UNCHANGED <<names, unix_name>>
  BY ZenonT(30), <1>5 DEF ServerStep, GetFile, AcceptTest, AcceptSleep, AcceptResume, AcceptTake, AcceptRelease,
              AcceptSocket, AcceptWake, SelectLook, SelectPrepare, SelectWait, nameVars
<1>6. ASSUME NEW c \in Clients, ConnectQueue(c) \/ ClientStep(c) PROVE UNCHANGED <<names, unix_name>>
  BY ZenonT(30), <1>6, ConnectWaits DEF ConnectQueue, ClientStep, ConnectResult, nameVars
<1>7. ASSUME NEW c \in Clients, NEW t, CloseClient(c) \/ Shutdown(t, c) \/ CloseServer(t, c)
      PROVE  UNCHANGED <<names, unix_name>>
  BY ZenonT(30), <1>7 DEF CloseClient, Shutdown, CloseServer, nameVars
<1>8. ASSUME NEW t \in Tasks, Interrupt(t) \/ Abandon(t) PROVE UNCHANGED <<names, unix_name>>
  BY <1>8 DEF Interrupt, Abandon, nameVars
<1> QED
  BY <1>1, <1>2, <1>3, <1>4, <1>5, <1>6, <1>7, <1>8 DEF Next

-----------------------------------------------------------------------------
(* The lock of the listening file.                                             *)

\* Where a task has the lock or waits for it.
Held == Critical \cup {"getwait"}

\* A step that no task with the lock, and no task that waits for it, takes.
LEMMA LockFrame ==
  ASSUME LockIsKept, UNCHANGED fileLock,
         \A u \in Servers :
           \/ pc[u] \notin Held /\ pc'[u] \notin Held
           \/ /\ pc'[u] = pc[u] /\ sock'[u] = sock[u] /\ wchan'[u] = wchan[u]
              /\ sleepSig[u] => sleepSig'[u]
              /\ pc[u] = "take" => queue'[sock[u]] # <<>>
  PROVE  LockIsKept'
<1>1. /\ UNCHANGED <<locked, wantlock>> /\ "getwait" \in Held /\ "take" \in Held
      /\ \A u \in Servers : pc'[u] \in Held => pc[u] = pc'[u]
      /\ \A u \in Servers : pc[u] \in Critical => pc[u] \in Held
      /\ \A u \in Servers : pc'[u] \in Critical => pc'[u] \in Held
  BY ZenonT(30) DEF fileLock, Held, Critical
<1>2. \A u \in Servers : (pc'[u] \in Critical <=> pc[u] \in Critical)
                         /\ (pc[u] \in Critical => sock'[u] = sock[u])
  BY ZenonT(30), <1>1
<1>3. ASSUME NEW l \in Listeners
      PROVE  locked'[l] = (\E t \in Servers : pc'[t] \in Critical /\ sock'[t] = l)
  <2>1. (\E t \in Servers : pc'[t] \in Critical /\ sock'[t] = l)
          = (\E t \in Servers : pc[t] \in Critical /\ sock[t] = l)
    BY ZenonT(30), <1>2
  <2>2. locked[l] = (\E t \in Servers : pc[t] \in Critical /\ sock[t] = l)
    BY ZenonT(30) DEF LockIsKept, AcceptLock
  <2> QED
    BY ZenonT(30), <1>1, <2>1, <2>2
<1>4. ASSUME NEW t \in Servers, NEW u \in Servers, pc'[t] \in Critical, pc'[u] \in Critical,
             sock'[t] = sock'[u]
      PROVE  t = u
  BY <1>2, <1>4 DEF LockIsKept, AcceptLock
<1>5. ASSUME NEW t \in Servers
      PROVE  /\ pc'[t] = "getwait" /\ ~sleepSig'[t] => locked'[sock'[t]] /\ wantlock'[sock'[t]]
             /\ pc'[t] = "take" => queue'[sock'[t]] # <<>>
             /\ pc'[t] = "getwait" => wchan'[t] = LockChan(sock'[t])
  BY <1>1 DEF LockIsKept, AcceptLock
<1> QED
  BY ZenonT(30), <1>3, <1>4, <1>5 DEF LockIsKept, AcceptLock, LockChan

\* __release_file() by the task that has the lock.
LEMMA LockReleased ==
  ASSUME Types, TasksAreWhere, LockIsKept, NEW t \in Servers, pc[t] \in Critical,
         release_file(sock[t]), UNCHANGED queue,
         pc'[t] \notin Held,
         \A u \in Servers \ {t} : pc'[u] = pc[u] /\ sock'[u] = sock[u] /\ wchan'[u] = wchan[u]
  PROVE  LockIsKept'
<1> DEFINE l == sock[t]
<1>1. /\ l \in Listeners /\ t \in Tasks /\ \A u \in Servers : u \in Tasks
      /\ \A u \in Servers : pc[u] \in Held => sock[u] \in Listeners
  BY ZenonT(30), Apart DEF TasksAreWhere, Critical, Held
<1>2. /\ \A m \in Listeners : locked'[m] = IF m = l THEN FALSE ELSE locked[m]
      /\ \A m \in Listeners : wantlock'[m] = IF m = l THEN FALSE ELSE wantlock[m]
  BY ZenonT(30), <1>1 DEF release_file, Types, NameTypes
<1>3. \A u \in Tasks : sleepSig'[u] = (sleepSig[u] \/ (wantlock[l] /\ wchan[u] = LockChan(l)))
  BY ZenonT(30), <1>1 DEF release_file, Types, TaskTypes, Wakeup
<1>4. \A u \in Servers \ {t} : pc[u] \in Critical => sock[u] # l
  BY ZenonT(30) DEF LockIsKept, AcceptLock
<1>5. pc'[t] \notin Critical /\ pc'[t] # "getwait" /\ pc'[t] # "take"
  BY DEF Held, Critical
<1> HIDE DEF l
<1>6. ASSUME NEW m \in Listeners
      PROVE  locked'[m] = (\E u \in Servers : pc'[u] \in Critical /\ sock'[u] = m)
  <2>1. CASE m = l
    BY ZenonT(30), <1>2, <1>4, <1>5, <2>1
  <2>2. CASE m # l
    <3>1. (\E u \in Servers : pc'[u] \in Critical /\ sock'[u] = m)
            = (\E u \in Servers : pc[u] \in Critical /\ sock[u] = m)
      BY <1>5, <2>2 DEF l
    <3>2. locked[m] = (\E u \in Servers : pc[u] \in Critical /\ sock[u] = m)
      BY ZenonT(30) DEF LockIsKept, AcceptLock
    <3> QED
      BY ZenonT(30), <1>2, <2>2, <3>1, <3>2
  <2> QED
    BY ZenonT(30), <2>1, <2>2
<1>7. ASSUME NEW u \in Servers, NEW v \in Servers, pc'[u] \in Critical, pc'[v] \in Critical,
             sock'[u] = sock'[v]
      PROVE  u = v
  <2>1. \A a, b \in Servers : pc[a] \in Critical /\ pc[b] \in Critical /\ sock[a] = sock[b]
                                => a = b
    BY DEF LockIsKept, AcceptLock
  <2> QED
    BY <1>5, <1>7, <2>1
<1>8. ASSUME NEW u \in Servers, pc'[u] = "getwait"
      PROVE  /\ ~sleepSig'[u] => locked'[sock'[u]] /\ wantlock'[sock'[u]]
             /\ wchan'[u] = LockChan(sock'[u])
  <2>1. u # t /\ pc[u] = "getwait" /\ sock'[u] = sock[u] /\ wchan'[u] = wchan[u]
    BY ZenonT(30), <1>5, <1>8
  <2>2. wchan[u] = LockChan(sock[u]) /\ sock[u] \in Listeners /\ u \in Tasks
        /\ (~sleepSig[u] => locked[sock[u]] /\ wantlock[sock[u]])
    BY ZenonT(30), <1>1, <2>1 DEF LockIsKept, AcceptLock, Held
  <2> QED
    BY ZenonT(30), <1>2, <1>3, <2>1, <2>2
<1>9. ASSUME NEW u \in Servers, pc'[u] = "take" PROVE queue'[sock'[u]] # <<>>
  BY <1>5, <1>9 DEF LockIsKept, AcceptLock
<1> QED
  BY ZenonT(30), <1>6, <1>7, <1>8, <1>9 DEF LockIsKept, AcceptLock, LockChan

\* __get_file()
LEMMA LockTaken ==
  ASSUME Types, TasksAreWhere, LockIsKept, NEW t \in Servers, GetFile(t)
  PROVE  LockIsKept'
<1> DEFINE l == sock[t]
<1>1. /\ l \in Listeners /\ t \in Tasks /\ \A u \in Servers : u \in Tasks
      /\ \A u \in Servers : pc[u] \in Held => sock[u] \in Listeners
      /\ pc[t] \in {"get", "getwait"} /\ pc[t] \notin Critical
  BY ZenonT(30), Apart DEF GetFile, TasksAreWhere, Critical, Held
<1>2. /\ UNCHANGED <<sock, queue>>
      /\ \A u \in Servers \ {t} : pc'[u] = pc[u] /\ sleepSig'[u] = sleepSig[u] /\ wchan'[u] = wchan[u]
  BY ZenonT(30), <1>1 DEF GetFile, Types, TaskTypes, OfTasks, Goto, Dequeue, SleepOn, ClearSig, nameVars, locals
<1>3. CASE ~locked[l]
  <2>1. /\ locked' = [locked EXCEPT ![l] = TRUE] /\ UNCHANGED wantlock /\ pc'[t] = "test"
    BY ZenonT(30), <1>1, <1>3 DEF GetFile, Types, TaskTypes, Goto
  <2>2. \A m \in Listeners : locked'[m] = IF m = l THEN TRUE ELSE locked[m]
    BY ZenonT(30), <1>1, <2>1 DEF Types, NameTypes
  <2>3. \A u \in Servers : pc[u] \in Critical => sock[u] # l
    BY ZenonT(30), <1>1, <1>3 DEF LockIsKept, AcceptLock
  <2>4. "test" \in Critical /\ sock'[t] = l
    BY <1>2 DEF Critical
  <2> HIDE DEF l
  <2>5. ASSUME NEW m \in Listeners
        PROVE  locked'[m] = (\E u \in Servers : pc'[u] \in Critical /\ sock'[u] = m)
    <3>1. CASE m = l
      BY ZenonT(30), <2>1, <2>2, <2>4, <3>1
    <3>2. CASE m # l
      <4>1. (\E u \in Servers : pc'[u] \in Critical /\ sock'[u] = m)
              = (\E u \in Servers : pc[u] \in Critical /\ sock[u] = m)
        BY <1>1, <1>2, <2>4, <3>2
      <4> QED
        BY ZenonT(30), <2>2, <3>2, <4>1 DEF LockIsKept, AcceptLock
    <3> QED
      BY ZenonT(30), <3>1, <3>2
  <2>6. ASSUME NEW u \in Servers, NEW v \in Servers, pc'[u] \in Critical, pc'[v] \in Critical,
               sock'[u] = sock'[v]
        PROVE  u = v
    <3>1. \A w \in Servers : pc'[w] \in Critical /\ w # t => pc[w] \in Critical /\ sock[w] # l
      BY ZenonT(30), <1>2, <2>3
    <3>2. \A a, b \in Servers : pc[a] \in Critical /\ pc[b] \in Critical /\ sock[a] = sock[b]
                                  => a = b
      BY ZenonT(30) DEF LockIsKept, AcceptLock
    <3> QED
      BY ZenonT(30), <1>2, <2>4, <2>6, <3>1, <3>2
  <2>7. ASSUME NEW u \in Servers
        PROVE  /\ pc'[u] = "getwait" /\ ~sleepSig'[u] => locked'[sock'[u]] /\ wantlock'[sock'[u]]
               /\ pc'[u] = "take" => queue'[sock'[u]] # <<>>
               /\ pc'[u] = "getwait" => wchan'[u] = LockChan(sock'[u])
    <3>1. CASE u = t
      BY ZenonT(30), <2>1, <3>1
    <3>2. CASE u # t
      <4>1. /\ pc'[u] = pc[u] /\ sleepSig'[u] = sleepSig[u] /\ wchan'[u] = wchan[u]
            /\ sock'[u] = sock[u] /\ queue' = queue
        BY ZenonT(30), <1>2, <3>2
      <4>2. /\ pc[u] = "getwait" /\ ~sleepSig[u] => locked[sock[u]] /\ wantlock[sock[u]]
            /\ pc[u] = "take" => queue[sock[u]] # <<>>
            /\ pc[u] = "getwait" => wchan[u] = LockChan(sock[u]) /\ sock[u] \in Listeners
        BY ZenonT(30), <1>1 DEF LockIsKept, AcceptLock, Held
      <4> QED
        BY ZenonT(30), <2>1, <2>2, <4>1, <4>2
    <3> QED
      BY ZenonT(30), <3>1, <3>2
  <2> QED
    BY ZenonT(30), <2>5, <2>6, <2>7 DEF LockIsKept, AcceptLock, LockChan
<1>4. CASE locked[l]
  <2>1. /\ wantlock' = [wantlock EXCEPT ![l] = TRUE] /\ UNCHANGED locked
        /\ pc'[t] = "getwait" /\ wchan'[t] = LockChan(l) /\ sock'[t] = l
    BY ZenonT(30), <1>1, <1>2, <1>4 DEF GetFile, Types, TaskTypes, OfTasks, Goto, SleepOn
  <2>2. \A m \in Listeners : wantlock'[m] = IF m = l THEN TRUE ELSE wantlock[m]
    BY ZenonT(30), <1>1, <2>1 DEF Types, NameTypes
  <2>3. "getwait" \notin Critical
    BY ZenonT(30) DEF Critical
  <2> HIDE DEF l
  <2>4. \A u \in Servers : pc'[u] \in Critical <=> pc[u] \in Critical
    BY ZenonT(30), <1>1, <1>2, <2>1, <2>3
  <2>5. ASSUME NEW u \in Servers
        PROVE  /\ pc'[u] = "getwait" /\ ~sleepSig'[u] => locked'[sock'[u]] /\ wantlock'[sock'[u]]
               /\ pc'[u] = "take" => queue'[sock'[u]] # <<>>
               /\ pc'[u] = "getwait" => wchan'[u] = LockChan(sock'[u])
    <3>1. CASE u = t
      BY ZenonT(30), <1>1, <1>4, <2>1, <2>2, <3>1 
    <3>2. CASE u # t
      <4>1. /\ pc'[u] = pc[u] /\ sleepSig'[u] = sleepSig[u] /\ wchan'[u] = wchan[u]
            /\ sock'[u] = sock[u] /\ queue' = queue
        BY <1>2, <3>2
      <4>2. /\ pc[u] = "getwait" /\ ~sleepSig[u] => locked[sock[u]] /\ wantlock[sock[u]]
            /\ pc[u] = "take" => queue[sock[u]] # <<>>
            /\ pc[u] = "getwait" => wchan[u] = LockChan(sock[u]) /\ sock[u] \in Listeners
        BY ZenonT(30), <1>1 DEF LockIsKept, AcceptLock, Held
      <4> QED
        BY ZenonT(30), <2>1, <2>2, <4>1, <4>2
    <3> QED
      BY ZenonT(30), <3>1, <3>2
  <2>6. ASSUME NEW m \in Listeners
        PROVE  locked'[m] = (\E u \in Servers : pc'[u] \in Critical /\ sock'[u] = m)
    <3>1. (\E u \in Servers : pc'[u] \in Critical /\ sock'[u] = m)
            = (\E u \in Servers : pc[u] \in Critical /\ sock[u] = m)
      BY ZenonT(30), <1>2, <2>4
    <3>2. locked[m] = (\E u \in Servers : pc[u] \in Critical /\ sock[u] = m)
      BY ZenonT(30) DEF LockIsKept, AcceptLock
    <3> QED
      BY ZenonT(30), <2>1, <3>1, <3>2
  <2>7. ASSUME NEW u \in Servers, NEW v \in Servers, pc'[u] \in Critical, pc'[v] \in Critical,
               sock'[u] = sock'[v]
        PROVE  u = v
    BY ZenonT(30), <1>2, <2>4, <2>7 DEF LockIsKept, AcceptLock
  <2> QED
    BY ZenonT(30), <2>5, <2>6, <2>7 DEF LockIsKept, AcceptLock, LockChan
<1> QED
  BY ZenonT(30), <1>3, <1>4
=============================================================================
