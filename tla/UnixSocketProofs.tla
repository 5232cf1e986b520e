-------------------------- MODULE UnixSocketProofs ---------------------------
(* The rest of the inductive invariant of UnixSocketBase: the lock of          *)
(* __get_file(), the queues, the clients that accept() has taken from them,    *)
(* and the streams; and what follows from it.                                  *)
EXTENDS UnixSocketBase, FiniteSetTheorems

\* The steps inside Critical: the test, and the client taken from the queue.
LEMMA LockInside ==
  ASSUME Types, TasksAreWhere, LockIsKept, NEW t \in Servers, AcceptTest(t) \/ AcceptTake(t)
  PROVE  LockIsKept'
<1>1. /\ pc[t] \in Critical /\ pc'[t] \in Critical
      /\ UNCHANGED <<locked, wantlock, sock, sleepSig, wchan>>
      /\ \A u \in Servers \ {t} : pc'[u] = pc[u]
      /\ pc'[t] = "take" => queue'[sock[t]] # <<>>
      /\ sock[t] \in Listeners
      /\ \A m \in Listeners \ {sock[t]} : queue'[m] = queue[m]
  BY Apart DEF AcceptTest, AcceptTake, Goto, Critical, fileLock, locals, sleepVars, nameVars, TasksAreWhere,
               Types, TaskTypes, NameTypes
<1>2. \A u \in Servers : pc'[u] \in Critical <=> pc[u] \in Critical
  BY <1>1
<1>3. ASSUME NEW m \in Listeners
      PROVE  locked'[m] = (\E u \in Servers : pc'[u] \in Critical /\ sock'[u] = m)
  <2>1. (\E u \in Servers : pc'[u] \in Critical /\ sock'[u] = m)
          = (\E u \in Servers : pc[u] \in Critical /\ sock[u] = m)
    BY <1>1, <1>2
  <2>2. locked[m] = (\E u \in Servers : pc[u] \in Critical /\ sock[u] = m)
    BY ZenonT(30) DEF LockIsKept, AcceptLock
  <2> QED
    BY <1>1, <2>1, <2>2
<1>4. ASSUME NEW u \in Servers, NEW v \in Servers, pc'[u] \in Critical, pc'[v] \in Critical,
             sock'[u] = sock'[v]
      PROVE  u = v
  BY <1>1, <1>2, <1>4 DEF LockIsKept, AcceptLock
<1>5. ASSUME NEW u \in Servers
      PROVE  /\ pc'[u] = "getwait" /\ ~sleepSig'[u] => locked'[sock'[u]] /\ wantlock'[sock'[u]]
             /\ pc'[u] = "take" => queue'[sock'[u]] # <<>>
             /\ pc'[u] = "getwait" => wchan'[u] = LockChan(sock'[u])
  <2>1. CASE u = t
    BY <1>1, <2>1 DEF Critical
  <2>2. CASE u # t
    <3>1. pc[u] = "take" => sock[u] # sock[t] /\ sock[u] \in Listeners
      BY <1>1, <2>2 DEF LockIsKept, AcceptLock, Critical, TasksAreWhere
    <3> QED
      BY <1>1, <2>2, <3>1 DEF LockIsKept, AcceptLock
  <2> QED
    BY <2>1, <2>2
<1> QED
  BY ZenonT(30), <1>3, <1>4, <1>5 DEF LockIsKept, AcceptLock, LockChan

\* A name that listen() makes or that the last close frees is in no call.
LEMMA QueueInUse ==
  ASSUME Types, TasksAreWhere, NEW t \in Servers, NEW l \in Listeners,
         Listen(t, l) \/ CloseListener(t, l),
         NEW u \in Servers, pc[u] # "idle"
  PROVE  queue'[sock[u]] = queue[sock[u]]
<1>1. sock[u] \in Listeners /\ u \in holds[sock[u]] /\ unix_name[sock[u]] = "listed"
  BY DEF TasksAreWhere
<1>2. CASE Listen(t, l)
  BY <1>1, <1>2 DEF Listen, Types, NameTypes
<1>3. CASE CloseListener(t, l)
  <2>1. pc[t] = "idle" /\ u # t
    BY <1>3 DEF CloseListener
  <2>2. sock[u] = l => holds'[l] # {}
    BY <1>1, <1>3, <2>1 DEF CloseListener, Types, NameTypes
  <2> QED
    BY ZenonT(30), <1>1, <1>3, <2>2 DEF CloseListener, Types, NameTypes
<1> QED
  BY <1>2, <1>3

LEMMA LockStep ==
  ASSUME Types, TasksAreWhere, LockIsKept, Next
  PROVE  LockIsKept'
<1> DEFINE Kept(u) ==
      /\ pc'[u] = pc[u] /\ sock'[u] = sock[u] /\ wchan'[u] = wchan[u]
      /\ sleepSig[u] => sleepSig'[u]
      /\ pc[u] = "take" => queue'[sock[u]] # <<>>
<1>0. /\ \A t \in Clients \cup Servers : t \in Tasks
      /\ \A t \in Servers : t \notin Clients
      /\ DOMAIN pc = Tasks /\ DOMAIN sock = Tasks /\ DOMAIN sleepSig = Tasks
      /\ wchan = [t \in Tasks |-> wchan[t]]
      /\ \A u \in Servers : pc[u] = "take" => queue[sock[u]] # <<>>
  BY Apart DEF Types, TaskTypes, OfTasks, LockIsKept, AcceptLock
<1>1. ASSUME NEW c \in Clients, ConnectQueue(c) PROVE LockIsKept'
  <2>1. ASSUME NEW u \in Servers PROVE Kept(u)
    <3>1. pc[u] = "take" => queue'[sock[u]] # <<>>
      <4>1. UNCHANGED queue \/ (names # <<>> /\ queue' = [queue EXCEPT ![Head(names)] = Append(queue[Head(names)], c)])
        BY <1>1 DEF ConnectQueue
      <4>2. names # <<>> => Head(names) \in Listeners
        BY QueueEnds DEF Types, NameTypes
      <4>3. ASSUME NEW m \in Listeners PROVE Append(queue[m], c) # <<>>
        <5>1. queue[m] \in Seq(Clients)
          BY DEF Types, NameTypes
        <5> HIDE DEF Kept
        <5> QED
          BY <5>1
      <4>4. pc[u] = "take" => sock[u] \in Listeners
        BY DEF TasksAreWhere
      <4> QED
        BY <1>0, <4>1, <4>2, <4>3, <4>4 DEF Types, NameTypes
    <3> QED
      BY <1>0, <1>1, <3>1 DEF ConnectQueue, Goto, sleepVars
  <2>2. UNCHANGED fileLock
    BY <1>1 DEF ConnectQueue
  <2> QED
    BY <2>1, <2>2, LockFrame
<1>2. ASSUME NEW c \in Clients, ClientStep(c) PROVE LockIsKept'
  <2>1. ASSUME NEW u \in Servers PROVE Kept(u)
    BY ZenonT(30), <1>0, <1>2 DEF ClientStep, ConnectSignal, ConnectResume, ConnectAgain, ConnectResult, Return, Goto,
                      locals, sleepVars, nameVars, SleepOn, Wakeup, Dequeue, ClearSig
  <2>2. UNCHANGED fileLock
    BY <1>2, ConnectWaits DEF ClientStep, ConnectResult
  <2> QED
    BY <2>1, <2>2, LockFrame
<1>3. ASSUME NEW c \in Clients, NEW t, CloseClient(c) \/ Shutdown(t, c) \/ CloseServer(t, c)
      PROVE  LockIsKept'
  <2>1. ASSUME NEW u \in Servers PROVE Kept(u)
    BY ZenonT(30), <1>0, <1>3 DEF CloseClient, Shutdown, CloseServer, locals, sleepVars, nameVars
  <2>2. UNCHANGED fileLock
    BY ZenonT(30), <1>3 DEF CloseClient, Shutdown, CloseServer
  <2> QED
    BY <2>1, <2>2, LockFrame
<1>4. ASSUME NEW t \in Servers, NEW l \in Listeners,
             Bind(t, l) \/ Fionbio(t, l) \/ Listen(t, l) \/ CloseListener(t, l)
      PROVE  LockIsKept'
  <2>1. ASSUME NEW u \in Servers PROVE Kept(u)
    <3>1. pc[u] = "take" => queue'[sock[u]] # <<>>
      BY <1>0, <1>4, QueueInUse DEF Bind, Fionbio
    <3> QED
      BY ZenonT(30), <1>0, <1>4, <3>1 DEF Bind, Fionbio, Listen, CloseListener, locals, sleepVars
  <2>2. UNCHANGED fileLock
    BY <1>4 DEF Bind, Fionbio, Listen, CloseListener
  <2> QED
    BY <2>1, <2>2, LockFrame
<1>5. ASSUME NEW t \in Servers, NEW l \in Listeners, Accept(t, l) \/ Select(t, l) PROVE LockIsKept'
  <2>1. pc[t] \notin Held /\ pc'[t] \notin Held
    BY <1>0, <1>5 DEF Accept, Select, Goto, Held, Critical
  <2>2. ASSUME NEW u \in Servers \ {t} PROVE Kept(u)
    BY <1>0, <1>5 DEF Accept, Select, Goto, sleepVars, nameVars
  <2>3. UNCHANGED fileLock
    BY <1>5 DEF Accept, Select
  <2> QED
    BY <2>1, <2>2, <2>3, LockFrame
<1>6. ASSUME NEW t \in Servers,
             \/ AcceptResume(t) \/ AcceptSocket(t) \/ AcceptWake(t)
             \/ SelectLook(t) \/ SelectPrepare(t) \/ SelectWait(t)
      PROVE  LockIsKept'
  <2>1. pc[t] \notin Held /\ pc'[t] \notin Held
    BY ZenonT(30), <1>0, <1>6 DEF AcceptResume, AcceptSocket, AcceptWake, SelectLook, SelectPrepare, SelectWait, Return,
                      Goto, Held, Critical
  <2>2. ASSUME NEW u \in Servers \ {t} PROVE Kept(u)
    BY ZenonT(30), <1>0, <1>6 DEF AcceptResume, AcceptSocket, AcceptWake, SelectLook, SelectPrepare, SelectWait, Return,
                      Goto, locals, sleepVars, nameVars, Wakeup, Dequeue, ClearSig
  <2>3. UNCHANGED fileLock
    BY <1>6 DEF AcceptResume, AcceptSocket, AcceptWake, SelectLook, SelectPrepare, SelectWait
  <2> QED
    BY ZenonT(30), <2>1, <2>2, <2>3, LockFrame
<1>7. ASSUME NEW t \in Servers, AcceptSleep(t) \/ AcceptRelease(t) PROVE LockIsKept'
  <2>1. pc[t] \in Critical /\ pc'[t] \notin Held /\ release_file(sock[t]) /\ UNCHANGED queue
    BY <1>0, <1>7 DEF AcceptSleep, AcceptRelease, Return, Goto, Held, Critical, nameVars
  <2>2. ASSUME NEW u \in Servers \ {t}
        PROVE  pc'[u] = pc[u] /\ sock'[u] = sock[u] /\ wchan'[u] = wchan[u]
    BY <1>0, <1>7 DEF AcceptSleep, AcceptRelease, Return, Goto, locals, SleepOn
  <2> QED
    BY <2>1, <2>2, LockReleased
<1>8. ASSUME NEW t \in Tasks, Interrupt(t) PROVE LockIsKept'
  <2>1. ASSUME NEW u \in Servers PROVE Kept(u)
    BY <1>0, <1>8 DEF Interrupt, locals, nameVars
  <2>2. UNCHANGED fileLock
    BY <1>8 DEF Interrupt
  <2> QED
    BY <2>1, <2>2, LockFrame
<1>9. ASSUME NEW t \in Tasks, Abandon(t) PROVE LockIsKept'
  <2>1. pc[t] \notin Held /\ pc'[t] \notin Held
    BY <1>0, <1>9 DEF Abandon, Return, Goto, Held, Critical
  <2>2. ASSUME NEW u \in Servers \ {t} PROVE Kept(u)
    BY <1>0, <1>9 DEF Abandon, Return, Goto, nameVars, Dequeue, ClearSig
  <2>3. UNCHANGED fileLock
    BY <1>9 DEF Abandon
  <2> QED
    BY <2>1, <2>2, <2>3, LockFrame
<1> HIDE DEF Kept
<1> QED
  BY ZenonT(30), <1>0, <1>1, <1>2, <1>3, <1>4, <1>5, <1>6, <1>7, <1>8, <1>9, LockTaken, LockInside
     DEF Next, ServerStep

-----------------------------------------------------------------------------
(* The queues, and the clients that accept() has taken from them.              *)

\* The steps that change a queue, a state or what connect() has been called on.
LEMMA QuietSteps ==
  ASSUME Next,
         \A c \in Clients : ~ConnectQueue(c),
         \A t \in Servers : ~AcceptTake(t) /\ ~AcceptSocket(t),
         \A t \in Servers, l \in Listeners : ~Listen(t, l) /\ ~CloseListener(t, l)
  PROVE  UNCHANGED <<queue, state, tried>>
<1>1. ASSUME NEW c \in Clients, ClientStep(c) PROVE UNCHANGED <<queue, state, tried>>
  BY <1>1, ConnectWaits DEF ClientStep, ConnectResult, nameVars, sockVars
<1>2. ASSUME NEW c \in Clients, NEW t, CloseClient(c) \/ Shutdown(t, c) \/ CloseServer(t, c)
      PROVE  UNCHANGED <<queue, state, tried>>
  BY ZenonT(30), <1>2 DEF CloseClient, Shutdown, CloseServer, nameVars, locals
<1>3. ASSUME NEW t \in Servers, ServerStep(t) PROVE UNCHANGED <<queue, state, tried>>
  BY ZenonT(30), <1>3 DEF ServerStep, GetFile, AcceptTest, AcceptSleep, AcceptResume, AcceptRelease, AcceptWake,
              SelectLook, SelectPrepare, SelectWait, nameVars, sockVars, locals
<1>4. ASSUME NEW t \in Servers, NEW l \in Listeners,
             Bind(t, l) \/ Accept(t, l) \/ Fionbio(t, l) \/ Select(t, l)
      PROVE  UNCHANGED <<queue, state, tried>>
  BY <1>4 DEF Bind, Accept, Fionbio, Select, nameVars, sockVars, locals
<1>5. ASSUME NEW t \in Tasks, Interrupt(t) \/ Abandon(t) PROVE UNCHANGED <<queue, state, tried>>
  BY <1>5 DEF Interrupt, Abandon, nameVars, sockVars, locals
<1> QED
  BY ZenonT(30), <1>1, <1>2, <1>3, <1>4, <1>5 DEF Next

LEMMA QueuesStep ==
  ASSUME OneConnect, Types, TasksAreWhere, QueuesAreApart, ClientsAreApart, Next
  PROVE  QueuesAreApart'
<1>0. /\ queue \in [Listeners -> Seq(Clients)] /\ state \in [Clients -> States]
      /\ \A l \in Listeners : /\ queue[l] \in Seq(Clients) /\ DOMAIN queue[l] = 1 .. Len(queue[l])
                              /\ Len(queue[l]) \in Nat
                              /\ \A i \in DOMAIN queue[l] : queue[l][i] \in Clients
  BY DEF Types, NameTypes, SockTypes
<1>1. CASE UNCHANGED <<queue, state, tried>>
  BY <1>1 DEF QueuesAreApart
<1>2. ASSUME NEW c \in Clients, ConnectQueue(c) PROVE QueuesAreApart'
  <2>1. CASE UNCHANGED queue
    BY <1>2, <2>1 DEF ConnectQueue, QueuesAreApart
  <2>2. CASE ~UNCHANGED queue
    <3>1. PICK l \in Listeners : queue' = [queue EXCEPT ![l] = Append(queue[l], c)]
      BY ZenonT(30), <1>2, <2>2, QueueEnds DEF ConnectQueue, Types, NameTypes
    <3>2. /\ c \notin tried /\ tried' = tried \cup {c} /\ UNCHANGED state /\ state[c] = "WAITING"
      BY <1>2 DEF ConnectQueue, OneConnect, ClientsAreApart
    <3>3. /\ \A m \in Listeners \ {l} : queue'[m] = queue[m]
          /\ queue'[l] = Append(queue[l], c) /\ DOMAIN queue'[l] = 1 .. Len(queue[l]) + 1
          /\ \A i \in DOMAIN queue[l] : queue'[l][i] = queue[l][i]
          /\ queue'[l][Len(queue[l]) + 1] = c
      BY <1>0, <3>1
    <3>4. \A i \in DOMAIN queue'[l] : i \in DOMAIN queue[l] \/ (i = Len(queue[l]) + 1 /\ i \notin DOMAIN queue[l])
      BY <1>0, <3>3
    <3>5. \A m \in Listeners : \A i \in DOMAIN queue[m] : queue[m][i] # c
      BY <3>2 DEF QueuesAreApart
    <3> DEFINE n == Len(queue[l]) + 1
    <3> HIDE DEF n
    <3>6. ASSUME NEW m \in Listeners, NEW i \in DOMAIN queue'[m]
          PROVE  \/ i \in DOMAIN queue[m] /\ queue'[m][i] = queue[m][i]
                 \/ m = l /\ i = n /\ queue'[m][i] = c
      BY <3>3, <3>4 DEF n
    <3>7. ASSUME NEW m \in Listeners, NEW i \in DOMAIN queue'[m]
          PROVE  state'[queue'[m][i]] = "WAITING" /\ queue'[m][i] \in tried'
      BY <3>2, <3>6 DEF QueuesAreApart
    <3>8. ASSUME NEW m \in Listeners, NEW k \in Listeners, NEW i \in DOMAIN queue'[m],
                 NEW j \in DOMAIN queue'[k], queue'[m][i] = queue'[k][j]
          PROVE  m = k /\ i = j
      BY <3>5, <3>6, <3>8 DEF QueuesAreApart
    <3> QED
      BY <3>7, <3>8 DEF QueuesAreApart
  <2> QED
    BY ZenonT(30), <2>1, <2>2
<1>3. ASSUME NEW t \in Servers, AcceptTake(t) PROVE QueuesAreApart'
  <2> DEFINE l == sock[t]
             c == Head(queue[l])
  <2>1. /\ l \in Listeners /\ queue[l] # <<>> /\ UNCHANGED tried
        /\ queue' = [queue EXCEPT ![l] = Tail(queue[l])]
        /\ state' = [state EXCEPT ![c] = "PROCESSING"]
    BY <1>3 DEF AcceptTake, TasksAreWhere
  <2>2. /\ c \in Clients /\ c = queue[l][1] /\ 1 \in DOMAIN queue[l]
        /\ \A m \in Listeners \ {l} : queue'[m] = queue[m]
        /\ queue'[l] = Tail(queue[l]) /\ DOMAIN queue'[l] = 1 .. Len(queue[l]) - 1
        /\ \A i \in 1 .. Len(queue[l]) - 1 : queue'[l][i] = queue[l][i + 1]
    BY <1>0, <2>1, QueueEnds
  <2>3. \A d \in Clients \ {c} : state'[d] = state[d]
    BY ZenonT(30), <1>0, <2>1, <2>2
  <2> DEFINE at(m, i) == IF m = l THEN i + 1 ELSE i
  <2>4. ASSUME NEW m \in Listeners, NEW i \in DOMAIN queue'[m]
        PROVE  /\ at(m, i) \in DOMAIN queue[m] /\ queue'[m][i] = queue[m][at(m, i)]
               /\ i \in Int /\ (m = l => at(m, i) # 1)
    <3>1. CASE m = l
      <4>1. i \in 1 .. Len(queue[l]) - 1 /\ Len(queue[l]) \in Nat /\ DOMAIN queue[l] = 1 .. Len(queue[l])
        BY <1>0, <2>1, <2>2, <3>1
      <4> HIDE DEF l
      <4>2. i + 1 \in DOMAIN queue[l] /\ i \in Int /\ i + 1 # 1
        BY <4>1
      <4> QED
        BY ZenonT(30), <2>2, <3>1, <4>1, <4>2
    <3>2. CASE m # l
      <4>1. queue'[m] = queue[m] /\ i \in Int
        BY <1>0, <2>2, <3>2
      <4> QED
        BY <3>2, <4>1
    <3> QED
      BY <3>1, <3>2
  <2>5. \A m \in Listeners : \A i, j \in Int : at(m, i) = at(m, j) => i = j
    OBVIOUS
  <2> HIDE DEF at, l, c
  <2>6. ASSUME NEW m \in Listeners, NEW i \in DOMAIN queue'[m]
        PROVE  state'[queue'[m][i]] = "WAITING" /\ queue'[m][i] \in tried'
    <3>1. queue[m][at(m, i)] # c
      BY <2>1, <2>2, <2>4 DEF QueuesAreApart
    <3> QED
      BY <1>0, <2>1, <2>3, <2>4, <3>1 DEF QueuesAreApart
  <2>7. ASSUME NEW m \in Listeners, NEW k \in Listeners, NEW i \in DOMAIN queue'[m],
               NEW j \in DOMAIN queue'[k], queue'[m][i] = queue'[k][j]
        PROVE  m = k /\ i = j
    <3>1. m = k /\ at(m, i) = at(k, j)
      BY <2>4, <2>7 DEF QueuesAreApart
    <3> QED
      BY ZenonT(30), <2>4, <2>5, <3>1
  <2> QED
    BY <2>6, <2>7 DEF QueuesAreApart
<1>4. ASSUME NEW t \in Servers, AcceptSocket(t) PROVE QueuesAreApart'
  <2>1. /\ client[t] \in Clients /\ state[client[t]] = "PROCESSING" /\ UNCHANGED <<queue, tried>>
        /\ \A d \in Clients \ {client[t]} : state'[d] = state[d]
    BY <1>0, <1>4 DEF AcceptSocket, TasksAreWhere, ClientsAreApart, nameVars, locals
  <2> QED
    BY <1>0, <2>1 DEF QueuesAreApart
<1>5. ASSUME NEW t \in Servers, NEW l \in Listeners, Listen(t, l) \/ CloseListener(t, l)
      PROVE  QueuesAreApart'
  <2>1. UNCHANGED <<state, tried>> /\ \A m \in Listeners : queue'[m] = queue[m] \/ queue'[m] = <<>>
    BY <1>0, <1>5 DEF Listen, CloseListener, sockVars, locals
  <2> QED
    BY <2>1 DEF QueuesAreApart
<1> QED
  BY ZenonT(30), <1>1, <1>2, <1>3, <1>4, <1>5, QuietSteps

\* The steps by which a server takes a client or gives it up.
LEMMA ServerHolds ==
  ASSUME Types, TasksAreWhere, Next,
         \A t \in Servers : ~AcceptTake(t) /\ ~AcceptSocket(t) /\ ~AcceptRelease(t) /\ ~AcceptWake(t),
         NEW u \in Servers
  PROVE  /\ client'[u] = client[u]
         /\ \A p \in {"rel", "socket", "wake"} : pc'[u] = p <=> pc[u] = p
<1>0. /\ \A t \in Clients \cup Servers : t \in Tasks
      /\ \A t \in Servers : t \notin Clients
      /\ DOMAIN pc = Tasks /\ DOMAIN client = Tasks
      /\ \A t \in Servers : pc[t] \notin {"rel", "socket", "wake"} => client[t] = NoTask
  BY ZenonT(30), Apart DEF Types, TaskTypes, TasksAreWhere
<1> DEFINE Goal == /\ client'[u] = client[u]
                   /\ \A p \in {"rel", "socket", "wake"} : pc'[u] = p <=> pc[u] = p
<1>1. ASSUME NEW c \in Clients, ConnectQueue(c) \/ ClientStep(c) PROVE Goal
  BY ZenonT(30), <1>0, <1>1 DEF ClientStep, ConnectQueue, ConnectSignal, ConnectResume, ConnectAgain, ConnectResult,
                    Return, Goto, locals
<1>2. ASSUME NEW c \in Clients, NEW t, CloseClient(c) \/ Shutdown(t, c) \/ CloseServer(t, c) PROVE Goal
  BY ZenonT(30), <1>2 DEF CloseClient, Shutdown, CloseServer, locals
<1>3. ASSUME NEW t \in Servers, GetFile(t) \/ AcceptTest(t) \/ AcceptSleep(t) \/ AcceptResume(t) PROVE Goal
  BY ZenonT(30), <1>0, <1>3 DEF GetFile, AcceptTest, AcceptSleep, AcceptResume, Goto, locals
<1>4. ASSUME NEW t \in Servers, SelectLook(t) \/ SelectPrepare(t) \/ SelectWait(t) PROVE Goal
  BY ZenonT(30), <1>0, <1>4 DEF SelectLook, SelectPrepare, SelectWait, Return, Goto, locals
<1>5. ASSUME NEW t \in Servers, NEW l \in Listeners,
             \/ Bind(t, l) \/ Listen(t, l) \/ Accept(t, l) \/ Fionbio(t, l) \/ Select(t, l)
             \/ CloseListener(t, l)
      PROVE  Goal
  BY ZenonT(30), <1>0, <1>5 DEF Bind, Listen, Accept, Fionbio, Select, CloseListener, Goto, locals
<1>6. ASSUME NEW t \in Tasks, Interrupt(t) \/ Abandon(t) PROVE Goal
  BY ZenonT(30), <1>0, <1>6 DEF Interrupt, Abandon, Return, Goto, locals
<1> HIDE DEF Goal
<1>7. Goal
  BY ZenonT(30), <1>1, <1>2, <1>3, <1>4, <1>5, <1>6 DEF Next, ServerStep
<1> QED
  BY <1>7 DEF Goal

\* A socket that connect() has not been called on stays as it is.
LEMMA UntriedStays ==
  ASSUME Types, ClientsAreApart, Next, NEW c \in Clients, c \notin tried'
  PROVE  c \notin tried /\ pc'[c] = "idle"
<1>0. /\ \A t \in Clients \cup Servers : t \in Tasks
      /\ \A t \in Servers : t \notin Clients
      /\ DOMAIN pc = Tasks
      /\ c \notin tried => pc[c] = "idle"
  BY ZenonT(30), Apart DEF Types, TaskTypes, ClientsAreApart
<1> DEFINE Goal == c \notin tried /\ pc'[c] = "idle"
<1>1. ASSUME NEW d \in Clients, ConnectQueue(d) PROVE Goal
  BY ZenonT(30), <1>0, <1>1 DEF ConnectQueue, Goto
<1>2. ASSUME NEW d \in Clients, ClientStep(d) PROVE Goal
  BY ZenonT(30), <1>0, <1>2 DEF ClientStep, ConnectSignal, ConnectResume, ConnectAgain, ConnectResult,
                    Return, Goto, locals
<1>3. ASSUME NEW d \in Clients, NEW t, CloseClient(d) \/ Shutdown(t, d) \/ CloseServer(t, d) PROVE Goal
  BY ZenonT(30), <1>0, <1>3 DEF CloseClient, Shutdown, CloseServer, locals
<1>4. ASSUME NEW t \in Servers, ServerStep(t) PROVE Goal
  BY ZenonT(30), <1>0, <1>4 DEF ServerStep, GetFile, AcceptTest, AcceptSleep, AcceptResume, AcceptTake, AcceptRelease,
                    AcceptSocket, AcceptWake, SelectLook, SelectPrepare, SelectWait, Return, Goto, locals
<1>5. ASSUME NEW t \in Servers, NEW l \in Listeners,
             \/ Bind(t, l) \/ Listen(t, l) \/ Accept(t, l) \/ Fionbio(t, l) \/ Select(t, l)
             \/ CloseListener(t, l)
      PROVE  Goal
  BY ZenonT(30), <1>0, <1>5 DEF Bind, Listen, Accept, Fionbio, Select, CloseListener, Goto, locals
<1>6. ASSUME NEW t \in Tasks, Interrupt(t) \/ Abandon(t) PROVE Goal
  BY <1>0, <1>6 DEF Interrupt, Abandon, Return, Goto, locals
<1> HIDE DEF Goal
<1>7. Goal
  BY <1>1, <1>2, <1>3, <1>4, <1>5, <1>6 DEF Next
<1> QED
  BY ZenonT(30), <1>7 DEF Goal

\* connect() and accept() change the states of sockets, one at a time.
LEMMA StateSteps ==
  ASSUME Types, TasksAreWhere, QueuesAreApart, ClientsAreApart, Next
  PROVE  \/ UNCHANGED state
         \/ \E t \in Servers : AcceptTake(t) \/ AcceptSocket(t)
<1>1. ASSUME NEW c \in Clients, ConnectQueue(c) PROVE UNCHANGED state
  BY ZenonT(30), <1>1 DEF ConnectQueue
<1>2. ASSUME NEW t \in Servers, NEW l \in Listeners, Listen(t, l) \/ CloseListener(t, l)
      PROVE  UNCHANGED state
  BY ZenonT(30), <1>2 DEF Listen, CloseListener, sockVars
<1> QED
  BY ZenonT(30), <1>1, <1>2, QuietSteps

LEMMA ClientsStep ==
  ASSUME Types, TasksAreWhere, QueuesAreApart, ClientsAreApart, Next
  PROVE  ClientsAreApart'
<1>0. /\ \A t \in Clients \cup Servers : t \in Tasks
      /\ NoTask \notin Clients
      /\ pc \in [Tasks -> {"idle"} \cup ClientPcs \cup AcceptPcs \cup SelectPcs]
      /\ client \in [Tasks -> Clients \cup {NoTask}] /\ state \in [Clients -> States]
  BY Apart DEF Types, TaskTypes, SockTypes
<1>1. \A c \in Clients \ tried' : c \notin tried /\ pc'[c] = "idle"
  BY ZenonT(30), UntriedStays
<1>2. ASSUME NEW t \in Servers, AcceptTake(t) PROVE ClientsAreApart'
  <2> DEFINE c == Head(queue[sock[t]])
  <2>1. /\ sock[t] \in Listeners /\ queue[sock[t]] \in Seq(Clients) /\ queue[sock[t]] # <<>>
        /\ client' = [client EXCEPT ![t] = c] /\ state' = [state EXCEPT ![c] = "PROCESSING"]
        /\ pc' = [pc EXCEPT ![t] = "rel"] /\ UNCHANGED tried
    BY ZenonT(30), <1>2 DEF AcceptTake, Goto, TasksAreWhere, Types, NameTypes
  <2>2. c \in Clients /\ c = queue[sock[t]][1] /\ 1 \in DOMAIN queue[sock[t]]
    BY <2>1, QueueEnds
  <2>3. state[c] = "WAITING" /\ c \in tried
    BY <2>1, <2>2 DEF QueuesAreApart
  <2>4. \A u \in Servers : client[u] # NoTask => client[u] \in Clients /\ client[u] # c
    BY <1>0, <2>3 DEF TasksAreWhere, ClientsAreApart, Final
  <2> HIDE DEF c
  <2>5. /\ \A u \in Servers \ {t} : client'[u] = client[u] /\ pc'[u] = pc[u]
        /\ client'[t] = c /\ pc'[t] = "rel" /\ state'[c] = "PROCESSING"
        /\ \A d \in Clients \ {c} : state'[d] = state[d]
    BY ZenonT(30), <1>0, <2>1, <2>2
  <2>6. ASSUME NEW u \in Servers
        PROVE  /\ pc'[u] \in {"rel", "socket"} => state'[client'[u]] = "PROCESSING"
               /\ pc'[u] = "wake" => state'[client'[u]] \in Final
    <3>1. pc[u] \in {"rel", "socket", "wake"} => client[u] \in Clients /\ client[u] # c
      BY ZenonT(30), <1>0, <2>4 DEF TasksAreWhere
    <3> QED
      BY <2>5, <3>1 DEF ClientsAreApart
  <2>7. ASSUME NEW u \in Servers, NEW v \in Servers, client'[u] = client'[v], client'[u] # NoTask
        PROVE  u = v
    BY <1>0, <2>2, <2>4, <2>5, <2>7 DEF ClientsAreApart
  <2>8. ASSUME NEW d \in Clients, state'[d] = "PROCESSING" PROVE \E u \in Servers : client'[u] = d
    <3>1. CASE d = c
      BY ZenonT(30), <2>5, <3>1
    <3>2. CASE d # c
      <4>1. PICK u \in Servers : client[u] = d
        BY <2>5, <2>8, <3>2 DEF ClientsAreApart
      <4>2. CASE u = t
        BY ZenonT(30), <1>0, <1>2, <4>1, <4>2 DEF AcceptTake, TasksAreWhere
      <4> QED
        BY ZenonT(30), <2>5, <4>1, <4>2
    <3> QED
      BY ZenonT(30), <3>1, <3>2
  <2>9. ASSUME NEW d \in Clients \ tried' PROVE state'[d] = "WAITING" /\ pc'[d] = "idle"
    BY <1>1, <2>1, <2>3, <2>5 DEF ClientsAreApart
  <2> QED
    BY <2>6, <2>7, <2>8, <2>9 DEF ClientsAreApart
<1>3. ASSUME NEW t \in Servers, AcceptSocket(t) PROVE ClientsAreApart'
  <2> DEFINE c == client[t]
  <2>1. /\ c \in Clients /\ UNCHANGED <<client, tried>> /\ pc[t] = "socket"
        /\ state[c] = "PROCESSING" /\ pc' = [pc EXCEPT ![t] = "wake"]
        /\ \E s \in Final : state' = [state EXCEPT ![c] = s]
    BY <1>3 DEF AcceptSocket, Goto, TasksAreWhere, ClientsAreApart, Final, locals
  <2>2. c \in tried
    BY <2>1 DEF ClientsAreApart
  <2>3. \A u \in Servers \ {t} : client[u] # c
    BY <1>0, <2>1 DEF ClientsAreApart
  <2> HIDE DEF c
  <2>4. /\ \A u \in Servers \ {t} : pc'[u] = pc[u]
        /\ pc'[t] = "wake" /\ state'[c] \in Final
        /\ \A d \in Clients \ {c} : state'[d] = state[d]
    BY <1>0, <2>1 DEF Final
  <2>5. ASSUME NEW u \in Servers
        PROVE  /\ pc'[u] \in {"rel", "socket"} => state'[client'[u]] = "PROCESSING"
               /\ pc'[u] = "wake" => state'[client'[u]] \in Final
    <3>1. CASE u = t
      BY ZenonT(30), <2>1, <2>4, <3>1 DEF c
    <3>2. CASE u # t
      <4>1. pc[u] \in {"rel", "socket", "wake"} => client[u] \in Clients /\ client[u] # c
        BY <2>3, <3>2 DEF TasksAreWhere
      <4> QED
        BY ZenonT(30), <2>1, <2>4, <3>2, <4>1 DEF ClientsAreApart
    <3> QED
      BY <3>1, <3>2
  <2>6. ASSUME NEW u \in Servers, NEW v \in Servers, client'[u] = client'[v], client'[u] # NoTask
        PROVE  u = v
    BY ZenonT(30), <2>1, <2>6 DEF ClientsAreApart
  <2>7. ASSUME NEW d \in Clients, state'[d] = "PROCESSING" PROVE \E u \in Servers : client'[u] = d
    <3>1. d # c
      BY ZenonT(30), <2>4, <2>7 DEF Final
    <3> QED
      BY <2>1, <2>4, <2>7, <3>1 DEF ClientsAreApart
  <2>8. ASSUME NEW d \in Clients \ tried' PROVE state'[d] = "WAITING" /\ pc'[d] = "idle"
    BY ZenonT(30), <1>1, <2>1, <2>2, <2>4 DEF ClientsAreApart
  <2> QED
    BY ZenonT(30), <2>5, <2>6, <2>7, <2>8 DEF ClientsAreApart
<1>4. ASSUME UNCHANGED state,
             \A u \in Servers :
               \/ /\ client'[u] = client[u]
                  /\ pc'[u] \in {"rel", "socket"} => pc[u] \in {"rel", "socket"}
                  /\ pc'[u] = "wake" => pc[u] = "wake"
               \/ /\ client'[u] = NoTask /\ pc'[u] = "idle"
                  /\ client[u] \in Clients => state[client[u]] # "PROCESSING"
      PROVE  ClientsAreApart'
  <2>1. ASSUME NEW u \in Servers
        PROVE  /\ pc'[u] \in {"rel", "socket"} => state'[client'[u]] = "PROCESSING"
               /\ pc'[u] = "wake" => state'[client'[u]] \in Final
    BY ZenonT(30), <1>4 DEF ClientsAreApart
  <2>2. ASSUME NEW u \in Servers, NEW v \in Servers, client'[u] = client'[v], client'[u] # NoTask
        PROVE  u = v
    BY <1>4, <2>2 DEF ClientsAreApart
  <2>3. ASSUME NEW d \in Clients, state'[d] = "PROCESSING" PROVE \E u \in Servers : client'[u] = d
    BY <1>4, <2>3 DEF ClientsAreApart
  <2>4. ASSUME NEW d \in Clients \ tried' PROVE state'[d] = "WAITING" /\ pc'[d] = "idle"
    BY ZenonT(30), <1>1, <1>4 DEF ClientsAreApart
  <2> QED
    BY ZenonT(30), <2>1, <2>2, <2>3, <2>4 DEF ClientsAreApart
<1>5. ASSUME NEW t \in Servers, AcceptRelease(t) \/ AcceptWake(t) PROVE ClientsAreApart'
  <2>1. UNCHANGED state
    BY ZenonT(30), <1>5 DEF AcceptRelease, AcceptWake, sockVars
  <2>2. CASE pc[t] = "rel"
    BY ZenonT(30), <1>0, <1>4, <1>5, <2>1, <2>2 DEF AcceptRelease, AcceptWake, Goto
  <2>3. CASE pc[t] \in {"fail", "wake"}
    <3>1. client' = [client EXCEPT ![t] = NoTask] /\ pc' = [pc EXCEPT ![t] = "idle"]
      BY ZenonT(30), <1>5, <2>3 DEF AcceptRelease, AcceptWake, Return, Goto
    <3>2. client[t] \in Clients => state[client[t]] # "PROCESSING"
      BY <1>0, <2>3 DEF TasksAreWhere, ClientsAreApart, Final
    <3> QED
      BY ZenonT(30), <1>0, <1>4, <2>1, <3>1, <3>2
  <2> QED
    BY ZenonT(30), <1>5, <2>2, <2>3 DEF AcceptRelease, AcceptWake
<1>6. CASE \A t \in Servers : ~AcceptTake(t) /\ ~AcceptSocket(t) /\ ~AcceptRelease(t) /\ ~AcceptWake(t)
  <2>1. UNCHANGED state
    BY <1>6, StateSteps
  <2>2. \A u \in Servers : /\ client'[u] = client[u]
                           /\ \A p \in {"rel", "socket", "wake"} : pc'[u] = p <=> pc[u] = p
    BY ZenonT(30), <1>6, ServerHolds
  <2> QED
    BY <1>4, <2>1, <2>2
<1> QED
  BY <1>2, <1>3, <1>5, <1>6

-----------------------------------------------------------------------------
(* The streams of a connection that connect() waits for.                       *)

\* What StreamsAreKept says of the streams of one socket.
Open(to, from) ==
  /\ to # NoStream /\ to \subseteq {"NO_READER"}
  /\ from # NoStream /\ from \subseteq {"NO_WRITER"}

\* A close or a shutdown() by the server leaves them open at the client's side.
LEMMA OpenStays ==
  ASSUME Types, Next, NEW c \in Clients, pc[c] # "idle", pc'[c] # "idle",
         Open(to_server[c], from_server[c])
  PROVE  Open(to_server'[c], from_server'[c])
<1>1. CASE UNCHANGED <<to_server, from_server>>
  BY ZenonT(30), <1>1
<1>2. ASSUME NEW d \in Clients, ConnectQueue(d) \/ ConnectResult(d)
      PROVE  to_server'[c] = to_server[c] /\ from_server'[c] = from_server[c]
  BY <1>2, Apart DEF ConnectQueue, ConnectResult, Return, Goto, Types, SockTypes, TaskTypes
<1>3. ASSUME NEW d \in Clients, CloseClient(d)
      PROVE  to_server'[c] = to_server[c] /\ from_server'[c] = from_server[c]
  BY ZenonT(30), <1>3, ClosedSides DEF CloseClient, Types
<1>4. ASSUME NEW d \in Clients, NEW t \in Tasks, Shutdown(t, d) PROVE Open(to_server'[c], from_server'[c])
  <2>1. PICK sides : CloseSides(d, sfile[d] = t, sides)
    BY <1>4 DEF Shutdown
  <2>2. CASE d # c
    BY ZenonT(30), <2>1, <2>2, ClosedSides DEF Types
  <2>3. CASE d = c
    <3>1. sfile[d] = t
      BY <1>4, <2>3 DEF Shutdown
    <3> QED
      BY ZenonT(30), <2>1, <2>3, <3>1, ClosedSides DEF Types, Open
  <2> QED
    BY ZenonT(30), <2>2, <2>3
<1>5. ASSUME NEW d \in Clients, NEW t, CloseServer(t, d) PROVE Open(to_server'[c], from_server'[c])
  BY ZenonT(30), <1>5, ClosedSides DEF CloseServer, Types, Open
<1>6. ASSUME NEW t \in Servers, ServerStep(t) PROVE UNCHANGED <<to_server, from_server>>
  BY ZenonT(30), <1>6 DEF ServerStep, GetFile, AcceptTest, AcceptSleep, AcceptResume, AcceptTake, AcceptRelease,
              AcceptSocket, AcceptWake, SelectLook, SelectPrepare, SelectWait, sockVars
<1>7. ASSUME NEW t \in Servers, NEW l \in Listeners,
             \/ Bind(t, l) \/ Listen(t, l) \/ Accept(t, l) \/ Fionbio(t, l) \/ Select(t, l)
             \/ CloseListener(t, l)
      PROVE  UNCHANGED <<to_server, from_server>>
  BY ZenonT(30), <1>7 DEF Bind, Listen, Accept, Fionbio, Select, CloseListener, sockVars
<1>8. ASSUME NEW t \in Tasks, Interrupt(t) \/ Abandon(t) PROVE UNCHANGED <<to_server, from_server>>
  BY ZenonT(30), <1>8 DEF Interrupt, Abandon, sockVars
<1>9. ASSUME NEW d \in Clients, ConnectSignal(d) \/ ConnectResume(d) \/ ConnectAgain(d)
      PROVE  UNCHANGED <<to_server, from_server>>
  BY ZenonT(30), <1>9, ConnectWaits DEF sockVars
<1>10. \A t \in Clients \cup Servers : t \in Tasks
  BY ZenonT(30), Apart
<1> QED
  BY ZenonT(30), <1>1, <1>2, <1>3, <1>4, <1>5, <1>6, <1>7, <1>8, <1>9, <1>10 DEF Next, ClientStep

\* A client's own steps, and nobody else's, move it.
LEMMA ClientMoves ==
  ASSUME Types, Next, NEW c \in Clients, pc'[c] # "idle"
  PROVE  \/ pc'[c] = pc[c] /\ st'[c] = st[c]
         \/ /\ pc[c] = "idle" /\ pc'[c] = "signal"
            /\ to_server'[c] = {} /\ from_server'[c] = {}
         \/ /\ pc[c] # "idle" /\ UNCHANGED state
            /\ pc'[c] = "result" => st'[c] = state[c] /\ state[c] \in Final
<1> DEFINE Goal ==
      \/ pc'[c] = pc[c] /\ st'[c] = st[c]
      \/ /\ pc[c] = "idle" /\ pc'[c] = "signal"
         /\ to_server'[c] = {} /\ from_server'[c] = {}
      \/ /\ pc[c] # "idle" /\ UNCHANGED state
         /\ pc'[c] = "result" => st'[c] = state[c] /\ state[c] \in Final
<1>0. /\ \A t \in Clients \cup Servers : t \in Tasks
      /\ \A t \in Servers : t \notin Clients
      /\ DOMAIN pc = Tasks /\ DOMAIN st = Tasks /\ DOMAIN to_server = Clients /\ DOMAIN from_server = Clients
  BY ZenonT(30), Apart DEF Types, TaskTypes, SockTypes
<1>1. ASSUME NEW d \in Clients, ConnectQueue(d) PROVE Goal
  BY ZenonT(30), <1>0, <1>1 DEF ConnectQueue, Goto
<1>2. ASSUME NEW d \in Clients, ConnectSignal(d) \/ ConnectAgain(d) \/ ConnectResult(d) PROVE Goal
  BY ZenonT(30), <1>0, <1>2 DEF ConnectSignal, ConnectAgain, ConnectResult, Return, Goto, locals, sockVars
<1>3. ASSUME NEW d \in Clients, ConnectResume(d) PROVE Goal
  BY ZenonT(30), <1>0, <1>3 DEF ConnectResume, Goto, sockVars
<1>4. ASSUME NEW d \in Clients, NEW t, CloseClient(d) \/ Shutdown(t, d) \/ CloseServer(t, d) PROVE Goal
  BY ZenonT(30), <1>0, <1>4 DEF CloseClient, Shutdown, CloseServer, locals
<1>5. ASSUME NEW t \in Servers, ServerStep(t) PROVE Goal
  BY ZenonT(30), <1>0, <1>5 DEF ServerStep, GetFile, AcceptTest, AcceptSleep, AcceptResume, AcceptTake, AcceptRelease,
                    AcceptSocket, AcceptWake, SelectLook, SelectPrepare, SelectWait, Return, Goto, locals
<1>6. ASSUME NEW t \in Servers, NEW l \in Listeners,
             \/ Bind(t, l) \/ Listen(t, l) \/ Accept(t, l) \/ Fionbio(t, l) \/ Select(t, l)
             \/ CloseListener(t, l)
      PROVE  Goal
  BY ZenonT(30), <1>0, <1>6 DEF Bind, Listen, Accept, Fionbio, Select, CloseListener, Goto, locals
<1>7. ASSUME NEW t \in Tasks, Interrupt(t) \/ Abandon(t) PROVE Goal
  BY ZenonT(30), <1>0, <1>7 DEF Interrupt, Abandon, Return, Goto, locals
<1> HIDE DEF Goal
<1>8. Goal
  BY ZenonT(30), <1>1, <1>2, <1>3, <1>4, <1>5, <1>6, <1>7 DEF Next, ClientStep
<1> QED
  BY ZenonT(30), <1>8 DEF Goal

LEMMA StreamsStep ==
  ASSUME Types, TasksAreWhere, QueuesAreApart, ClientsAreApart, StreamsAreKept, Next
  PROVE  StreamsAreKept'
<1>1. ASSUME NEW c \in Clients, state[c] \in Final PROVE state'[c] = state[c]
  <2>1. ASSUME NEW t \in Servers, AcceptTake(t) PROVE state'[c] = state[c]
    <3>1. sock[t] \in Listeners /\ queue[sock[t]] \in Seq(Clients) /\ queue[sock[t]] # <<>>
      BY ZenonT(30), <2>1 DEF AcceptTake, TasksAreWhere, Types, NameTypes
    <3>2. Head(queue[sock[t]]) = queue[sock[t]][1] /\ 1 \in DOMAIN queue[sock[t]]
      BY <3>1, QueueEnds
    <3>3. state[Head(queue[sock[t]])] = "WAITING"
      BY <3>1, <3>2 DEF QueuesAreApart
    <3>4. Head(queue[sock[t]]) # c
      BY ZenonT(30), <1>1, <3>3 DEF Final
    <3> QED
      BY ZenonT(30), <2>1, <3>4 DEF AcceptTake, Types, SockTypes
  <2>2. ASSUME NEW t \in Servers, AcceptSocket(t) PROVE state'[c] = state[c]
    <3>1. client[t] # c
      BY ZenonT(30), <1>1, <2>2 DEF AcceptSocket, ClientsAreApart, Final
    <3> QED
      BY ZenonT(30), <2>2, <3>1 DEF AcceptSocket, Types, SockTypes
  <2> QED
    BY ZenonT(30), <2>1, <2>2, StateSteps
<1>2. ASSUME NEW c \in Clients, pc'[c] # "idle" PROVE Open(to_server'[c], from_server'[c])
  <2>1. CASE pc[c] # "idle"
    <3>1. Open(to_server[c], from_server[c])
      BY ZenonT(30), <2>1 DEF StreamsAreKept, Open
    <3> QED
      BY ZenonT(30), <1>2, <2>1, <3>1, OpenStays
  <2>2. CASE pc[c] = "idle"
    <3>1. to_server'[c] = {} /\ from_server'[c] = {}
      BY <1>2, <2>2, ClientMoves
    <3>2. {} # NoStream
      BY Apart
    <3> QED
      BY ZenonT(30), <3>1, <3>2 DEF Open
  <2> QED
    BY ZenonT(30), <2>1, <2>2
<1>3. ASSUME NEW c \in Clients, pc'[c] = "result" PROVE st'[c] = state'[c] /\ state'[c] \in Final
  <2>1. \/ pc[c] = "result" /\ st'[c] = st[c]
        \/ UNCHANGED state /\ st'[c] = state[c] /\ state[c] \in Final
    BY <1>3, ClientMoves
  <2> QED
    BY ZenonT(30), <1>1, <2>1 DEF StreamsAreKept
<1> QED
  BY ZenonT(30), <1>2, <1>3 DEF StreamsAreKept, Open

-----------------------------------------------------------------------------
(* The theorems.                                                               *)

LEMMA InitIInv == Init => IInv
<1> SUFFICES ASSUME Init PROVE IInv
  OBVIOUS
<1>1. SockTypes
  BY ZenonT(30) DEF Init, SockTypes, States, StreamType
<1>2. NameTypes
  <2>1. queue \in [Listeners -> Seq(Clients)] /\ \A l \in Listeners : Len(queue[l]) = 0
    BY DEF Init
  <2> QED
    BY <2>1, Apart DEF Init, NameTypes
<1>3. TaskTypes
  BY ZenonT(30) DEF Init, TaskTypes, States, OfTasks
<1>4. TasksAreWhere
  BY ZenonT(30), Apart DEF Init, TasksAreWhere
<1>5. LockIsKept
  BY Apart DEF Init, LockIsKept, AcceptLock, Critical
<1>6. NamesAreListed
  BY DEF Init, NamesAreListed
<1>7. QueuesAreApart
  BY DEF Init, QueuesAreApart
<1>8. ClientsAreApart
  BY ZenonT(30), Apart DEF Init, ClientsAreApart
<1>9. StreamsAreKept
  BY Apart DEF Init, StreamsAreKept
<1> QED
  BY ZenonT(30), <1>1, <1>2, <1>3, <1>4, <1>5, <1>6, <1>7, <1>8, <1>9 DEF IInv, Types

LEMMA NextIInv ==
  ASSUME OneConnect
  PROVE  IInv /\ [Next]_vars => IInv'
<1>1. ASSUME IInv, Next PROVE IInv'
  BY ZenonT(30), <1>1, SockStep, NameStep, TaskStep, WhereStep, LockStep, NamesStep, QueuesStep, ClientsStep, StreamsStep
     DEF IInv, Types
<1>2. ASSUME IInv, UNCHANGED vars PROVE IInv'
  <2> USE <1>2 DEF IInv, vars, sockVars, nameVars, fileLock, locals, sleepVars
  <2>1. Types' /\ TasksAreWhere'
    BY ZenonT(30) DEF Types, SockTypes, NameTypes, TaskTypes, TasksAreWhere
  <2>2. LockIsKept'
    BY ZenonT(30) DEF LockIsKept, AcceptLock, LockChan
  <2>3. NamesAreListed' /\ QueuesAreApart'
    BY DEF NamesAreListed, QueuesAreApart
  <2>4. ClientsAreApart' /\ StreamsAreKept'
    BY DEF ClientsAreApart, StreamsAreKept
  <2> QED
    BY ZenonT(30), <2>1, <2>2, <2>3, <2>4
<1> QED
  BY <1>1, <1>2

\* The inductive invariant holds in every behaviour of connect(), accept(),
\* select(), shutdown() and close() without a second connect().
THEOREM IInvHolds ==
  ASSUME OneConnect
  PROVE  Spec => []IInv
  BY InitIInv, NextIInv, PTL DEF Spec

\* __get_file() gives a listening socket to one accept() at a time, nobody sleeps
\* for the lock when it is free, and the client that accept() has seen in the
\* queue is still there when it takes it.
THEOREM AcceptLockHolds ==
  ASSUME OneConnect
  PROVE  Spec => []AcceptLock
<1>1. IInv => AcceptLock
  BY DEF IInv, LockIsKept
<1> QED
  BY <1>1, IInvHolds, PTL

\* A socket waits in one place of one queue, in state UNS_WAITING, and one in
\* state UNS_PROCESSING is in the hands of exactly one accept().
THEOREM QueuedOnceHolds ==
  ASSUME OneConnect
  PROVE  Spec => []QueuedOnce
<1>1. ASSUME IInv PROVE QueuedOnce
  <2>1. ASSUME NEW l \in Listeners, NEW i \in 1 .. queue_size, i <= Len(queue[l])
        PROVE  i \in DOMAIN queue[l]
    BY <1>1, <2>1, Apart DEF IInv, Types, NameTypes
  <2>2. ASSUME NEW c \in Clients, state[c] = "PROCESSING"
        PROVE  Cardinality({t \in Servers : client[t] = c}) = 1
    <3>1. PICK t \in Servers : client[t] = c
      BY <1>1, <2>2 DEF IInv, ClientsAreApart
    <3>2. c # NoTask
      BY Apart
    <3>3. \A u \in Servers : client[u] = c => u = t
      BY <1>1, <3>1, <3>2 DEF IInv, ClientsAreApart
    <3>4. {u \in Servers : client[u] = c} = {t}
      BY <3>1, <3>3
    <3> QED
      BY ZenonT(30), <3>4, FS_Singleton
  <2>3. ASSUME NEW l \in Listeners, NEW i \in 1 .. queue_size, NEW j \in 1 .. queue_size,
               i <= Len(queue[l]), j <= Len(queue[l]), queue[l][i] = queue[l][j]
        PROVE  i = j
    BY <1>1, <2>1, <2>3 DEF IInv, QueuesAreApart
  <2>4. ASSUME NEW l \in Listeners, NEW i \in 1 .. queue_size, i <= Len(queue[l])
        PROVE  state[queue[l][i]] = "WAITING"
    BY <1>1, <2>1, <2>4 DEF IInv, QueuesAreApart
  <2> QED
    BY ZenonT(30), <2>2, <2>3, <2>4 DEF QueuedOnce
<1> QED
  BY <1>1, IInvHolds, PTL

\* The variables keep their types and the queues their bound; connect() reports
\* what accept() decided, and a connection has its two streams when it does; the
\* list has the names that are listed, and a name is freed when nobody uses it.
THEOREM SocketsAreWholeHolds ==
  ASSUME OneConnect
  PROVE  Spec => []SocketsAreWhole
<1>1. ASSUME IInv PROVE SocketsAreWhole
  <2>1. TypeOK
    BY ZenonT(30), <1>1 DEF IInv, Types, SockTypes, NameTypes, TaskTypes, TypeOK
  <2>2. ConnectedHasStreams
    BY <1>1 DEF IInv, StreamsAreKept, ConnectedHasStreams
  <2>3. NameFreedWhenUnused
    <3>1. ASSUME NEW l \in Listeners, unix_name[l] = "freed", NEW t \in Servers PROVE sock[t] # l
      BY <1>1, <3>1, Apart DEF IInv, TasksAreWhere
    <3>2. DOMAIN names = 1 .. Len(names)
      BY <1>1 DEF IInv, Types, NameTypes
    <3> QED
      BY ZenonT(30), <1>1, <3>1, <3>2 DEF IInv, NamesAreListed, NameFreedWhenUnused
  <2> QED
    BY ZenonT(30), <2>1, <2>2, <2>3 DEF SocketsAreWhole
<1> QED
  BY <1>1, IInvHolds, PTL
=============================================================================
