----------------------------- MODULE NetSockets -----------------------------
(***************************************************************************)
(* Internet sockets.  ixemul.library has none of its own: a socket is a    *)
(* number in the table that a TCP/IP library (AmiTCP's bsdsocket.library   *)
(* or AS225's socket.library) keeps for each process, ixnet.library hides  *)
(* which of the two it is (ixnet/ixnet_open.c, ixnet/socket.c), and        *)
(* library/socket.c puts a struct file around the number.                  *)
(*                                                                         *)
(* A number means nothing in another process, so a child made by vfork()   *)
(* cannot share its parent's file: the parent "releases" a copy of each    *)
(* socket under an id that any process can "obtain" (library/vfork.c).     *)
(* This is where descriptors duplicated by dup(), failing calls and        *)
(* retries meet.                                                           *)
(***************************************************************************)
EXTENDS Integers, Sequences, FiniteSets, SequencesExt

CONSTANTS
  Procs,        \* the processes
  NOFILE,       \* descriptors of a process
  NFILE,        \* file structures that memory has room for
  TableSize,    \* sockets the TCP/IP library keeps for a process
  Uses,         \* what a run starts from: the installed libraries and settings,
                \*   and the optional things its programs do (use.ops)
  Flaws         \* the defects of the code that the run lets happen:
                \*   "lost"     a socket cannot be released or obtained in vfork()
                \*   "unclaimed" a socket is closed after a vfork() that failed
                \*   "nodup"    AS225 before version 8, which cannot duplicate
                \*   "auto"     bsdsocket.library without usergroup.library
                \*   "daemon"   no descriptor for the socket inetd passed on
                \*   "killed"   a daemon that inetd waits for ends without exit()
                \*   "reentered" a handler closes the socket accept() waits on
                \*   "errno"    send() while errno still holds an old EPIPE
                \*   "write"    write() to a broken connection

VARIABLES
  use,          \* the member of Uses that this run has
  task,         \* per process: state, parent, struct ixnet, errno, the accept() it is
                \*   in, and the socket that inetd offers it
  sys,          \* descriptors, files, the library's socket tables, released sockets
  libs,         \* open counts of the libraries; ixnet.library's flags
  inetd,        \* daemons whose end inetd waits to hear of
  last          \* the last data call: its kind, the errno it caused, SIGPIPE or not

vars == <<use, task, sys, libs, inetd, last>>

Fds == 0 .. NOFILE - 1
FileSlots == 1 .. NFILE
Numbers == 0 .. TableSize - 1
NoFile == [count |-> 0, type |-> "none", so |-> 0, id |-> 0]
NoNet == [protocol |-> "NONE", tcp |-> FALSE, ug |-> FALSE, sock |-> FALSE, daemon |-> 0]
NoCall == [fp |-> 0, fd2 |-> -1]
Nobody == [st |-> "none", parent |-> 0, net |-> NoNet, errno |-> "other", call |-> NoCall, dm |-> 0]
Quiet == [call |-> "", err |-> "", signal |-> FALSE]

(* errno, as far as the code looks at it: EPIPE or another.                *)
Errno(e) == IF e = "EPIPE" THEN e ELSE "other"

Least(S) == CHOOSE x \in S : \A y \in S : x <= y

-----------------------------------------------------------------------------
(* The file table                                                          *)

FreeFds(s, p) == {fd \in Fds : s.ofile[p][fd] = 0}

FreeFiles(s) == {f \in FileSlots : s.file[f].count = 0}

CanAlloc(s, p) == FreeFds(s, p) # {} /\ FreeFiles(s) # {}

NewFd(s, p) == Least(FreeFds(s, p))

NewFile(s) == Least(FreeFiles(s))

(* Both a descriptor and a file, with the union f__fh cleared.             *)
falloc(s, p) ==
  [s EXCEPT !.ofile[p][NewFd(s, p)] = NewFile(s),
            !.file[NewFile(s)] = [NoFile EXCEPT !.count = 1]]

_set_socket_params(s, f, domain, so) ==
  [s EXCEPT !.file[f].type = IF domain = "AF_INET" THEN "SOCKET" ELSE "USOCKET",
            !.file[f].so = so]

(* The failure exit of socket(), accept() and ix_obtain_socket().          *)
FreeAgain(s, p, fd, f) ==
  [s EXCEPT !.ofile[p][fd] = 0, !.file[f] = NoFile]

(* What getsock() says of a descriptor: an errno, or "0".                  *)
getsock(p, fd) ==
  LET f == sys.ofile[p][fd] IN
  CASE f = 0 -> "EBADF"
    [] f # 0 /\ sys.file[f].type \notin {"SOCKET", "USOCKET"} -> "ENOTSOCK"
    [] f # 0 /\ sys.file[f].type = "SOCKET" /\ task[p].net = NoNet -> "EPIPE"
    [] OTHER -> "0"

-----------------------------------------------------------------------------
(* The TCP/IP library: a table of numbers for each process and a pool of   *)
(* sockets that were released and wait to be obtained.                     *)

FreeNumbers(s, p) == Numbers \ s.socks[p]

NewNumber(s, p) == Least(FreeNumbers(s, p))

Put(s, p) == [s EXCEPT !.socks[p] = @ \cup {NewNumber(s, p)}]

Gone(s, p, so) == [s EXCEPT !.socks[p] = @ \ {so}]

NewId(s) == Least((1 .. Cardinality(s.pool) + 1) \ s.pool)

(* _dup(): AS225 before version 8 answers with the very same number.       *)
_dup(s, p, f) ==
  IF task[p].net.protocol = "AS225old"
  THEN [s |-> s, so |-> s.file[f].so]
  ELSE IF FreeNumbers(s, p) = {}
  THEN [s |-> s, so |-> -1]
  ELSE [s |-> Put(s, p), so |-> NewNumber(s, p)]

(* A copy is released under a new id, and the copy's number closed.        *)
release_socket(s, p, f) ==
  LET d == _dup(s, p, f) IN
  IF d.so = -1
  THEN [s |-> s, id |-> -1]
  ELSE [s |-> Gone([d.s EXCEPT !.pool = @ \cup {NewId(s)}], p, d.so), id |-> NewId(s)]

(* The id leaves the pool for a number of the process that obtains it.     *)
obtain_socket(s, p, id) ==
  IF id \notin s.pool \/ FreeNumbers(s, p) = {}
  THEN [s |-> s, so |-> -1]
  ELSE [s |-> [Put(s, p) EXCEPT !.pool = @ \ {id}], so |-> NewNumber(s, p)]

_tcp_close(s, p, f) == Gone(s, p, s.file[f].so)

-----------------------------------------------------------------------------
(* Passing sockets to a child                                              *)

ix_release_socketAgain(s, p, f) ==
  IF task[p].net = NoNet
  THEN [s |-> s, id |-> -1]
  ELSE release_socket(s, p, f)

(* A file that was released already, because another descriptor refers to  *)
(* it or because an earlier vfork() failed, keeps its id.                  *)
ix_release_socket(s, p, f) ==
  IF task[p].net = NoNet
  THEN [s |-> s, id |-> -1]
  ELSE IF s.file[f].id # 0
  THEN [s |-> [s EXCEPT !.file[f].id = 0], id |-> s.file[f].id]
  ELSE release_socket(s, p, f)

(* vfork() in the parent: every descriptor of a socket, in order.          *)
Release(s, p) ==
  FoldLeft(LAMBDA t, i :
             LET f == t.ofile[p][i - 1] IN
             IF f = 0 \/ t.file[f].type # "SOCKET"
             THEN t
             ELSE LET r == ix_release_socket(t, p, f)
                  IN  [r.s EXCEPT !.file[f].id = r.id],
           s, [i \in 1 .. NOFILE |-> i])

(* ix_obtain_socket(): [s, fd], fd = -1 when it fails.                     *)
ix_obtain_socket(s, p, id) ==
  IF ~CanAlloc(s, p)
  THEN [s |-> s, fd |-> -1]
  ELSE LET fd == NewFd(s, p)
           f == NewFile(s)
           o == obtain_socket(falloc(s, p), p, id)
       IN  IF o.so = -1
           THEN [s |-> FreeAgain(o.s, p, fd, f), fd |-> -1]
           ELSE [s |-> _set_socket_params(o.s, f, "AF_INET", o.so), fd |-> fd]

InheritFirst(s, c, fd) ==
  LET f == s.ofile[c][fd]
      o == ix_obtain_socket(s, c, s.file[f].id)
      t == [o.s EXCEPT !.file[f].id = 0]
      new == t.ofile[c][o.fd]
  IN  IF f = 0 THEN s
      ELSE IF s.file[f].type # "SOCKET" THEN [s EXCEPT !.file[f].count = @ + 1]
      ELSE IF s.file[f].id = 0 THEN s
      ELSE IF o.fd = -1 THEN t
      ELSE [t EXCEPT !.ofile[c] = [i \in Fds |-> IF i = fd THEN new
                                                 ELSE IF i = o.fd THEN 0
                                                 ELSE @[i]]]

(* vfork() in the child, one descriptor: a socket that was released is     *)
(* obtained, put in the place of the parent's file here and at every later *)
(* descriptor that was a duplicate, and counted once for each of them.     *)
Inherit(s, c, fd) ==
  LET f == s.ofile[c][fd]
      o == ix_obtain_socket(s, c, s.file[f].id)
      t == [o.s EXCEPT !.file[f].id = 0]
      new == t.ofile[c][o.fd]
      dups == {i \in fd + 1 .. NOFILE - 1 : t.ofile[c][i] = f}
  IN  IF f = 0 THEN s
      ELSE IF s.file[f].type # "SOCKET" THEN [s EXCEPT !.file[f].count = @ + 1]
      ELSE IF s.file[f].id = 0 THEN s
      ELSE IF o.fd = -1 THEN t
      ELSE [t EXCEPT !.ofile[c] = [i \in Fds |-> IF i \in dups \cup {fd} THEN new
                                                 ELSE IF i = o.fd THEN 0
                                                 ELSE @[i]],
                     !.file[new].count = @ + Cardinality(dups)]

InheritAll(s, p, c) ==
  FoldLeft(LAMBDA t, i : Inherit(t, c, i - 1),
           [s EXCEPT !.ofile[c] = s.ofile[p]], [i \in 1 .. NOFILE |-> i])

-----------------------------------------------------------------------------
(* Opening and closing ixnet.library                                       *)

Opened(l, S) == [lib \in DOMAIN l |-> IF lib \in S THEN l[lib] + 1 ELSE l[lib]]

Closed(l, S) == [lib \in DOMAIN l |-> IF lib \in S THEN l[lib] - 1 ELSE l[lib]]

(* ixnet_open(): the struct ixnet the process gets (NoNet when it fails)   *)
(* and the libraries that stay open.  "signals" are those AllocSignal()    *)
(* can still give: bsdsocket.library is opened, and closed again when the  *)
(* signals or usergroup.library are not there, without clearing u_TCPBase. *)
ixnet_open(signals) ==
  LET tried == use.type \in {"AUTO", "AMITCP"} /\ use.tcp
      amitcp == tried /\ signals /\ use.ug
      as225 == ~amitcp /\ use.type \in {"AUTO", "AS225"} /\ use.sock /\ signals
  IN  CASE amitcp -> [net |-> [NoNet EXCEPT !.protocol = "AMITCP", !.tcp = TRUE, !.ug = TRUE],
                      opened |-> {"tcp", "ug"}]
        [] as225 -> [net |-> [NoNet EXCEPT !.protocol = IF use.old THEN "AS225old" ELSE "AS225",
                                           !.sock = TRUE, !.tcp = tried],
                     opened |-> {"sock"}]
        [] OTHER -> [net |-> NoNet, opened |-> {}]

ixnet_closeForgets(net) ==
  {lib \in {"sock", "tcp"} : net[lib]}

(* ixnet_close(): every library whose base is not NULL.                    *)
ixnet_close(net) ==
  {lib \in {"sock", "ug", "tcp"} : net[lib]}

(* libOpen() counts first and takes it back when ixnet_open() fails; a     *)
(* library that was expunged is loaded again by OpenLibrary().             *)
libOpen(o) ==
  LET l == Opened(libs, o.opened)
  IN  [l EXCEPT !.ixnet = IF o.net = NoNet THEN @ ELSE @ + 1,
                !.delexp = 0, !.loaded = 1]

libExpungeFunc(l) ==
  [l EXCEPT !.delexp = 1, !.loaded = IF l.ixnet = 0 THEN 0 ELSE @]

libClose(l, net) ==
  LET m == [Closed(l, ixnet_close(net)) EXCEPT !.ixnet = @ - 1]
  IN  IF m.ixnet = 0 /\ m.delexp = 1 THEN libExpungeFunc(m) ELSE m

-----------------------------------------------------------------------------
(* Processes                                                               *)

Init ==
  /\ use \in Uses
  /\ task = [p \in Procs |-> Nobody]
  /\ sys = [ofile |-> [p \in Procs |-> [fd \in Fds |-> 0]],
            file |-> [f \in FileSlots |-> NoFile],
            socks |-> [p \in Procs |-> {}],
            pool |-> {}]
  /\ libs = [tcp |-> 0, ug |-> 0, sock |-> 0, ixnet |-> 0, delexp |-> 0, loaded |-> 0]
  /\ inetd = {}
  /\ last = Quiet

Running(p) == task[p].st = "run"

(* A handler runs while accept() waits; it does not start processes.       *)
Idle(p) == Running(p) /\ (task[p].call = NoCall \/ "reentered" \in Flaws)

SafeOpen(o) == "auto" \in Flaws \/ ~(o.net.sock /\ o.net.tcp)

SafeNet(o) == "nodup" \in Flaws \/ o.net.protocol # "AS225old"

(* A program is started, by a shell or (with a socket to take over) by     *)
(* inetd, and ix_open() opens ixnet.library for it.                        *)
ix_open(p, signals, offered) ==
  LET o == ixnet_open(signals) IN
  /\ task[p].st = "none"
  /\ "alone" \in use.ops => \A q \in Procs : task[q] = Nobody
  /\ offered => "inetd" \in use.ops
  /\ SafeOpen(o) /\ SafeNet(o)
  /\ offered => o.net # NoNet
  /\ task' = [task EXCEPT ![p] = [Nobody EXCEPT !.st = "run", !.net = o.net,
                                                !.dm = IF offered THEN NewId(sys) ELSE 0]]
  /\ libs' = libOpen(o)
  /\ sys' = IF offered THEN [sys EXCEPT !.pool = @ \cup {NewId(sys)}] ELSE sys
  /\ inetd' = IF offered /\ o.net.protocol # "AMITCP" THEN inetd \cup {p} ELSE inetd
  /\ last' = Quiet
  /\ UNCHANGED use

soo_closeEarly(s, p, f) ==
  _tcp_close([s EXCEPT !.file[f] = IF @.count = 1 THEN NoFile ELSE [@ EXCEPT !.count = @ - 1]],
             p, f)

(* The last close of a file tells the library; other closes only count.    *)
soo_close(s, p, f) ==
  IF s.file[f].count > 1
  THEN [s EXCEPT !.file[f].count = @ - 1]
  ELSE [_tcp_close(s, p, f) EXCEPT !.file[f] = NoFile]

Close(s, p, fd) ==
  LET f == s.ofile[p][fd]
      t == [s EXCEPT !.ofile[p][fd] = 0]
  IN  CASE f = 0 -> s
        [] f # 0 /\ s.file[f].type = "SOCKET" -> soo_close(t, p, f)
        [] OTHER -> [t EXCEPT !.file[f] = IF @.count > 1 THEN [@ EXCEPT !.count = @ - 1]
                                                         ELSE NoFile]

Unclaimed(p, fd) ==
  LET f == sys.ofile[p][fd] IN f # 0 /\ sys.file[f].id # 0 /\ sys.file[f].count = 1

close(p, fd) ==
  /\ Running(p)
  /\ sys.ofile[p][fd] # 0
  /\ fd # task[p].call.fd2
  /\ (sys.ofile[p][fd] = task[p].call.fp
        /\ sys.file[task[p].call.fp].count = 1) => "reentered" \in Flaws
  /\ Unclaimed(p, fd) => "unclaimed" \in Flaws
  /\ sys' = Close(sys, p, fd)
  /\ last' = Quiet
  /\ UNCHANGED <<use, task, libs, inetd>>

dup(p, fd) ==
  /\ Running(p)
  /\ sys.ofile[p][fd] # 0
  /\ fd # task[p].call.fd2
  /\ FreeFds(sys, p) # {}
  /\ sys' = [sys EXCEPT !.ofile[p][NewFd(sys, p)] = sys.ofile[p][fd],
                        !.file[sys.ofile[p][fd]].count = @ + 1]
  /\ last' = Quiet
  /\ UNCHANGED <<use, task, libs, inetd>>

(* Any file that is no Internet socket.                                    *)
open(p, type) ==
  /\ Running(p) /\ type \in use.ops
  /\ CanAlloc(sys, p)
  /\ sys' = [falloc(sys, p) EXCEPT !.file[NewFile(sys)].type = type]
  /\ last' = Quiet
  /\ UNCHANGED <<use, task, libs, inetd>>

(* socket(): the library may refuse, and then nothing is left behind.      *)
socket(p, granted) ==
  /\ Running(p)
  /\ IF task[p].net = NoNet
     THEN task' = [task EXCEPT ![p].errno = "other"] /\ sys' = sys
     ELSE IF ~CanAlloc(sys, p)
     THEN task' = [task EXCEPT ![p].errno = "other"] /\ sys' = sys
     ELSE LET fd == NewFd(sys, p)
              f == NewFile(sys)
              s == falloc(sys, p)
          IN  IF granted /\ FreeNumbers(s, p) # {}
              THEN /\ sys' = _set_socket_params(Put(s, p), f, "AF_INET", NewNumber(s, p))
                   /\ task' = [task EXCEPT ![p].errno = "other"]
              ELSE /\ sys' = FreeAgain(s, p, fd, f)
                   /\ task' = [task EXCEPT ![p].errno = "other"]
  /\ last' = Quiet
  /\ UNCHANGED <<use, libs, inetd>>

(* accept() takes the descriptor first and waits with it; signal handlers  *)
(* run meanwhile.                                                          *)
accept(p, fd) ==
  /\ Running(p) /\ task[p].call = NoCall /\ "accept" \in use.ops
  /\ getsock(p, fd) = "0"
  /\ sys.file[sys.ofile[p][fd]].type = "SOCKET"
  /\ IF CanAlloc(sys, p)
     THEN /\ sys' = falloc(sys, p)
          /\ task' = [task EXCEPT ![p].call = [fp |-> sys.ofile[p][fd], fd2 |-> NewFd(sys, p)]]
     ELSE sys' = sys /\ task' = [task EXCEPT ![p].errno = "other"]
  /\ last' = Quiet
  /\ UNCHANGED <<use, libs, inetd>>

acceptReturns(p, granted) ==
  LET c == task[p].call
      f2 == sys.ofile[p][c.fd2]
      domain == IF sys.file[c.fp].type = "SOCKET" THEN "AF_INET" ELSE "AF_UNIX"
      ok == granted /\ FreeNumbers(sys, p) # {}
  IN  /\ Running(p) /\ c # NoCall
      /\ sys' = IF ok THEN _set_socket_params(Put(sys, p), f2, domain, NewNumber(sys, p))
                      ELSE FreeAgain(sys, p, c.fd2, f2)
      /\ task' = [task EXCEPT ![p].call = NoCall, ![p].errno = "other"]
      /\ last' = Quiet
      /\ UNCHANGED <<use, libs, inetd>>

-----------------------------------------------------------------------------
(* vfork(), execve(), exit()                                               *)

Lost(s, p) == \E fd \in Fds : s.ofile[p][fd] # 0 /\ s.file[s.ofile[p][fd]].id = -1

(* The parent releases its sockets, then makes the process; when that      *)
(* fails the ids stay with the files for the next attempt.                 *)
vfork(p, c, created) ==
  LET s == Release(sys, p) IN
  /\ Idle(p) /\ task[c].st = "none" /\ p # c /\ "vfork" \in use.ops
  /\ Lost(s, p) => "lost" \in Flaws
  /\ sys' = s
  /\ task' = IF created
             THEN [task EXCEPT ![p].st = "waits",
                               ![c] = [Nobody EXCEPT !.st = "new", !.parent = p]]
             ELSE [task EXCEPT ![p].errno = "other"]
  /\ last' = Quiet
  /\ UNCHANGED <<use, libs, inetd>>

(* The child opens the library for itself, copies the descriptors and      *)
(* obtains the sockets; then it runs in the parent's place.                *)
launcher(c, signals) ==
  LET o == ixnet_open(signals)
      p == task[c].parent
      s == InheritAll(sys, p, c)
      sockets == {fd \in Fds : sys.ofile[p][fd] # 0 /\ sys.file[sys.ofile[p][fd]].type = "SOCKET"}
  IN  /\ task[c].st = "new"
      /\ SafeOpen(o) /\ SafeNet(o)
      /\ sockets # {} => o.net # NoNet
      /\ (\E fd \in sockets : s.ofile[c][fd] = sys.ofile[p][fd]) => "lost" \in Flaws
      /\ libs' = libOpen(o)
      /\ task' = [task EXCEPT ![c].st = "run", ![c].net = o.net]
      /\ sys' = s
      /\ last' = Quiet
      /\ UNCHANGED <<use, inetd>>

Resumed(t, c) ==
  IF t[c].parent = 0 THEN t
  ELSE [t EXCEPT ![t[c].parent].st = "run", ![c].parent = 0]

(* The program is replaced; the parent may go on.                          *)
execve(c) ==
  /\ Running(c) /\ task[c].parent # 0 /\ task[c].call = NoCall
  /\ task' = Resumed(task, c)
  /\ last' = Quiet
  /\ UNCHANGED <<use, sys, libs, inetd>>

(* All descriptors are closed, then ixnet.library; a waiting parent goes   *)
(* on.  exit() tells inetd first, a signal that ends the process does not. *)
Ends(p, told) ==
  LET files == {sys.ofile[p][fd] : fd \in Fds} \ {0}
      s == FoldLeft(LAMBDA t, i : Close(t, p, i - 1), sys, [i \in 1 .. NOFILE |-> i])
  IN  /\ Running(p) /\ task[p].dm = 0
      /\ task[p].call # NoCall => ~told
      /\ (\E f \in files : sys.file[f].id # 0) => "unclaimed" \in Flaws
      /\ (~told /\ p \in inetd) => "killed" \in Flaws
      /\ sys' = [s EXCEPT !.socks[p] = IF task[p].net.sock THEN {} ELSE @]
      /\ libs' = IF task[p].net = NoNet THEN libs ELSE libClose(libs, task[p].net)
      /\ task' = [Resumed(task, p) EXCEPT ![p] = Nobody]
      /\ inetd' = IF told /\ task[p].net.daemon # 0 THEN inetd \ {p} ELSE inetd
      /\ last' = Quiet
      /\ UNCHANGED use

exit(p) == Ends(p, TRUE)

kill(p) == Ends(p, FALSE)

-----------------------------------------------------------------------------
(* Daemons started by inetd take over the socket it released for them.     *)

init_inet_daemon(p) ==
  LET o == obtain_socket(sys, p, task[p].dm)
      f == NewFile(sys)
      room == CanAlloc(sys, p)
  IN  /\ Idle(p) /\ task[p].dm # 0
      /\ o.so # -1
      /\ ~room => "daemon" \in Flaws
      /\ sys' = IF room THEN _set_socket_params(falloc(o.s, p), f, "AF_INET", o.so) ELSE o.s
      /\ task' = [task EXCEPT ![p].dm = 0,
                              ![p].errno = "other",
                              ![p].net.daemon = IF task[p].net.protocol = "AMITCP" THEN @
                                                ELSE task[p].dm]
      /\ last' = Quiet
      /\ UNCHANGED <<use, libs, inetd>>

-----------------------------------------------------------------------------
(* Calls that only pass data or settings: what the library may answer, an  *)
(* errno or "0".  It leaves errno alone when it succeeds.                  *)

Answers(p, errors) == IF task[p].net = NoNet THEN {} ELSE {"0"} \cup errors

_bind(p) == Answers(p, {"EINVAL"})

_listen(p) == Answers(p, {"EINVAL"})

_connect(p) == Answers(p, {"EINTR", "EINVAL"})

_sendto(p) == Answers(p, {"EINTR", "EPIPE"})

_send(p) == Answers(p, {"EINTR", "EPIPE"})

_sendmsg(p) == Answers(p, {"EINTR", "EPIPE"})

_recvfrom(p) == Answers(p, {"EINTR"})

_recv(p) == Answers(p, {"EINTR"})

_recvmsg(p) == Answers(p, {"EINTR"})

_shutdown(p) == Answers(p, {"EINVAL"})

_setsockopt(p) == Answers(p, {"EINVAL"})

_getsockopt(p) == Answers(p, {"EINVAL"})

_getsockname(p) == Answers(p, {"EINVAL"})

_getpeername(p) == Answers(p, {"EINVAL"})

_tcp_ioctl(p) == Answers(p, {"EINTR", "EINVAL"})

(* socket_cleanup(): nothing but the process state, and a run again after  *)
(* EINTR; no signal.                                                       *)
socket_cleanup(errno) == FALSE

socket_cleanup_epipeNever(errno) == FALSE

(* socket_cleanup_epipe(): SIGPIPE when errno, whoever set it, is EPIPE.   *)
socket_cleanup_epipe(errno) == errno = "EPIPE"

(* One call on descriptor fd.  answers: of the library; cleanup: one of    *)
(* the two above; unix: does the call know Unix sockets (UnixSocket.tla).  *)
NetCall(p, name, fd, answers, Cleanup(_), unix) ==
  LET bad == getsock(p, fd)
      type == sys.file[sys.ofile[p][fd]].type
      isUnix == bad = "0" /\ type = "USOCKET"
  IN  /\ Idle(p) /\ "data" \in use.ops
      /\ UNCHANGED <<use, sys, libs, inetd>>
      /\ \/ /\ bad # "0"
            /\ task' = [task EXCEPT ![p].errno = Errno(bad)]
            /\ last' = Quiet
         \/ isUnix /\ ~unix /\ UNCHANGED task /\ last' = Quiet
         \/ /\ bad = "0" /\ ~isUnix
            /\ \E err \in answers :
                 LET errno == IF err = "0" THEN task[p].errno ELSE Errno(err) IN
                 /\ (errno = "EPIPE" /\ err = "0") => "errno" \in Flaws
                 /\ task' = [task EXCEPT ![p].errno = errno]
                 /\ last' = [call |-> name, err |-> Errno(err), signal |-> Cleanup(errno)]

bind(p, fd) == NetCall(p, "bind", fd, _bind(p), socket_cleanup, TRUE)

listen(p, fd) == NetCall(p, "listen", fd, _listen(p), socket_cleanup, TRUE)

connect(p, fd) == NetCall(p, "connect", fd, _connect(p), socket_cleanup, TRUE)

sendto(p, fd) == NetCall(p, "send", fd, _sendto(p), socket_cleanup_epipe, FALSE)

send(p, fd) == NetCall(p, "send", fd, _send(p), socket_cleanup_epipe, TRUE)

sendmsg(p, fd) == NetCall(p, "send", fd, _sendmsg(p), socket_cleanup_epipe, FALSE)

recvfrom(p, fd) == NetCall(p, "recv", fd, _recvfrom(p), socket_cleanup, FALSE)

recv(p, fd) == NetCall(p, "recv", fd, _recv(p), socket_cleanup, TRUE)

recvmsg(p, fd) == NetCall(p, "recv", fd, _recvmsg(p), socket_cleanup, FALSE)

shutdown(p, fd) == NetCall(p, "shutdown", fd, _shutdown(p), socket_cleanup, TRUE)

setsockopt(p, fd) == NetCall(p, "opt", fd, _setsockopt(p), socket_cleanup, TRUE)

getsockopt(p, fd) == NetCall(p, "opt", fd, _getsockopt(p), socket_cleanup, TRUE)

getsockname(p, fd) == NetCall(p, "name", fd, _getsockname(p), socket_cleanup, TRUE)

getpeername(p, fd) == NetCall(p, "name", fd, _getpeername(p), socket_cleanup, TRUE)

(* read(), write() and ioctl() come through the file's functions; write()  *)
(* is a send that cleans up without a look at EPIPE.                       *)
_tcp_read(p, fd) == NetCall(p, "recv", fd, _recv(p), socket_cleanup, TRUE)

_tcp_write(p, fd) ==
  /\ NetCall(p, "send", fd, _send(p), socket_cleanup, TRUE)
  /\ last'.err = "EPIPE" => "write" \in Flaws

soo_ioctl(p, fd) == NetCall(p, "ioctl", fd, _tcp_ioctl(p), socket_cleanup, TRUE)

(* Memory is short: the system asks ixnet.library to go.                   *)
libExpunge ==
  /\ libs.loaded = 1 /\ "expunge" \in use.ops
  /\ libs' = libExpungeFunc(libs)
  /\ UNCHANGED <<use, task, sys, inetd, last>>

-----------------------------------------------------------------------------

DataCall(p, fd) ==
  \/ bind(p, fd) \/ listen(p, fd) \/ connect(p, fd)
  \/ sendto(p, fd) \/ send(p, fd) \/ sendmsg(p, fd)
  \/ recvfrom(p, fd) \/ recv(p, fd) \/ recvmsg(p, fd)
  \/ shutdown(p, fd) \/ setsockopt(p, fd) \/ getsockopt(p, fd)
  \/ getsockname(p, fd) \/ getpeername(p, fd)
  \/ _tcp_read(p, fd) \/ _tcp_write(p, fd) \/ soo_ioctl(p, fd)

Next ==
  \/ \E p \in Procs :
       \/ \E signals, offered \in BOOLEAN : ix_open(p, signals, offered)
       \/ \E granted \in BOOLEAN : socket(p, granted) \/ acceptReturns(p, granted)
       \/ \E type \in {"FILE", "USOCKET"} : open(p, type)
       \/ \E fd \in Fds : close(p, fd) \/ dup(p, fd) \/ accept(p, fd) \/ DataCall(p, fd)
       \/ \E c \in Procs, created \in BOOLEAN : vfork(p, c, created)
       \/ \E signals \in BOOLEAN : launcher(p, signals)
       \/ execve(p) \/ exit(p) \/ kill(p)
       \/ init_inet_daemon(p)
  \/ libExpunge

Spec == Init /\ [][Next]_vars

-----------------------------------------------------------------------------

Refs(f) == {x \in Procs \X Fds : sys.ofile[x[1]][x[2]] = f}

SocketsOf(p) == {f \in FileSlots : sys.file[f].type = "SOCKET" /\ \E fd \in Fds : <<p, fd>> \in Refs(f)}

(* Every file is counted once for each descriptor of any process that      *)
(* refers to it, and the TCP/IP library's table of a process holds exactly *)
(* the sockets of the files that this process, and no other, has open:     *)
(* sockets are neither lost, nor closed under an open descriptor, nor used *)
(* with another process's number - whatever vfork(), dup(), accept() and   *)
(* exit() did (soo_close(), ix_obtain_socket(), the loop in vfork.c).      *)
SocketsAreHeld ==
  /\ \A f \in FileSlots : sys.file[f].count = Cardinality(Refs(f))
  /\ \A p \in Procs :
       /\ sys.socks[p] = {sys.file[f].so : f \in SocketsOf(p)}
       /\ Cardinality(sys.socks[p]) = Cardinality(SocketsOf(p))
       /\ \A q \in Procs \ {p} :
            (task[p].st = "run" /\ task[q].st \in {"run", "waits"}) => SocketsOf(p) \cap SocketsOf(q) = {}

(* A socket that was released waits under the id that exactly one open     *)
(* file carries, or that inetd gave to a daemon that has not started, and  *)
(* nobody carries an id under which nothing waits: no copy of a connection *)
(* stays open in the TCP/IP stack for ever (release_socket(),              *)
(* ix_release_socket(), f_socket_id in vfork.c).                           *)
ReleasedAreAwaited ==
  LET ids == [f \in {g \in FileSlots : sys.file[g].id # 0} |-> sys.file[f].id]
      offers == [p \in {q \in Procs : task[q].dm # 0} |-> task[p].dm]
      carried == {ids[f] : f \in DOMAIN ids}
      offered == {offers[p] : p \in DOMAIN offers}
  IN  /\ sys.pool = carried \cup offered
      /\ carried \cap offered = {}
      /\ Cardinality(sys.pool) = Cardinality(DOMAIN ids) + Cardinality(DOMAIN offers)

(* Each library is open once for every process that uses it, ixnet.library *)
(* is not removed while a process has it open, and inetd is not left       *)
(* waiting for a daemon that is gone (ixnet_open(), ixnet_close(),         *)
(* libOpen(), libClose(), libExpunge(), shutdown_inet_daemon()).           *)
OpensBalance ==
  LET users(ps) == Cardinality({p \in Procs : task[p].net.protocol \in ps}) IN
  /\ libs.tcp = users({"AMITCP"}) /\ libs.ug = users({"AMITCP"})
  /\ libs.sock = users({"AS225", "AS225old"})
  /\ libs.ixnet = users({"AMITCP", "AS225", "AS225old"})
  /\ libs.ixnet > 0 => libs.loaded = 1
  /\ \A p \in inetd : task[p].st # "none"

(* SIGPIPE is raised for a call that sends on a broken connection, and for *)
(* no other call (socket_cleanup_epipe(), _tcp_write(); man2/socket.2).    *)
BrokenSendIsSignalled ==
  last.signal <=> last.call = "send" /\ last.err = "EPIPE"
=============================================================================
