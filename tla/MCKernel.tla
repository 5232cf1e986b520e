------------------------------ MODULE MCKernel ------------------------------
(* Small instances of the parts of the library that keep tables for all        *)
(* processes.  They share no state: only one of them moves in a behaviour, and *)
(* instance says which.                                                        *)
(*   "pipes"   a process has descriptors enough for its pipes (Descriptors,    *)
(*             with the values of the constants)                               *)
(*   "full"    it runs out of file structures in pipe()                        *)
(*   "names"   it opens, creates and unlinks                                   *)
(*   "shared"  two processes share files                                       *)
(*   "mutex"   two tasks lock two mutexes that have been used before           *)
(*   "first"   one task locks mutexes that nobody has used                     *)
(*   "shm"     two processes share and remove segments                         *)
(*   "shmexit" two processes share segments and exit                           *)
(*   "shmone"  one process removes segments and exits                          *)
(*   "msg"     two processes send and receive messages                         *)
(*   "sem"     two processes use semaphores, with undo                         *)
(*   "memory"  a process, its thread and its child allocate memory             *)
(*   "tight"   the same with more blocks than exec has memory for              *)
(*   "net"     two processes use TCP/IP sockets, with few descriptors          *)
(*   "files"   the same with few file structures                               *)
EXTENDS Descriptors, TLC

CONSTANTS P, Q, F, G, H, N, p1, p2

VARIABLES initialized, oldmask, ss_Owner, ss_NestCount, p_sigmask, mutexpc, mutexarg,
          old, held
VARIABLES shmlist, key, nattch, removed, segments, frees, u_shmarray, shmpc
VARIABLES msqids, hdrs, freehdrs, nfree, given, msgpc
VARIABLES sema, sem, semtot, undo, sempc, holder, born, owed
VARIABLES execmem, header, buckets, inuse, mdp, list, size, ptr, kptr, callpc, block,
          oldptr, want
VARIABLES use, task, sys, libs, inetd, last
VARIABLE instance

mutexVars == <<initialized, oldmask, ss_Owner, ss_NestCount, p_sigmask, mutexpc,
               mutexarg, old, held>>
shmVars == <<shmlist, key, nattch, removed, segments, frees, u_shmarray, shmpc>>
msgVars == <<msqids, hdrs, freehdrs, nfree, given, msgpc>>
semVars == <<sema, sem, semtot, undo, sempc, holder, born, owed>>
memoryVars == <<execmem, header, buckets, inuse, mdp, list, size, ptr, kptr, callpc,
                block, oldptr, want>>
netVars == <<use, task, sys, libs, inetd, last>>

-----------------------------------------------------------------------------
(* Descriptors: open() and unlink() and fork() in smaller tables.              *)

U == INSTANCE Descriptors WITH
  Files <- {F, G}, Calls <- {"pipe", "creat", "unlink"}, PipeRoom <- FALSE
S == INSTANCE Descriptors WITH
  NOFILE <- 2,
  Calls <- {"open", "creat", "excl", "close", "dup", "dup2", "unlink"}
D == INSTANCE Descriptors WITH
  NOFILE <- 2, Calls <- {"creat", "close", "fork", "unlink"}

-----------------------------------------------------------------------------
(* The others.                                                                 *)

Two == {p1, p2}
Sym == Permutations(Two)

Mutex(tasks, fresh) == INSTANCE IxMutex WITH
  Tasks <- tasks, Mutexes <- {"M", "N"}, Nil <- "Nil", MaxNest <- 2, Fresh <- fresh,
  pc <- mutexpc, arg <- mutexarg

Shm(procs, calls) == INSTANCE SysvShm WITH
  Procs <- procs, Root <- P, Segs <- {"S", "R"}, Keys <- {0, 1}, Private <- 0,
  MaxAttach <- 2, DetachOwn <- TRUE, Calls <- calls, made <- segments, pc <- shmpc
Shared == {"shmget", "shmat", "shmdt", "rmid", "fork"}
Exits == {"shmget", "shmat", "shmdt", "fork", "exit"}
Alone == {"shmget", "shmat", "shmdt", "rmid", "exit"}

\* Messages of two types and sizes, and one that msgsnd() refuses; requests for
\* any message of size 1, for one type with MSG_NOERROR, and for the lowest type.
Msg == INSTANCE SysvMsg WITH
  MSGMNI <- 2, MSGTQL <- 2, MSGSEG <- 3, MSGSSZ <- 1, MSGMNB <- 3, Limits <- {1},
  Keys <- {0, 1}, Private <- 0, SEQMOD <- 4, Procs <- Two, MaxCreates <- 2,
  Cut <- FALSE, Flaws <- {}, pc <- msgpc,
  Sends <- {[type |-> 1, ts |-> 1], [type |-> 2, ts |-> 2], [type |-> 0, ts |-> 1]},
  Receives <- {[typ |-> 0, sz |-> 1, noerror |-> FALSE],
               [typ |-> 2, sz |-> 1, noerror |-> TRUE],
               [typ |-> -1, sz |-> 1, noerror |-> FALSE]}

\* A down that is undone, an up before a wait for zero that may block, a wait for
\* zero that may not, and a semaphore that no set has.
Op(n, o, u) == [num |-> n, op |-> o, undo |-> u, nowait |-> FALSE]
Sem == INSTANCE SysvSem WITH
  SEMMNI <- 2, SEMMNS <- 3, SEMMNU <- 1, SEMUME <- 1, SEQMOD <- 4, Procs <- Two,
  Keys <- {0}, Sizes <- {1, 2}, MaxVal <- 1, MaxCreates <- 2, MaxWaiters <- 1,
  Cut <- FALSE, Flaws <- {}, pc <- sempc,
  Vectors <- {<<Op(0, -1, TRUE)>>, <<Op(0, 1, TRUE), Op(1, 0, FALSE)>>,
              <<[Op(0, 0, FALSE) EXCEPT !.nowait = TRUE]>>, <<Op(2, 1, FALSE)>>}

Memory(chunks, blocks) == INSTANCE Malloc WITH
  MINLOG2 <- 2, MAXLOG2 <- 5, BUDDY_LIMIT <- 16, NCHUNKS <- chunks, Pools <- {0, 1},
  Tasks <- {"P", "T", "C"}, Process <- "P", Thread <- "T", Child <- "C",
  Sizes <- {1, 2}, Alignment <- 8, ReallocAligned <- FALSE, MaxBlocks <- blocks,
  used <- inuse, pc <- callpc, old <- oldptr
ASSUME Memory(2, 2)!BuddyAssumption

\* The installed TCP/IP software, and what the programs do besides opening,
\* connecting and closing sockets.
Installed(type, tcp, ug, sock, ops) ==
  [type |-> type, tcp |-> tcp, ug |-> ug, sock |-> sock, old |-> FALSE, ops |-> ops]
NetUses == {Installed("AUTO", TRUE, FALSE, TRUE, {"expunge", "inetd"}),
            Installed("AMITCP", TRUE, TRUE, FALSE, {"FILE", "vfork"}),
            Installed("AMITCP", TRUE, TRUE, FALSE, {"accept", "vfork"}),
            Installed("AMITCP", TRUE, TRUE, FALSE, {"expunge", "inetd"}),
            Installed("AS225", FALSE, FALSE, TRUE, {"inetd", "vfork"}),
            Installed("AS225", FALSE, FALSE, TRUE, {"alone", "data", "FILE", "USOCKET"})}
Net(nofile, nfile) == INSTANCE NetSockets WITH
  Procs <- Two, NOFILE <- nofile, NFILE <- nfile, TableSize <- 2, Uses <- NetUses,
  Flaws <- {}

-----------------------------------------------------------------------------

\* What does not move is 0.
MutexIdle ==
  /\ initialized = 0 /\ oldmask = 0 /\ ss_Owner = 0 /\ ss_NestCount = 0
  /\ p_sigmask = 0 /\ mutexpc = 0 /\ mutexarg = 0 /\ old = 0 /\ held = 0
ShmIdle ==
  /\ shmlist = 0 /\ key = 0 /\ nattch = 0 /\ removed = 0 /\ segments = 0
  /\ frees = 0 /\ u_shmarray = 0 /\ shmpc = 0
MsgIdle ==
  msqids = 0 /\ hdrs = 0 /\ freehdrs = 0 /\ nfree = 0 /\ given = 0 /\ msgpc = 0
SemIdle ==
  /\ sema = 0 /\ sem = 0 /\ semtot = 0 /\ undo = 0 /\ sempc = 0 /\ holder = 0
  /\ born = 0 /\ owed = 0
MemoryIdle ==
  /\ execmem = 0 /\ header = 0 /\ buckets = 0 /\ inuse = 0 /\ mdp = 0 /\ list = 0
  /\ size = 0 /\ ptr = 0 /\ kptr = 0 /\ callpc = 0 /\ block = 0 /\ oldptr = 0
  /\ want = 0
NetIdle == use = 0 /\ task = 0 /\ sys = 0 /\ libs = 0 /\ inetd = 0 /\ last = 0

MCInit ==
  /\ instance \in {"pipes", "full", "names", "shared", "mutex", "first", "shm",
                   "shmexit", "shmone", "msg", "sem", "memory", "tight", "net", "files"}
  /\ Init
  /\ instance \notin {"pipes", "full", "names", "shared"} => disk = {}
  /\ IF instance = "mutex" THEN Mutex(Two, {})!Init
     ELSE IF instance = "first" THEN Mutex(Two, {"M", "N"})!Init ELSE MutexIdle
  /\ IF instance \in {"shm", "shmexit", "shmone"} THEN Shm({P, Q}, Shared)!Init ELSE ShmIdle
  /\ IF instance = "msg" THEN Msg!Init ELSE MsgIdle
  /\ IF instance = "sem" THEN Sem!Init ELSE SemIdle
  /\ IF instance = "memory" THEN Memory(2, 2)!MallocInit
     ELSE IF instance = "tight" THEN Memory(1, 3)!MallocInit ELSE MemoryIdle
  /\ IF instance = "net" THEN Net(2, 3)!Init /\ "FILE" \notin use.ops
     ELSE IF instance = "files" THEN Net(3, 2)!Init /\ "expunge" \notin use.ops ELSE NetIdle

\* Only the state of Descriptors, of IxMutex, ... changes.
FilesMove ==
  UNCHANGED <<mutexVars, shmVars, msgVars, semVars, memoryVars, netVars, instance>>
MutexMoves ==
  UNCHANGED <<vars, shmVars, msgVars, semVars, memoryVars, netVars, instance>>
ShmMoves ==
  UNCHANGED <<vars, mutexVars, msgVars, semVars, memoryVars, netVars, instance>>
MsgMoves ==
  UNCHANGED <<vars, mutexVars, shmVars, semVars, memoryVars, netVars, instance>>
SemMoves ==
  UNCHANGED <<vars, mutexVars, shmVars, msgVars, memoryVars, netVars, instance>>
MemoryMoves ==
  UNCHANGED <<vars, mutexVars, shmVars, msgVars, semVars, netVars, instance>>
NetMoves ==
  UNCHANGED <<vars, mutexVars, shmVars, msgVars, semVars, memoryVars, instance>>

MCNext ==
  \/ instance = "pipes" /\ Next /\ FilesMove
  \/ instance = "full" /\ U!Next /\ FilesMove
  \/ instance = "names" /\ S!Next /\ FilesMove
  \/ instance = "shared" /\ D!Next /\ FilesMove
  \/ instance = "mutex" /\ Mutex(Two, {})!Next /\ MutexMoves
  \/ instance = "first" /\ Mutex({p1}, {"M", "N"})!Next /\ MutexMoves
  \/ instance = "shm" /\ Shm({P, Q}, Shared)!Next /\ ShmMoves
  \/ instance = "shmexit" /\ Shm({P, Q}, Exits)!Next /\ ShmMoves
  \/ instance = "shmone" /\ Shm({P}, Alone)!Next /\ ShmMoves
  \/ instance = "msg" /\ Msg!Next /\ MsgMoves
  \/ instance = "sem" /\ Sem!Next /\ SemMoves
  \/ instance = "memory" /\ Memory(2, 2)!Next /\ MemoryMoves
  \/ instance = "tight" /\ Memory(1, 3)!Next /\ MemoryMoves
  \/ instance = "net" /\ Net(2, 3)!Next /\ NetMoves
  \/ instance = "files" /\ Net(3, 2)!Next /\ NetMoves

MCSpec ==
  MCInit /\ [][MCNext]_<<vars, mutexVars, shmVars, msgVars, semVars, memoryVars,
                          netVars, instance>>

-----------------------------------------------------------------------------
(* Properties.                                                                 *)

\* CountIsReferences, as long as pipe() gets its second descriptor: when it does
\* not, the first one still points at the file that pipe() has freed.
OpenCountsAgree ==
  instance \in {"pipes", "names", "shared"} => CountIsReferences

\* UnlinkedGoes, where no process opens the name while another one closes the
\* file: __close() removes what nobody has open, and open() stores f_name late.
RemovalIsKept == (instance \in {"pipes", "full", "names"}) => UnlinkedGoes

\* Two tasks never hold a mutex at the same time, and signals are blocked exactly
\* while a task holds one.
MutualExclusion ==
  instance \in {"mutex", "first"} =>
    Mutex(Two, {})!MutualExclusion /\ Mutex(Two, {})!MaskFollowsLock

\* A segment lives as long as it has to: shm_nattch is the number of its
\* attachments in all processes, it is not deallocated while one of them has it,
\* and it is deallocated, once, when it was removed and the last one is gone.
SegmentLifetime ==
  instance \in {"shm", "shmexit", "shmone"} =>
    /\ Shm({P, Q}, Shared)!CountIsAttachments
    /\ Shm({P, Q}, Shared)!AttachedIsThere
    /\ Shm({P, Q}, Shared)!RemovedGoes

\* Message queues and semaphore sets are whole: the headers and segments of
\* messages are in one queue or free, a key leads to one queue, an identifier is
\* accepted, the sets of semaphores tile their pool, what is to be undone adds up;
\* and nobody sleeps in msgsnd(), msgrcv() or semop() on something that is there.
IpcTablesAreWhole ==
  /\ instance = "msg" =>
       /\ Msg!KeyIsUnique /\ Msg!FreshIdIsAccepted /\ Msg!QueuesAreWhole
       /\ Msg!NobodySleepsInVain
  /\ instance = "sem" => Sem!SetsTilePool /\ Sem!UndoAddsUp /\ Sem!NoSleeperForgotten

\* Memory is neither lost nor handed out twice: the blocks tile the chunks, all
\* that a process has is on its list, and behind a pointer is what was asked for.
MemoryIsWhole ==
  /\ instance = "memory" =>
       /\ Memory(2, 2)!BlocksTileChunks
       /\ Memory(2, 2)!NothingIsLost /\ Memory(2, 2)!AskedIsThere
  /\ instance = "tight" =>
       /\ Memory(1, 3)!BlocksTileChunks
       /\ Memory(1, 3)!NothingIsLost /\ Memory(1, 3)!AskedIsThere

\* The sockets that the TCP/IP library keeps for a process are those its file
\* structures hold; one that vfork() released is waited for; the libraries are
\* opened and closed in balance; a send on a broken connection raises SIGPIPE.
SocketsAreHeld ==
  /\ instance = "net" =>
       /\ Net(2, 3)!SocketsAreHeld /\ Net(2, 3)!ReleasedAreAwaited
       /\ Net(2, 3)!OpensBalance /\ Net(2, 3)!BrokenSendIsSignalled
  /\ instance = "files" =>
       /\ Net(3, 2)!SocketsAreHeld /\ Net(3, 2)!ReleasedAreAwaited
       /\ Net(3, 2)!OpensBalance /\ Net(3, 2)!BrokenSendIsSignalled
=============================================================================
