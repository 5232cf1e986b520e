----------------------------- MODULE Descriptors ----------------------------
(* File descriptors and the file structures that processes share: falloc(),    *)
(* ffree(), dup() and dup2() of library/kern_descrip.c, close() and __close(), *)
(* the descriptor side of open(), pipe() and __pclose(), what a vforked child  *)
(* inherits, and unlink() of a file that is open.                              *)
(*                                                                             *)
(* The free list is kept under the semaphore of ix_lock_base() by some callers *)
(* and under Forbid() by others, so each list operation is two steps, except   *)
(* under Forbid().                                                             *)
EXTENDS Integers, Sequences, FiniteSets

CONSTANTS
  Procs, Root,   \* processes, and the one that is there at the start
  Files,         \* file structures that kmalloc() can provide
  NOFILE,        \* descriptors per process
  Names,         \* file names
  Nil,
  Calls,         \* SUBSET CallKinds: the calls programs make
  PipeRoom       \* whether programs call pipe() only with two descriptors left

CallKinds == {"open", "creat", "excl", "close", "dup", "dup2", "pipe", "fork",
              "unlink"}
Fds == 0 .. NOFILE - 1

ASSUME DescriptorsAssumption ==
  /\ Root \in Procs /\ NOFILE \in Nat /\ PipeRoom \in BOOLEAN /\ Calls \subseteq CallKinds
  /\ Nil \notin Procs \cup Files \cup Names

VARIABLES
  u_ofile,         \* the descriptor table of each process
  f_count, f_name, f_pipe, f_unlink,  \* of struct file; f_unlink is FUNLINK
  f_fh,            \* the name of the AmigaDOS file that is open behind it
  free, used,      \* ix_free_file_list, ix_used_file_list
  made,            \* the file structures that kmalloc() has provided
  base,            \* the owner of the semaphore of ix_lock_base()
  disk,            \* the names that exist
  pc, todo,        \* where a process is, and how it goes on after a shared part
  fp, fd, saved,   \* its file, descriptor, and what it has read of the free list
  arg,             \* the arguments of its call
  unlinked         \* history: names that unlink() removed and nobody made again

fileVars == <<f_count, f_name, f_pipe, f_unlink, f_fh>>
listVars == <<free, used, made>>
localVars == <<todo, fp, fd, saved, arg>>
vars == <<u_ofile, fileVars, listVars, base, disk, pc, localVars, unlinked>>

NoArg == [name |-> Nil, creat |-> FALSE, excl |-> FALSE, from |-> 0,
          first |-> Nil]
Range(s) == {s[i] : i \in DOMAIN s}

Init ==
  /\ u_ofile = [p \in Procs |-> [i \in Fds |-> Nil]]
  /\ f_count = [f \in Files |-> 0] /\ f_name = [f \in Files |-> Nil]
  /\ f_pipe = [f \in Files |-> FALSE] /\ f_unlink = [f \in Files |-> FALSE]
  /\ f_fh = [f \in Files |-> Nil] /\ made = {}
  /\ free = <<>> /\ used = {} /\ base = Nil
  /\ disk \in SUBSET Names /\ unlinked = {}
  /\ pc = [p \in Procs |-> IF p = Root THEN "run" ELSE "unused"]
  /\ todo = [p \in Procs |-> "run"] /\ fp = [p \in Procs |-> Nil]
  /\ fd = [p \in Procs |-> 0] /\ saved = [p \in Procs |-> <<>>]
  /\ arg = [p \in Procs |-> NoArg]

Goto(p, l) == pc' = [pc EXCEPT ![p] = l]

\* A call is over: its variables are forgotten.
Finish(p) ==
  /\ Goto(p, "run")
  /\ todo' = [todo EXCEPT ![p] = "run"] /\ fp' = [fp EXCEPT ![p] = Nil]
  /\ fd' = [fd EXCEPT ![p] = 0] /\ saved' = [saved EXCEPT ![p] = <<>>]
  /\ arg' = [arg EXCEPT ![p] = NoArg]

Lock(p) == base = Nil /\ base' = p
Unlock(p) == base' = Nil

-----------------------------------------------------------------------------
(* falloc() and ffree().                                                       *)

\* ufalloc(): the lowest free descriptor, NOFILE when there is none.
ufalloc(p) ==
  LET S == {i \in Fds : u_ofile[p][i] = Nil} IN
  IF S = {} THEN NOFILE ELSE CHOOSE i \in S : \A j \in S : i <= j

\* falloc() up to the read of the head of the free list.
fallocBegin(p) ==
  /\ pc[p] = "falloc" /\ ufalloc(p) < NOFILE
  /\ Lock(p)
  /\ fd' = [fd EXCEPT ![p] = ufalloc(p)]
  /\ \/ /\ free # <<>>
        /\ saved' = [saved EXCEPT ![p] = free]
        /\ Goto(p, "remhead")
     \/ /\ free = <<>>
        /\ UNCHANGED saved
        /\ Goto(p, "kmalloc")
  /\ UNCHANGED <<u_ofile, fileVars, listVars, disk, todo, fp, arg, unlinked>>

\* falloc(), slot: the descriptor refers to the file.
Slot(p, f) ==
  /\ u_ofile' = [u_ofile EXCEPT ![p][fd[p]] = f]
  /\ used' = used \cup {f}
  /\ f_count' = [f_count EXCEPT ![f] = 1]
  /\ f_name' = [f_name EXCEPT ![f] = Nil]
  /\ fp' = [fp EXCEPT ![p] = f]

\* falloc(): REMHEAD() of the list as it was read.
fallocCached(p) ==
  /\ pc[p] = "remhead"
  /\ free' = Tail(saved[p])
  /\ Slot(p, Head(saved[p]))
  /\ Unlock(p)
  /\ saved' = [saved EXCEPT ![p] = <<>>]
  /\ Goto(p, todo[p])
  /\ UNCHANGED <<f_pipe, f_unlink, f_fh, made, disk, todo, fd, arg, unlinked>>

\* falloc(): a new file structure.
fallocNew(p) ==
  /\ pc[p] = "kmalloc"
  /\ \E f \in Files \ made : Slot(p, f) /\ made' = made \cup {f}
  /\ Unlock(p)
  /\ Goto(p, todo[p])
  /\ UNCHANGED <<f_pipe, f_unlink, f_fh, free, disk, todo, fd, saved, arg, unlinked>>

\* falloc() fails: EMFILE, or ENOMEM under the semaphore.
fallocFails(p) ==
  /\ \/ pc[p] = "falloc" /\ ufalloc(p) = NOFILE /\ UNCHANGED base
     \/ pc[p] = "kmalloc" /\ made = Files /\ Unlock(p)
  /\ IF todo[p] = "pipe2" THEN /\ Goto(p, "pipefail")
                               /\ UNCHANGED localVars
                          ELSE Finish(p)
  /\ UNCHANGED <<u_ofile, fileVars, listVars, disk, unlinked>>

\* ffree(): the head of the free list is read.
ffree(p) ==
  /\ pc[p] = "ffree"
  /\ saved' = [saved EXCEPT ![p] = free]
  /\ Goto(p, "addhead")
  /\ UNCHANGED <<u_ofile, fileVars, listVars, base, disk, todo, fp, fd, arg, unlinked>>

\* A faulty ffreeEnd: the rest of the free list is forgotten.
ffreeEndDrops(p) ==
  /\ pc[p] = "addhead"
  /\ free' = <<fp[p]>>
  /\ used' = used \ {fp[p]}
  /\ base' = IF base = p /\ todo[p] # "dup2" THEN Nil ELSE base
  /\ u_ofile' = IF todo[p] = "openfail" THEN [u_ofile EXCEPT ![p][fd[p]] = Nil]
                ELSE u_ofile
  /\ IF todo[p] = "dup2" THEN /\ Goto(p, "dup2")
                              /\ saved' = [saved EXCEPT ![p] = <<>>]
                              /\ UNCHANGED <<todo, fp, fd, arg>>
                         ELSE Finish(p)
  /\ UNCHANGED <<fileVars, made, disk, unlinked>>

\* ffree(): ADDHEAD() to the list as it was read; then __close() unlocks, dup2()
\* goes on, and a failed open() or pipe() is done.
ffreeEnd(p) ==
  /\ pc[p] = "addhead"
  /\ free' = <<fp[p]>> \o saved[p]
  /\ used' = used \ {fp[p]}
  /\ base' = IF base = p /\ todo[p] # "dup2" THEN Nil ELSE base
  /\ u_ofile' = IF todo[p] = "openfail" THEN [u_ofile EXCEPT ![p][fd[p]] = Nil]
                ELSE u_ofile
  /\ IF todo[p] = "dup2" THEN /\ Goto(p, "dup2")
                              /\ saved' = [saved EXCEPT ![p] = <<>>]
                              /\ UNCHANGED <<todo, fp, fd, arg>>
                         ELSE Finish(p)
  /\ UNCHANGED <<fileVars, made, disk, unlinked>>

-----------------------------------------------------------------------------
(* open(), pipe(), dup() and what a child inherits.                            *)

open(p, n, creat, excl) ==
  /\ pc[p] = "run" /\ (excl => creat)
  /\ (IF excl THEN "excl" ELSE IF creat THEN "creat" ELSE "open") \in Calls
  /\ arg' = [arg EXCEPT ![p] = [NoArg EXCEPT !.name = n, !.creat = creat,
                                             !.excl = excl]]
  /\ todo' = [todo EXCEPT ![p] = "open"]
  /\ Goto(p, "falloc")
  /\ UNCHANGED <<u_ofile, fileVars, listVars, base, disk, fp, fd, saved, unlinked>>

\* open() between stat() and __open(), under namedsem: the file is opened, or the
\* error path drops the count without the semaphore of ix_lock_base().
openFile(p) ==
  LET n == arg[p].name
      ok == IF n \in disk THEN ~arg[p].excl ELSE arg[p].creat IN
  /\ pc[p] = "open"
  /\ IF ok
       THEN /\ disk' = disk \cup {n}
            /\ unlinked' = IF n \in disk THEN unlinked ELSE unlinked \ {n}
            /\ f_fh' = [f_fh EXCEPT ![fp[p]] = n]
            /\ f_unlink' = [f_unlink EXCEPT ![fp[p]] = FALSE]
            /\ Goto(p, "opened")
            /\ UNCHANGED <<f_count, todo>>
       ELSE /\ f_count' = [f_count EXCEPT ![fp[p]] = @ - 1]
            /\ todo' = [todo EXCEPT ![p] = "openfail"]
            /\ Goto(p, "ffree")
            /\ UNCHANGED <<disk, unlinked, f_fh, f_unlink>>
  /\ UNCHANGED <<u_ofile, f_name, f_pipe, listVars, base, fp, fd, saved, arg>>

\* open(): the file gets its functions and its name, which unlink() looks for.
openName(p) ==
  /\ pc[p] = "opened"
  /\ f_name' = [f_name EXCEPT ![fp[p]] = arg[p].name]
  /\ f_pipe' = [f_pipe EXCEPT ![fp[p]] = FALSE]
  /\ Finish(p)
  /\ UNCHANGED <<u_ofile, f_count, f_unlink, f_fh, listVars, base, disk, unlinked>>

pipe(p) ==
  /\ pc[p] = "run" /\ "pipe" \in Calls
  /\ PipeRoom => \E i, j \in Fds : i # j /\ u_ofile[p][i] = Nil /\ u_ofile[p][j] = Nil
  /\ todo' = [todo EXCEPT ![p] = "pipe1"]
  /\ Goto(p, "falloc")
  /\ UNCHANGED <<u_ofile, fileVars, listVars, base, disk, fp, fd, saved, arg, unlinked>>

\* pipe(): the first file is there, the second is asked for.
pipeSecond(p) ==
  /\ pc[p] = "pipe1"
  /\ arg' = [arg EXCEPT ![p].first = fp[p]]
  /\ todo' = [todo EXCEPT ![p] = "pipe2"]
  /\ Goto(p, "falloc")
  /\ UNCHANGED <<u_ofile, fileVars, listVars, base, disk, fp, fd, saved, unlinked>>

\* pipe(): both are there.
pipeEnd(p) ==
  /\ pc[p] = "pipe2"
  /\ f_pipe' = [f_pipe EXCEPT ![fp[p]] = TRUE, ![arg[p].first] = TRUE]
  /\ f_unlink' = [f_unlink EXCEPT ![fp[p]] = FALSE, ![arg[p].first] = FALSE]
  /\ Finish(p)
  /\ UNCHANGED <<u_ofile, f_count, f_name, f_fh, listVars, base, disk, unlinked>>

\* A faulty pipeFail: the count is taken down for both ends.
pipeFailBoth(p) ==
  /\ pc[p] = "pipefail"
  /\ f_count' = [f_count EXCEPT ![arg[p].first] = @ - 2]
  /\ fp' = [fp EXCEPT ![p] = arg[p].first]
  /\ todo' = [todo EXCEPT ![p] = "run"]
  /\ Goto(p, "ffree")
  /\ UNCHANGED <<u_ofile, f_name, f_pipe, f_unlink, f_fh, listVars, base, disk, fd, saved,
                 arg, unlinked>>

\* pipe(): the second falloc() failed; the first file is freed.
pipeFail(p) ==
  /\ pc[p] = "pipefail"
  /\ f_count' = [f_count EXCEPT ![arg[p].first] = 0]
  /\ fp' = [fp EXCEPT ![p] = arg[p].first]
  /\ todo' = [todo EXCEPT ![p] = "run"]
  /\ Goto(p, "ffree")
  /\ UNCHANGED <<u_ofile, f_name, f_pipe, f_unlink, f_fh, listVars, base, disk, fd, saved,
                 arg, unlinked>>

\* A faulty dup: the file is not counted.
dupUncounted(p, i) ==
  /\ pc[p] = "run" /\ "dup" \in Calls /\ u_ofile[p][i] # Nil /\ ufalloc(p) < NOFILE
  /\ u_ofile' = [u_ofile EXCEPT ![p][ufalloc(p)] = u_ofile[p][i]]
  /\ UNCHANGED <<fileVars, listVars, base, disk, pc, localVars, unlinked>>

\* dup(), and fcntl() F_DUPFD.
dup(p, i) ==
  /\ pc[p] = "run" /\ "dup" \in Calls /\ u_ofile[p][i] # Nil /\ ufalloc(p) < NOFILE
  /\ u_ofile' = [u_ofile EXCEPT ![p][ufalloc(p)] = u_ofile[p][i]]
  /\ f_count' = [f_count EXCEPT ![u_ofile[p][i]] = @ + 1]
  /\ UNCHANGED <<f_name, f_pipe, f_unlink, f_fh, listVars, base, disk, pc, localVars,
                 unlinked>>

\* The files of a vforked child: launcher() counts each descriptor.
fork(p, c) ==
  /\ pc[p] = "run" /\ "fork" \in Calls /\ pc[c] = "unused" /\ base = Nil
  /\ u_ofile' = [u_ofile EXCEPT ![c] = u_ofile[p]]
  /\ f_count' = [f \in Files |->
                   f_count[f] + Cardinality({i \in Fds : u_ofile[p][i] = f})]
  /\ Goto(c, "run")
  /\ UNCHANGED <<f_name, f_pipe, f_unlink, f_fh, listVars, base, disk, localVars, unlinked>>

-----------------------------------------------------------------------------
(* close() and unlink().                                                       *)

close(p, i) ==
  /\ pc[p] = "run" /\ "close" \in Calls /\ u_ofile[p][i] # Nil
  /\ u_ofile' = [u_ofile EXCEPT ![p][i] = Nil]
  /\ fp' = [fp EXCEPT ![p] = u_ofile[p][i]]
  /\ Goto(p, "close")
  /\ UNCHANGED <<fileVars, listVars, base, disk, todo, fd, saved, arg, unlinked>>

\* dup2() up to the f_close() of the old file.
dup2(p, i, j) ==
  /\ pc[p] = "run" /\ "dup2" \in Calls /\ u_ofile[p][i] # Nil /\ i # j
  /\ Lock(p)
  /\ fd' = [fd EXCEPT ![p] = j]
  /\ arg' = [arg EXCEPT ![p].from = i]
  /\ IF u_ofile[p][j] = Nil
       THEN Goto(p, "dup2") /\ UNCHANGED <<fp, todo>>
       ELSE /\ fp' = [fp EXCEPT ![p] = u_ofile[p][j]]
            /\ todo' = [todo EXCEPT ![p] = "dup2"]
            /\ Goto(p, "close")
  /\ UNCHANGED <<u_ofile, fileVars, listVars, disk, saved, unlinked>>

\* dup2(): the new descriptor.
dup2End(p) ==
  LET f == u_ofile[p][arg[p].from] IN
  /\ pc[p] = "dup2"
  /\ u_ofile' = [u_ofile EXCEPT ![p][fd[p]] = f]
  /\ f_count' = [f_count EXCEPT ![f] = @ + 1]
  /\ Unlock(p)
  /\ Finish(p)
  /\ UNCHANGED <<f_name, f_pipe, f_unlink, f_fh, listVars, disk, unlinked>>

\* The end of f_close(): close() returns or dup2() goes on.
CloseReturns(p) ==
  IF todo[p] = "dup2" THEN Goto(p, "dup2") /\ UNCHANGED <<base, localVars>>
  ELSE base' = (IF base = p THEN Nil ELSE base) /\ Finish(p)

\* __close() and __pclose() of a file that others refer to.
closeShared(p) ==
  /\ pc[p] = "close"
  /\ IF f_pipe[fp[p]] THEN f_count[fp[p]] # 1
                      ELSE f_count[fp[p]] > 1 /\ base \in {Nil, p}
  /\ f_count' = [f_count EXCEPT ![fp[p]] = @ - 1]
  /\ CloseReturns(p)
  /\ UNCHANGED <<u_ofile, f_name, f_pipe, f_unlink, f_fh, listVars, disk, unlinked>>

\* A faulty closeLast: FUNLINK is not looked at.
closeLastKeeps(p) ==
  /\ pc[p] = "close" /\ f_count[fp[p]] <= 1 /\ ~f_pipe[fp[p]]
  /\ base \in {Nil, p} /\ base' = p
  /\ f_count' = [f_count EXCEPT ![fp[p]] = @ - 1]
  /\ f_fh' = [f_fh EXCEPT ![fp[p]] = Nil]
  /\ Goto(p, "ffree")
  /\ UNCHANGED <<u_ofile, f_name, f_pipe, f_unlink, listVars, disk, localVars, unlinked>>

\* __close() of the last reference: Close(), then the unlink() that was put off.
\* ix_lock_base() nests: dup2() already holds it.
closeLast(p) ==
  LET f == fp[p] IN
  /\ pc[p] = "close" /\ f_count[f] <= 1 /\ ~f_pipe[f]
  /\ base \in {Nil, p} /\ base' = p
  /\ f_count' = [f_count EXCEPT ![f] = @ - 1]
  /\ f_fh' = [f_fh EXCEPT ![f] = Nil]
  /\ IF f_unlink[f]
       THEN arg' = [arg EXCEPT ![p].name = f_name[f]] /\ Goto(p, "unlink")
       ELSE UNCHANGED arg /\ Goto(p, "ffree")
  /\ UNCHANGED <<u_ofile, f_name, f_pipe, f_unlink, listVars, disk, todo, fp, fd,
                 saved, unlinked>>

\* __pclose() of the last reference, under Forbid().
pcloseLast(p) ==
  LET f == fp[p] IN
  /\ pc[p] = "close" /\ f_count[f] = 1 /\ f_pipe[f]
  /\ f_count' = [f_count EXCEPT ![f] = @ - 1]
  /\ free' = <<f>> \o free
  /\ used' = used \ {f}
  /\ CloseReturns(p)
  /\ UNCHANGED <<u_ofile, f_name, f_pipe, f_unlink, f_fh, made, disk, unlinked>>

unlink(p, n) ==
  /\ pc[p] = "run" /\ "unlink" \in Calls
  /\ arg' = [arg EXCEPT ![p].name = n]
  /\ Goto(p, "unlink")
  /\ UNCHANGED <<u_ofile, fileVars, listVars, base, disk, todo, fp, fd, saved, unlinked>>

\* unlink() returns to the program, or to __close(), which frees its file.
UnlinkReturns(p) ==
  IF fp[p] = Nil THEN Finish(p) ELSE Goto(p, "ffree") /\ UNCHANGED localVars

\* unlink(): a file that is open is marked instead.
unlinkScan(p) ==
  LET n == arg[p].name
      named == {f \in used : f_count[f] > 0 /\ f_name[f] = n} IN
  /\ pc[p] = "unlink" /\ base \in {Nil, p}
  /\ IF named = {}
       THEN Goto(p, "delete") /\ UNCHANGED <<localVars, f_unlink, unlinked>>
       ELSE /\ \E f \in named : f_unlink' = [f_unlink EXCEPT ![f] = TRUE]
            /\ unlinked' = unlinked \cup {n}
            /\ UnlinkReturns(p)
  /\ UNCHANGED <<u_ofile, f_count, f_name, f_pipe, f_fh, listVars, base, disk>>

\* unlink(): DeleteFile(), which refuses a file that is open.
unlinkDelete(p) ==
  LET n == arg[p].name IN
  /\ pc[p] = "delete"
  /\ IF n \in disk /\ \A f \in Files : f_fh[f] # n
       THEN disk' = disk \ {n} /\ unlinked' = unlinked \cup {n}
       ELSE UNCHANGED <<disk, unlinked>>
  /\ UnlinkReturns(p)
  /\ UNCHANGED <<u_ofile, fileVars, listVars, base>>

-----------------------------------------------------------------------------
Step(p) ==
  \/ fallocBegin(p) \/ fallocCached(p) \/ fallocNew(p) \/ fallocFails(p)
  \/ ffree(p) \/ ffreeEnd(p) \/ openFile(p) \/ openName(p)
  \/ pipeSecond(p) \/ pipeEnd(p) \/ pipeFail(p) \/ dup2End(p)
  \/ closeShared(p) \/ closeLast(p) \/ pcloseLast(p)
  \/ unlinkScan(p) \/ unlinkDelete(p)

Call(p) ==
  \/ \E n \in Names, creat, excl \in BOOLEAN : open(p, n, creat, excl)
  \/ pipe(p)
  \/ \E i \in Fds : dup(p, i) \/ close(p, i)
  \/ \E i, j \in Fds : dup2(p, i, j)
  \/ \E c \in Procs : fork(p, c)
  \/ \E n \in Names : unlink(p, n)

Next == \E p \in Procs : Step(p) \/ Call(p)

Spec == Init /\ [][Next]_vars

-----------------------------------------------------------------------------
(* Properties.                                                                 *)

\* Every variable of the descriptor tables and file lists is of its type.
TypeOK ==
  /\ u_ofile \in [Procs -> [Fds -> Files \cup {Nil}]]
  /\ f_count \in [Files -> Nat] /\ f_name \in [Files -> Names \cup {Nil}]
  /\ f_fh \in [Files -> Names \cup {Nil}] /\ made \subseteq Files
  /\ f_pipe \in [Files -> BOOLEAN] /\ f_unlink \in [Files -> BOOLEAN]
  /\ Range(free) \subseteq Files /\ used \subseteq Files
  /\ base \in Procs \cup {Nil} /\ disk \subseteq Names /\ unlinked \subseteq Names
  /\ fp \in [Procs -> Files \cup {Nil}] /\ fd \in [Procs -> 0 .. NOFILE]

\* The descriptors that refer to a file; a descriptor that open() or dup2() is
\* about to overwrite no longer counts, a file that close() has in hand does.
InHand(p, i) ==
  /\ fd[p] = i
  /\ \/ todo[p] = "openfail"
     \/ todo[p] = "dup2" /\ pc[p] # "close"
Refs(f) ==
  Cardinality({<<p, i>> \in Procs \X Fds : u_ofile[p][i] = f /\ ~InHand(p, i)})
  + Cardinality({p \in Procs : pc[p] = "close" /\ fp[p] = f /\ todo[p] # "dup2"})

\* f_count is the number of descriptors that refer to the file, in all processes
\* together: close() neither frees a file that is in use nor keeps one that is
\* not.
CountIsReferences == \A f \in Files : f_count[f] = Refs(f)

\* A file in the free list is not in use, and in the list once: falloc() does
\* not hand it to two opens.
FreeIsUnused ==
  /\ \A f \in Range(free) : f_count[f] = 0 /\ f \notin used
  /\ \A i, j \in DOMAIN free : i # j => free[i] # free[j]

\* A file structure is never lost: it is in use or in the free list, to be used
\* again, unless somebody is just moving it.
ClosedIsCached ==
  \A f \in made : \/ f \in used \cup Range(free)
                  \/ \E p \in Procs : pc[p] \in {"remhead", "addhead"}

\* Every file structure is in use or free, and not both: the two properties above.
FreeOrUsed == FreeIsUnused /\ ClosedIsCached

\* The removal of a file that was open is not forgotten: once nobody has it
\* open, the name that unlink() removed is gone.
UnlinkedGoes ==
  \A n \in unlinked \cap disk : \/ \E f \in Files : f_fh[f] = n
                            \/ \E p \in Procs : arg[p].name = n

\* A file that somebody has is not in the free list: as the comment of open()
\* says, no other process gets it with falloc().
NobodyElseGetsIt == \A f \in Range(free) : f_count[f] = 0

\* A name that unlink() removed is not there.
NameIsRemoved == unlinked \cap disk = {}
=============================================================================
