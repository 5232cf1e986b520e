------------------------------- MODULE Process ------------------------------
(* The life of processes: vfork(), the launcher of the child, vfork_resume(),  *)
(* wait4() and the death message of library/vfork.c, exit() of library/exit.c  *)
(* and the unlinking of ix_close() in library/ix_close_68k.c.                  *)
(*                                                                             *)
(* Tasks are preempted between any two steps, except that a task under         *)
(* Forbid() runs alone until it waits.  No process is traced, and the memory   *)
(* of a process that is gone is not used again: its fields keep their values.  *)
EXTENDS Integers, Sequences, FiniteSets

CONSTANTS
  Procs,       \* processes that may come into being
  Root,        \* the one started from the shell
  Nil, One,    \* the null pointer, and the process id 1 of "init"
  Calls,       \* SUBSET CallKinds: the calls programs make
  Waits,       \* the w argument of wait4()
  ForkAfterWait,\* do programs call vfork() after wait4() returned a child
  Pgrps,       \* SUBSET Procs: the groups given to setpgid()
  Catches,     \* SUBSET Procs: those that catch SIGCHLD
  Interrupted, \* SUBSET Procs: those that get other signals they catch
  Failures,    \* SUBSET FailureKinds: what may fail
  Contended,   \* may ix_close() have to wait, which breaks the Forbid()
  CtrlC        \* does a dying process get SIGBREAKF_CTRL_C

CallKinds == {"vfork", "resume", "exit", "wait4", "WNOHANG", "setpgid"}
FailureKinds == {"create", "open", "dm"}

ASSUME ProcessAssumption ==
  /\ Root \in Procs /\ Nil \notin Procs /\ One \notin Procs /\ Nil # One
  /\ Calls \subseteq CallKinds /\ Failures \subseteq FailureKinds
  /\ Pgrps \subseteq Procs /\ Catches \subseteq Procs
  /\ Interrupted \subseteq Procs
  /\ ForkAfterWait \in BOOLEAN /\ Contended \in BOOLEAN /\ CtrlC \in BOOLEAN

VARIABLES
  pc,
  p_pptr, p_cptr, p_osptr, p_ysptr, p_pgrp,  \* of struct user
  zombies,     \* p_zombies: death messages [child, pgrp]
  zomb,        \* p_stat = SZOMB
  sleepSig,    \* the exec signal bit u_sleep_sig
  ctrl,        \* SIGBREAKF_CTRL_C
  sig,         \* a caught signal is pending
  vm, kid,     \* the vfork message of a child; the child vfork() waits for
  base,        \* the owner of the semaphore of ix_lock_base()
  forbid,      \* the task that is under Forbid() and does not wait
  want,        \* the arguments of the wait4() in progress
  ret,         \* the result of the last call
  reported, intr \* history: children wait4() has returned; has a handler run
                 \* during the wait4() in progress

links == <<p_pptr, p_cptr, p_osptr, p_ysptr>>
sigVars == <<sleepSig, ctrl, sig>>
forkVars == <<vm, kid, base>>
waitVars == <<want, intr>>
vars == <<pc, links, p_pgrp, zombies, zomb, sigVars, forkVars, forbid, waitVars,
          ret, reported>>

Linked == {"run", "vfork", "wait4", "sleep", "exit", "dm", "close"}
Labels == Linked \cup {"unused", "launch", "link1", "link2", "link3", "gone"}
Results == Procs \cup {"none", "0", "error", "ECHILD"}
WaitArgs == [kind : {"any", "own", "pid", "pgrp"}, id : Procs]
NoWait == [w |-> [kind |-> "any", id |-> Root], nohang |-> FALSE]

Init ==
  /\ pc = [p \in Procs |-> IF p = Root THEN "run" ELSE "unused"]
  /\ p_pptr = [p \in Procs |-> One]
  /\ p_cptr = [p \in Procs |-> Nil] /\ p_osptr = [p \in Procs |-> Nil]
  /\ p_ysptr = [p \in Procs |-> Nil] /\ p_pgrp = [p \in Procs |-> p]
  /\ zombies = [p \in Procs |-> <<>>] /\ zomb = [p \in Procs |-> FALSE]
  /\ sleepSig = [p \in Procs |-> FALSE] /\ ctrl = [p \in Procs |-> FALSE]
  /\ sig = [p \in Procs |-> FALSE]
  /\ vm = [p \in Procs |-> "none"] /\ kid = [p \in Procs |-> Nil]
  /\ base = Nil /\ forbid = Nil
  /\ want = [p \in Procs |-> NoWait] /\ intr = [p \in Procs |-> FALSE]
  /\ ret = [p \in Procs |-> "none"] /\ reported = [p \in Procs |-> 0]

\* p is at l and may run: no other task is under Forbid().
At(p, l) == pc[p] = l /\ forbid \in {Nil, p}
Goto(p, l) == pc' = [pc EXCEPT ![p] = l]

\* The parent in whose vfork() the child c was made: vm_pptr.
Forker(c) == CHOOSE p \in Procs : kid[p] = c

-----------------------------------------------------------------------------
(* vfork(): the parent waits until the child replies to its message.           *)

\* _vfork(): no memory, or CreateNewProc() fails.
vforkFails(p) ==
  /\ At(p, "run") /\ "vfork" \in Calls /\ "create" \in Failures
  /\ ret' = [ret EXCEPT ![p] = "error"]
  /\ UNCHANGED <<pc, links, p_pgrp, zombies, zomb, sigVars, forkVars, forbid,
                 waitVars, reported>>

\* _vfork() up to WaitPort(): from here on every signal is masked.
vfork(p, c) ==
  /\ At(p, "run") /\ "vfork" \in Calls /\ pc[c] = "unused"
  /\ ForkAfterWait \/ \A q \in Procs : p_pptr[q] = p => reported[q] = 0
  /\ pc' = [pc EXCEPT ![p] = "vfork", ![c] = "launch"]
  /\ vm' = [vm EXCEPT ![c] = "sent"]
  /\ kid' = [kid EXCEPT ![p] = c]
  /\ UNCHANGED <<links, p_pgrp, zombies, zomb, sigVars, base, forbid, waitVars,
                 ret, reported>>

\* launcher(): OpenLibrary() failed.
launcherFails(c) ==
  /\ At(c, "launch") /\ "open" \in Failures
  /\ vm' = [vm EXCEPT ![c] = "failed"]
  /\ Goto(c, "gone")
  /\ UNCHANGED <<links, p_pgrp, zombies, zomb, sigVars, kid, base, forbid, waitVars,
                 ret, reported>>

\* launcher(): the library is open, ix_lock_base().
launcher(c) ==
  /\ At(c, "launch") /\ base = Nil
  /\ base' = c
  /\ Goto(c, "link1")
  /\ UNCHANGED <<links, p_pgrp, zombies, zomb, sigVars, vm, kid, forbid, waitVars,
                 ret, reported>>

\* launcher(): mu->p_osptr = pu->p_cptr.
linkOlder(c) ==
  /\ At(c, "link1")
  /\ p_osptr' = [p_osptr EXCEPT ![c] = p_cptr[Forker(c)]]
  /\ p_ysptr' = [p_ysptr EXCEPT ![c] = Nil]
  /\ Goto(c, "link2")
  /\ UNCHANGED <<p_pptr, p_cptr, p_pgrp, zombies, zomb, sigVars, forkVars, forbid,
                 waitVars, ret, reported>>

\* launcher(): the older sibling's p_ysptr.
linkYounger(c) ==
  /\ At(c, "link2")
  /\ p_ysptr' = IF p_osptr[c] = Nil THEN p_ysptr
                ELSE [p_ysptr EXCEPT ![p_osptr[c]] = c]
  /\ Goto(c, "link3")
  /\ UNCHANGED <<p_pptr, p_cptr, p_osptr, p_pgrp, zombies, zomb, sigVars, forkVars,
                 forbid, waitVars, ret, reported>>

\* launcher(): the parent's p_cptr, what is inherited, ix_unlock_base(), and
\* the jump into the program, which now runs in the memory of the parent.
linkParent(c) ==
  LET p == Forker(c) IN
  /\ At(c, "link3")
  /\ p_cptr' = [p_cptr EXCEPT ![p] = c]
  /\ p_pptr' = [p_pptr EXCEPT ![c] = p]
  /\ p_pgrp' = [p_pgrp EXCEPT ![c] = p_pgrp[p]]
  /\ base' = Nil
  /\ vm' = [vm EXCEPT ![c] = "held"]
  /\ Goto(c, "run")
  /\ UNCHANGED <<p_osptr, p_ysptr, zombies, zomb, sigVars, kid, forbid, waitVars,
                 ret, reported>>

\* vfork_resume(), also on behalf of execve(): memory of its own, then the reply.
vfork_resume(c) ==
  /\ At(c, "run") /\ "resume" \in Calls /\ vm[c] = "held"
  /\ vm' = [vm EXCEPT ![c] = "replied"]
  /\ UNCHANGED <<pc, links, p_pgrp, zombies, zomb, sigVars, kid, base, forbid,
                 waitVars, ret, reported>>

\* A faulty vforkReturn: the parent does not wait for the reply.
vforkReturnEarly(p) ==
  /\ At(p, "vfork") /\ vm[kid[p]] \in {"held", "replied", "failed"}
  /\ ret' = [ret EXCEPT ![p] = kid[p]]
  /\ vm' = [vm EXCEPT ![kid[p]] = IF @ = "held" THEN @ ELSE "none"]
  /\ kid' = [kid EXCEPT ![p] = Nil]
  /\ Goto(p, "run")
  /\ UNCHANGED <<links, p_pgrp, zombies, zomb, sigVars, base, forbid, waitVars,
                 reported>>

\* A faulty vforkReturn: the message is read after it has been cleared.
vforkReturnLate(p) ==
  /\ At(p, "vfork") /\ vm[kid[p]] \in {"replied", "failed"}
  /\ vm' = [vm EXCEPT ![kid[p]] = "none"]
  /\ kid' = [kid EXCEPT ![p] = Nil]
  /\ ret' = [ret EXCEPT ![p] = kid'[p]]
  /\ Goto(p, "run")
  /\ UNCHANGED <<links, p_pgrp, zombies, zomb, sigVars, base, forbid, waitVars,
                 reported>>

\* _vfork() after WaitPort(): the old mask is back; child is vm_self whatever
\* vm_rc is.
vforkReturn(p) ==
  /\ At(p, "vfork") /\ vm[kid[p]] \in {"replied", "failed"}
  /\ ret' = [ret EXCEPT ![p] = kid[p]]
  /\ vm' = [vm EXCEPT ![kid[p]] = "none"]
  /\ kid' = [kid EXCEPT ![p] = Nil]
  /\ Goto(p, "run")
  /\ UNCHANGED <<links, p_pgrp, zombies, zomb, sigVars, base, forbid, waitVars,
                 reported>>

-----------------------------------------------------------------------------
(* exit(): the death message, and ix_close().                                  *)

\* exit() and _exit(): signals are ignored, files closed, memory freed.
exit(p) ==
  /\ At(p, "run") /\ "exit" \in Calls
  /\ ret' = [ret EXCEPT ![p] = "none"]
  /\ sig' = [sig EXCEPT ![p] = FALSE]
  /\ Goto(p, "exit")
  /\ UNCHANGED <<links, p_pgrp, zombies, zomb, sleepSig, ctrl, forkVars, forbid,
                 waitVars, reported>>

\* A faulty TellParent: it relies on SIGCHLD to wake the parent.
TellParentBySignal(p) ==
  LET told == p \in Catches /\ pc[p] \notin {"exit", "dm", "close"} IN
  /\ sig' = [sig EXCEPT ![p] = @ \/ told]
  /\ sleepSig' = [sleepSig EXCEPT ![p] = @ \/ (told /\ pc[p] = "sleep")]

\* _psignal(pu, SIGCHLD), and the wakeup "by hand" of a wait4().
TellParent(p) ==
  /\ sig' = [sig EXCEPT ![p] = @ \/ (p \in Catches
                                     /\ pc[p] \notin {"exit", "dm", "close"})]
  /\ sleepSig' = [sleepSig EXCEPT ![p] = @ \/ pc[p] = "sleep"]

\* send_death_msg(), under Forbid(), and the sleep on the message: without
\* memory for it there is neither message nor sleep.
send_death_msg(p) ==
  /\ At(p, "exit") /\ p_pptr[p] # One
  /\ \/ /\ zombies' = [zombies EXCEPT ![p_pptr[p]] =
                         Append(@, [child |-> p, pgrp |-> p_pgrp[p]])]
        /\ Goto(p, "dm") /\ forbid' = Nil
     \/ /\ "dm" \in Failures
        /\ Goto(p, "close") /\ forbid' = p
        /\ UNCHANGED zombies
  /\ TellParent(p_pptr[p])
  /\ vm' = [vm EXCEPT ![p] = IF @ = "held" THEN "replied" ELSE @]
  /\ UNCHANGED <<links, p_pgrp, zomb, ctrl, kid, base, waitVars, ret, reported>>

\* launcher() or ix_startup(), when there is no parent to tell.
exitOrphan(p) ==
  /\ At(p, "exit") /\ p_pptr[p] = One
  /\ Goto(p, "close") /\ forbid' = p
  /\ UNCHANGED <<links, p_pgrp, zombies, zomb, sigVars, forkVars, waitVars, ret,
                 reported>>

\* The sleep on the death message ends; tsleep() sets p_stat = SRUN.
dmWake(p) ==
  /\ At(p, "dm") /\ (sleepSig[p] \/ ctrl[p])
  /\ sleepSig' = [sleepSig EXCEPT ![p] = FALSE]
  /\ ctrl' = [ctrl EXCEPT ![p] = FALSE]
  /\ zomb' = [zomb EXCEPT ![p] = FALSE]
  /\ Goto(p, "close") /\ forbid' = p
  /\ UNCHANGED <<links, p_pgrp, zombies, sig, forkVars, waitVars, ret, reported>>

\* ^C for a process that sleeps on its death message.
Break(p) ==
  /\ CtrlC /\ pc[p] = "dm" /\ forbid = Nil /\ ~ctrl[p]
  /\ ctrl' = [ctrl EXCEPT ![p] = TRUE]
  /\ UNCHANGED <<pc, links, p_pgrp, zombies, zomb, sleepSig, sig, forkVars, forbid,
                 waitVars, ret, reported>>

\* ix_close(), where it has to wait for the memory semaphore or a packet.
closeWaits(p) ==
  /\ Contended /\ pc[p] = "close" /\ forbid = p
  /\ forbid' = Nil
  /\ UNCHANGED <<pc, links, p_pgrp, zombies, zomb, sigVars, forkVars, waitVars, ret,
                 reported>>

\* The processes met from the youngest child of p on, through p_osptr.
Chain(p) ==
  LET nth[n \in 0 .. Cardinality(Procs)] ==
        IF n = 0 THEN p_cptr[p]
        ELSE IF nth[n - 1] = Nil THEN Nil ELSE p_osptr[nth[n - 1]]
  IN {nth[n] : n \in 0 .. Cardinality(Procs)} \ {Nil}

\* Faulty: the younger sibling keeps its pointer.
UnlinkedOsptrKept(p) == p_osptr

\* ix_close(): the younger sibling's p_osptr.
UnlinkedOsptr(p) ==
  IF p_ysptr[p] = Nil THEN p_osptr
  ELSE [p_osptr EXCEPT ![p_ysptr[p]] = p_osptr[p]]

\* ix_close(): p_cptr of the process itself and of its parent.
UnlinkedCptr(p) ==
  LET own == [p_cptr EXCEPT ![p] = Nil] IN
  IF p_pptr[p] # One /\ p_cptr[p_pptr[p]] = p
    THEN [own EXCEPT ![p_pptr[p]] = p_osptr[p]] ELSE own

\* A faulty ix_close: the children that sleep on their messages are not woken.
ix_closeQuiet(p) ==
  /\ At(p, "close")
  /\ p_pptr' = [q \in Procs |-> IF q \in Chain(p) THEN One ELSE p_pptr[q]]
  /\ p_cptr' = UnlinkedCptr(p)
  /\ p_osptr' = UnlinkedOsptr(p)
  /\ p_ysptr' = IF p_osptr[p] = Nil THEN p_ysptr
                ELSE [p_ysptr EXCEPT ![p_osptr[p]] = p_ysptr[p]]
  /\ zombies' = [zombies EXCEPT ![p] = <<>>]
  /\ Goto(p, "gone") /\ forbid' = Nil
  /\ UNCHANGED <<p_pgrp, zomb, sigVars, forkVars, waitVars, ret, reported>>

\* ix_close(): the children become orphans, the process leaves its lists, and
\* the children that sleep on their death messages are woken.
ix_close(p) ==
  /\ At(p, "close")
  /\ p_pptr' = [q \in Procs |-> IF q \in Chain(p) THEN One ELSE p_pptr[q]]
  /\ p_cptr' = UnlinkedCptr(p)
  /\ p_osptr' = UnlinkedOsptr(p)
  /\ p_ysptr' = IF p_osptr[p] = Nil THEN p_ysptr
                ELSE [p_ysptr EXCEPT ![p_osptr[p]] = p_ysptr[p]]
  /\ sleepSig' = [q \in Procs |->
       sleepSig[q] \/ (pc[q] = "dm"
                       /\ \E i \in DOMAIN zombies[p] : zombies[p][i].child = q)]
  /\ zombies' = [zombies EXCEPT ![p] = <<>>]
  /\ Goto(p, "gone") /\ forbid' = Nil
  /\ UNCHANGED <<p_pgrp, zomb, ctrl, sig, forkVars, waitVars, ret, reported>>

-----------------------------------------------------------------------------
(* wait4()                                                                     *)

\* Does the argument w of p's wait4() name the child c of group g.
Match(p, w, c, g) ==
  CASE w.kind = "any" -> TRUE
    [] w.kind = "own" -> g = p_pgrp[p]
    [] w.kind = "pid" -> c = w.id
    [] w.kind = "pgrp" -> g = w.id

\* The first death message that p's wait4() asks for, 0 if there is none.
FirstDead(p) ==
  LET dead == {i \in DOMAIN zombies[p] :
                 Match(p, want[p].w, zombies[p][i].child, zombies[p][i].pgrp)}
  IN IF dead = {} THEN 0 ELSE CHOOSE i \in dead : \A j \in dead : i <= j

\* Faulty: only the youngest child is looked at.
possible_childsFirst(p) ==
  \E c \in {p_cptr[p]} \cap Procs : ~zomb[c] /\ Match(p, want[p].w, c, p_pgrp[c])

\* Faulty: a child that was waited for counts.
possible_childsZombie(p) ==
  \E c \in Chain(p) : Match(p, want[p].w, c, p_pgrp[c])

possible_childs(p) ==
  \E c \in Chain(p) : ~zomb[c] /\ Match(p, want[p].w, c, p_pgrp[c])

wait4(p, w, nohang) ==
  /\ At(p, "run") /\ "wait4" \in Calls /\ (nohang => "WNOHANG" \in Calls)
  /\ want' = [want EXCEPT ![p] = [w |-> w, nohang |-> nohang]]
  /\ Goto(p, "wait4")
  /\ UNCHANGED <<links, p_pgrp, zombies, zomb, sigVars, forkVars, forbid, intr, ret,
                 reported>>

\* wait4() returns r.
Return(p, r) ==
  /\ ret' = [ret EXCEPT ![p] = r] /\ Goto(p, "run")
  /\ want' = [want EXCEPT ![p] = NoWait] /\ intr' = [intr EXCEPT ![p] = FALSE]

\* A faulty waitDead: the message of a child that does not wait for it stays.
waitDeadAsleep(p) ==
  LET i == FirstDead(p)
      c == zombies[p][i].child IN
  /\ At(p, "wait4") /\ i # 0
  /\ zombies' = [zombies EXCEPT ![p] =
       SelectSeq(@, LAMBDA m : m.child # c \/ pc[c] # "dm")]
  /\ zomb' = [zomb EXCEPT ![c] = TRUE]
  /\ sleepSig' = [sleepSig EXCEPT ![c] = @ \/ pc[c] = "dm"]
  /\ Return(p, c)
  /\ reported' = [reported EXCEPT ![c] = @ + 1]
  /\ UNCHANGED <<links, p_pgrp, ctrl, sig, forkVars, forbid>>

\* wait4(): a child has died.
waitDead(p) ==
  LET i == FirstDead(p)
      c == zombies[p][i].child IN
  /\ At(p, "wait4") /\ i # 0
  /\ zombies' = [zombies EXCEPT ![p] = SubSeq(@, 1, i - 1) \o SubSeq(@, i + 1, Len(@))]
  /\ zomb' = [zomb EXCEPT ![c] = TRUE]
  /\ sleepSig' = [sleepSig EXCEPT ![c] = @ \/ pc[c] = "dm"]
  /\ Return(p, c)
  /\ reported' = [reported EXCEPT ![c] = @ + 1]
  /\ UNCHANGED <<links, p_pgrp, ctrl, sig, forkVars, forbid>>

\* wait4(): there is nothing to wait for, or WNOHANG.
waitNone(p) ==
  /\ At(p, "wait4") /\ FirstDead(p) = 0
  /\ \/ ~possible_childs(p) /\ Return(p, "ECHILD")
     \/ possible_childs(p) /\ want[p].nohang /\ Return(p, "0")
  /\ UNCHANGED <<links, p_pgrp, zombies, zomb, sigVars, forkVars, forbid, reported>>

\* wait4() goes to sleep; with a signal pending ix_sleep() returns at once, the
\* handler runs, and wait4() starts again.
waitSleep(p) ==
  /\ At(p, "wait4") /\ FirstDead(p) = 0 /\ possible_childs(p) /\ ~want[p].nohang
  /\ IF sig[p] THEN /\ sig' = [sig EXCEPT ![p] = FALSE]
                    /\ intr' = [intr EXCEPT ![p] = TRUE]
                    /\ UNCHANGED pc
               ELSE Goto(p, "sleep") /\ UNCHANGED <<sig, intr>>
  /\ UNCHANGED <<links, p_pgrp, zombies, zomb, sleepSig, ctrl, forkVars, forbid,
                 want, ret, reported>>

\* wait4() wakes up: a signal is handled, and it starts again.
waitWake(p) ==
  /\ At(p, "sleep") /\ sleepSig[p]
  /\ sleepSig' = [sleepSig EXCEPT ![p] = FALSE]
  /\ sig' = [sig EXCEPT ![p] = FALSE]
  /\ intr' = [intr EXCEPT ![p] = @ \/ sig[p]]
  /\ Goto(p, "wait4")
  /\ UNCHANGED <<links, p_pgrp, zombies, zomb, ctrl, forkVars, forbid, want, ret,
                 reported>>

-----------------------------------------------------------------------------
(* Signals and process groups.                                                 *)

\* Another signal that p catches.
Interrupt(p) ==
  /\ forbid = Nil /\ p \in Interrupted /\ pc[p] \in {"run", "wait4", "sleep"}
  /\ ~sig[p]
  /\ sig' = [sig EXCEPT ![p] = TRUE]
  /\ sleepSig' = [sleepSig EXCEPT ![p] = @ \/ pc[p] = "sleep"]
  /\ UNCHANGED <<pc, links, p_pgrp, zombies, zomb, ctrl, forkVars, forbid, waitVars,
                 ret, reported>>

\* The handler of a pending signal runs: no handler under vfork().
Handle(p) ==
  /\ At(p, "run") /\ sig[p]
  /\ sig' = [sig EXCEPT ![p] = FALSE]
  /\ UNCHANGED <<pc, links, p_pgrp, zombies, zomb, sleepSig, ctrl, forkVars, forbid,
                 waitVars, ret, reported>>

\* setpgid(q, g) by a process or its parent.
setpgid(p, q, g) ==
  /\ At(p, "run") /\ "setpgid" \in Calls
  /\ q = p \/ (p_pptr[q] = p /\ pc[q] \in Linked)
  /\ p_pgrp[q] # g
  /\ p_pgrp' = [p_pgrp EXCEPT ![q] = g]
  /\ UNCHANGED <<pc, links, zombies, zomb, sigVars, forkVars, forbid, waitVars, ret,
                 reported>>

-----------------------------------------------------------------------------
Step(p) ==
  \/ launcher(p) \/ linkOlder(p) \/ linkYounger(p) \/ linkParent(p)
  \/ vforkReturn(p) \/ send_death_msg(p) \/ exitOrphan(p) \/ dmWake(p)
  \/ ix_close(p) \/ waitDead(p) \/ waitNone(p) \/ waitSleep(p) \/ waitWake(p)

Call(p) ==
  \/ vforkFails(p) \/ vfork_resume(p) \/ exit(p) \/ Handle(p)
  \/ \E c \in Procs : vfork(p, c)
  \/ \E w \in Waits, nohang \in BOOLEAN : wait4(p, w, nohang)
  \/ \E q \in Procs, g \in Pgrps : setpgid(p, q, g)

Environment(p) == launcherFails(p) \/ Break(p) \/ closeWaits(p) \/ Interrupt(p)

Next == \E p \in Procs : Step(p) \/ Call(p) \/ Environment(p)

Spec == Init /\ [][Next]_vars

\* exec runs every task that is ready.
FairSpec == Spec /\ \A p \in Procs : WF_vars(Step(p))

-----------------------------------------------------------------------------
(* Properties.                                                                 *)

\* Every variable of the process lists is of its type.
TypeOK ==
  /\ pc \in [Procs -> Labels]
  /\ p_pptr \in [Procs -> Procs \cup {One}]
  /\ p_cptr \in [Procs -> Procs \cup {Nil}] /\ p_osptr \in [Procs -> Procs \cup {Nil}]
  /\ p_ysptr \in [Procs -> Procs \cup {Nil}] /\ p_pgrp \in [Procs -> Procs]
  /\ \A p \in Procs : zombies[p] \in Seq([child : Procs, pgrp : Procs])
                      /\ Len(zombies[p]) <= Cardinality(Procs)
  /\ zomb \in [Procs -> BOOLEAN] /\ sleepSig \in [Procs -> BOOLEAN]
  /\ ctrl \in [Procs -> BOOLEAN] /\ sig \in [Procs -> BOOLEAN]
  /\ vm \in [Procs -> {"none", "sent", "held", "replied", "failed"}]
  /\ kid \in [Procs -> Procs \cup {Nil}]
  /\ base \in Procs \cup {Nil} /\ forbid \in Procs \cup {Nil}
  /\ want \in [Procs -> [w : WaitArgs, nohang : BOOLEAN]]
  /\ intr \in [Procs -> BOOLEAN] /\ ret \in [Procs -> Results]
  /\ reported \in [Procs -> Nat]

\* No process that is linked points to one that is gone: the lists that wait4()
\* and ix_close() follow under Forbid() lead to live user structures only.
LinksAreLive ==
  \A p \in Procs : pc[p] \in Linked \cup {"link2", "link3"} =>
    \A q \in {p_pptr[p], p_cptr[p], p_osptr[p], p_ysptr[p]} \cap Procs :
      pc[q] # "gone"

\* wait4() of the parent reaches every child that is linked, through p_cptr and
\* p_osptr, however its siblings come and go.
ChildrenListed ==
  \A c \in Procs : (pc[c] \in Linked /\ p_pptr[c] # One) => c \in Chain(p_pptr[c])

\* The parent does not run while the child uses its memory: it is in vfork()
\* until vfork_resume() or the death of the child replies to the message.
ParentIsSuspended ==
  \A c \in Procs : vm[c] = "held" =>
    \E p \in Procs : pc[p] = "vfork" /\ kid[p] = c /\ p_pptr[c] = p

\* wait4() reports the death of a child once.
ReportedOnce == \A c \in Procs : reported[c] <= 1

\* The variables are of their types, a parent is suspended while the child has its
\* memory, and no death is reported twice.
HeldAndReported == TypeOK /\ ParentIsSuspended /\ ReportedOnce

\* ECHILD means that the process has no child that wait4() could report, now or
\* later.
EchildIsTrue ==
  [][\A p \in Procs : (pc[p] = "wait4" /\ pc'[p] = "run" /\ ret'[p] = "ECHILD") =>
       ~\E c \in Procs : /\ pc[c] \in Linked /\ p_pptr[c] = p /\ reported[c] = 0
                         /\ Match(p, want[p].w, c, p_pgrp[c])]_vars

\* A process sleeps in wait4() only while there is a child that can end the
\* sleep, and otherwise gets ECHILD.
WaiterHasChild ==
  \A p \in Procs : (pc[p] = "sleep" /\ ~sleepSig[p]) =>
    \E c \in Procs : /\ pc[c] \in Linked \ {"close"} /\ p_pptr[c] = p
                     /\ reported[c] = 0

\* A child whose death message is in the list of its parent is still there, asleep
\* on the message: wait4() reads and writes its user structure.
DeadChildIsThere ==
  \A p \in Procs : \A i \in DOMAIN zombies[p] : pc[zombies[p][i].child] = "dm"

\* wait4() is not continued after a signal has been handled.
WaitIsInterrupted == \A p \in Procs : ~(pc[p] = "sleep" /\ intr[p])

\* vfork() returns -1 when there is no child.
VforkReportsFailure ==
  [][\A p \in Procs : (pc[p] = "vfork" /\ vm[kid[p]] = "failed" /\ pc'[p] = "run") =>
       ret'[p] = "error"]_vars

\* wait4() returns once a child it waits for has died.
WaitReturns ==
  \A p \in Procs : (pc[p] = "sleep" /\ FirstDead(p) # 0) ~> (pc[p] = "run")

\* A process that nobody will wait for goes away: the exit of the parent ends the
\* sleep on the death message.
OrphansGo ==
  \A c \in Procs :
    (pc[c] = "dm" /\ \E p \in Procs : p_pptr[c] = p /\ pc[p] = "close")
      ~> (pc[c] = "gone")
=============================================================================
