---------------------------- MODULE StreamTable -----------------------------
(***************************************************************************)
(* The FILEs of a process and the descriptors they hold: fopen(),          *)
(* fdopen(), freopen(), fclose(), tmpfile(), popen(), pclose(), and the    *)
(* atexit() list with which exit() flushes them.                           *)
(*                                                                         *)
(* slots is the chain of FILEs that __sfp() searches (used: _flags # 0),   *)
(* fds the descriptor table, with the number of the open() behind each     *)
(* descriptor, 0 when free.  pids is u_popen_pids.                         *)
(***************************************************************************)
EXTENDS Integers, Sequences, FiniteSets, FiniteSetsExt, SequencesExt

CONSTANTS Fds,            \* 0..(NOFILE - 1)
          FOPEN_MAX,      \* FILEs of the first block of the chain
          NDYNAMIC,       \* FILEs of each further block
          MaxSlots,       \* bound: FILEs
          MaxOpens,       \* bound: files opened
          ATEXIT_SIZE,    \* functions of one block of the atexit() list
          MaxAtexit,      \* bound: functions registered
          Flaws           \* "stale": see where it is tested

VARIABLES slots, fds,
          opens,          \* files opened so far
          raw,            \* descriptors the program holds without a FILE
          pids,           \* u_popen_pids: 0, or the child of popen()
          kids,           \* children not waited for
          atexit,         \* the blocks of __atexit, newest first
          ran,            \* functions exit() has called
          state           \* "runs", "exiting", "done"

vars == <<slots, fds, opens, raw, pids, kids, atexit, ran, state>>

Free == [used |-> FALSE, file |-> -1, dirty |-> FALSE]
Used == {i \in DOMAIN slots : slots[i].used}
Empty(t) == {fd \in Fds : t[fd] = 0}

\* the lowest free descriptor, as ufalloc() gives it
Opened(t) == [t EXCEPT ![Min(Empty(t))] = opens + 1]
CanOpen == Empty(fds) # {} /\ opens < MaxOpens

\* __sfp(): a slot of the chain, or of the block moreglue() adds when there
\* is memory for it; the chain and the slot, or nothing
__sfp(mem) ==
  IF Used # DOMAIN slots
  THEN {[chain |-> slots, slot |-> Min(DOMAIN slots \ Used)]}
  ELSE {[chain |-> slots \o [i \in 1..NDYNAMIC |-> Free], slot |-> Len(slots) + 1] :
          x \in IF mem /\ Len(slots) + NDYNAMIC <= MaxSlots THEN {mem} ELSE {}}
Take(mem, file) == \E f \in __sfp(mem) : slots' = [f.chain EXCEPT ![f.slot] = file]

Held(fd, isdirty) == [used |-> TRUE, file |-> fd, dirty |-> isdirty]

Init == /\ slots = [i \in 1..FOPEN_MAX |-> Free]
        /\ fds = [fd \in Fds |-> 0] /\ opens = 0 /\ raw = {}
        /\ pids = [fd \in Fds |-> 0] /\ kids = {}
        /\ atexit = <<<<0>>>>          \* ix_get_vars(): atexit(_cleanup)
        /\ ran = <<>> /\ state = "runs"

Rest == <<pids, kids, atexit, ran, state>>

\* fopen(): the slot is reserved before the open() and given back if it fails
fopen ==
  /\ state = "runs" /\ CanOpen
  /\ Take(TRUE, Held(Min(Empty(fds)), FALSE))
  /\ fds' = Opened(fds) /\ opens' = opens + 1
  /\ UNCHANGED raw /\ UNCHANGED Rest
fopenFails ==
  /\ state = "runs"
  /\ \E f \in __sfp(TRUE) : slots' = [f.chain EXCEPT ![f.slot].used = FALSE]
  /\ UNCHANGED <<fds, opens, raw>> /\ UNCHANGED Rest

open == /\ state = "runs" /\ CanOpen
        /\ fds' = Opened(fds) /\ opens' = opens + 1
        /\ raw' = raw \cup {Min(Empty(fds))}
        /\ UNCHANGED slots /\ UNCHANGED Rest

fdopen(fd) ==
  /\ state = "runs" /\ fd \in raw
  /\ Take(TRUE, Held(fd, FALSE))
  /\ raw' = raw \ {fd}
  /\ UNCHANGED <<fds, opens>> /\ UNCHANGED Rest

\* tmpfile(): mkstemp(), unlink(), then fdopen(), after whose failure the
\* descriptor is closed
tmpfile(mem) ==
  /\ state = "runs" /\ CanOpen
  /\ opens' = opens + 1
  /\ \/ /\ Take(mem, Held(Min(Empty(fds)), FALSE))
        /\ fds' = Opened(fds)
     \/ /\ Used = DOMAIN slots /\ ~mem
        /\ UNCHANGED <<slots, fds>>
  /\ UNCHANGED raw /\ UNCHANGED Rest

\* anything that leaves bytes in the buffer of the stream
write(i) == /\ state = "runs" /\ i \in Used /\ ~slots[i].dirty
            /\ slots' = [slots EXCEPT ![i].dirty = TRUE]
            /\ UNCHANGED <<fds, opens, raw>> /\ UNCHANGED Rest

\* fclose(): flushes, closes the descriptor, releases the FILE
Closed(t, fd) == IF fd = -1 THEN t ELSE [t EXCEPT ![fd] = 0]
fclose(i) ==
  /\ state = "runs" /\ i \in Used
  /\ pids[slots[i].file] = 0 \/ "stale" \in Flaws
  /\ fds' = Closed(fds, slots[i].file)
  /\ slots' = [slots EXCEPT ![i] = Free]
  /\ UNCHANGED <<opens, raw>> /\ UNCHANGED Rest

\* freopen(): the old descriptor is closed after the new file is open, or
\* before it when the table is full; the new file gets the old descriptor
freopen(i, ok) ==
  LET want == slots[i].file
      full == Empty(fds) = {}
      t1   == IF full THEN Closed(fds, want) ELSE fds
      f    == Min(Empty(t1))
      t2   == Closed(Opened(t1), IF full THEN -1 ELSE want)
      t3   == IF f = want THEN t2 ELSE [t2 EXCEPT ![want] = t2[f], ![f] = 0]  \* dup2()
  IN  /\ state = "runs" /\ i \in Used /\ opens < MaxOpens
      /\ pids[want] = 0 \/ "stale" \in Flaws
      /\ IF ok
         THEN /\ slots' = [slots EXCEPT ![i] = Held(want, FALSE)]
              /\ fds' = t3 /\ opens' = opens + 1
         ELSE /\ slots' = [slots EXCEPT ![i] = Free]
              /\ fds' = Closed(fds, want) /\ UNCHANGED opens
      /\ UNCHANGED raw /\ UNCHANGED Rest

-----------------------------------------------------------------------------
\* popen(): of the two descriptors of the pipe the FILE keeps one, the first
\* for reading, the second for writing; the child has the number of the pipe
popen(reads) ==
  LET a    == Min(Empty(fds))
      b    == Min(Empty(fds) \ {a})
      mine == IF reads THEN a ELSE b
  IN  /\ state = "runs" /\ opens < MaxOpens /\ Cardinality(Empty(fds)) > 1
      /\ Take(TRUE, Held(mine, FALSE))
      /\ fds' = [fds EXCEPT ![mine] = opens + 1] /\ opens' = opens + 1
      /\ pids' = [pids EXCEPT ![mine] = opens + 1]
      /\ kids' = kids \cup {opens + 1}
      /\ UNCHANGED <<raw, atexit, ran, state>>

\* a mutant: the entry of the child is left in the table
pcloseKeepsPid(i) ==
  LET fd == slots[i].file
  IN  /\ state = "runs" /\ i \in Used /\ pids[fd] # 0
      /\ fds' = Closed(fds, fd)
      /\ slots' = [slots EXCEPT ![i] = Free]
      /\ kids' = kids \ {pids[fd]}
      /\ UNCHANGED <<opens, raw, pids, atexit, ran, state>>
\* pclose(): fclose(), then waitpid() until it is not interrupted
pclose(i) ==
  LET fd == slots[i].file
  IN  /\ state = "runs" /\ i \in Used /\ pids[fd] # 0
      /\ fds' = Closed(fds, fd)
      /\ slots' = [slots EXCEPT ![i] = Free]
      /\ kids' = kids \ {pids[fd]}
      /\ pids' = [pids EXCEPT ![fd] = 0]
      /\ UNCHANGED <<opens, raw, atexit, ran, state>>

-----------------------------------------------------------------------------
(* exit() *)

Registered == FoldLeft(LAMBDA n, b : n + Len(b), 0, atexit) + Len(ran)

\* a mutant: the full block is lost, as in the code get_atexit_table() replaces
get_atexit_tableLost(list) == IF Len(Head(list)) >= ATEXIT_SIZE THEN <<<<>>>> ELSE list
\* atexit(): a full block gets a new one in front of it
get_atexit_table(list) ==
  IF Len(Head(list)) >= ATEXIT_SIZE THEN <<<<>>>> \o list ELSE list
WithOneMore(list, f) == [get_atexit_table(list) EXCEPT ![1] = Append(@, f)]

AtExit ==
  /\ state = "runs" /\ Registered < MaxAtexit
  /\ atexit' = WithOneMore(atexit, Registered)
  /\ UNCHANGED <<slots, fds, opens, raw, pids, kids, ran, state>>

exit == /\ state = "runs" /\ state' = "exiting"
        /\ UNCHANGED <<slots, fds, opens, raw, pids, kids, atexit, ran>>

\* the inner loop of exit2(): the newest function of the first block, which is
\* off the list when it is called.  _cleanup() flushes every stream; any other
\* may write to one or register another
_cleanup(s) == [i \in DOMAIN s |-> [s[i] EXCEPT !.dirty = FALSE]]
RunOne ==
  LET f    == Last(Head(atexit))
      list == [atexit EXCEPT ![1] = Front(@)]
  IN  /\ state = "exiting" /\ atexit # <<>> /\ Head(atexit) # <<>>
      /\ ran' = Append(ran, f)
      /\ \/ f = 0 /\ slots' = _cleanup(slots) /\ atexit' = list
         \/ /\ f # 0 /\ atexit' = list
            /\ \E i \in Used : slots' = [slots EXCEPT ![i].dirty = TRUE]
         \/ f # 0 /\ atexit' = list /\ UNCHANGED slots
         \/ /\ f # 0 /\ Registered < MaxAtexit
            /\ atexit' = WithOneMore(list, Registered) /\ UNCHANGED slots
      /\ UNCHANGED <<fds, opens, raw, pids, kids, state>>
NextBlock == /\ state = "exiting" /\ atexit # <<>> /\ Head(atexit) = <<>>
             /\ atexit' = Tail(atexit)
             /\ UNCHANGED <<slots, fds, opens, raw, pids, kids, ran, state>>
Leave == /\ state = "exiting" /\ atexit = <<>> /\ state' = "done"
         /\ UNCHANGED <<slots, fds, opens, raw, pids, kids, atexit, ran>>

Next == \/ fopen \/ fopenFails \/ open \/ AtExit \/ exit \/ RunOne \/ NextBlock \/ Leave
        \/ \E fd \in Fds : fdopen(fd)
        \/ \E b \in BOOLEAN : tmpfile(b) \/ popen(b)
        \/ \E i \in DOMAIN slots, ok \in BOOLEAN : freopen(i, ok)
        \/ \E i \in DOMAIN slots : write(i) \/ fclose(i) \/ pclose(i)

Spec == Init /\ [][Next]_vars

-----------------------------------------------------------------------------
\* No descriptor is leaked or shared: every open descriptor is the program's
\* own or that of exactly one open FILE, and every open FILE has an open one.
\* A child that popen() recorded for a descriptor is that of the stream the
\* descriptor has now, and it is still to be waited for
DescriptorsAreHeld ==
  /\ \A fd \in Fds : fds[fd] # 0 <=>
       (fd \in raw \/ \E i \in Used : slots[i].file = fd)
  /\ \A i \in Used : slots[i].file \notin raw
  /\ \A i, j \in Used : slots[i].file = slots[j].file => i = j
  /\ \A fd \in Fds : pids[fd] # 0 => pids[fd] = fds[fd] /\ pids[fd] \in kids

\* exit() calls every registered function once, a later one before an earlier
\* one, and no stream has unwritten output when the process is gone: _cleanup()
\* is the first that ix_get_vars() registers, so it sees what the others wrote
ExitIsComplete ==
  /\ \A i \in DOMAIN atexit, j \in DOMAIN atexit :
       \A m \in DOMAIN atexit[i], n \in DOMAIN atexit[j] :
         i < j \/ (i = j /\ m > n) => atexit[i][m] > atexit[j][n]
  /\ state = "done" =>
       /\ \A f \in 0..(Registered - 1) : Cardinality({i \in DOMAIN ran : ran[i] = f}) = 1
       /\ Registered > 0 /\ \A i \in DOMAIN slots : ~slots[i].dirty
=============================================================================
