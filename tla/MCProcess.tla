------------------------------ MODULE MCProcess -----------------------------
(* Small instances of Process.  In instance "orphans", given by the constants, *)
(* four processes fork and exit while others are being created; the rest has   *)
(* three.  In "wait" they wait for children, also by process group; in         *)
(* "faults" creation fails, signals interrupt wait4() and the user types ^C;   *)
(* "live" is the one that liveness is checked of.                              *)
EXTENDS Process

CONSTANTS R, A, B, C

Nobody == {}
Arg(k, q) == [kind |-> k, id |-> q]
AnyChild == {Arg("any", R)}
Named == {Arg("any", R), Arg("pid", A), Arg("pgrp", R)}
Groups == {Arg("any", R), Arg("own", R)}

VARIABLE instance

W == INSTANCE Process WITH
  Calls <- {"vfork", "resume", "exit", "wait4", "WNOHANG", "setpgid"},
  Waits <- Groups, Catches <- {R}, Failures <- {}, Contended <- FALSE
F == INSTANCE Process WITH
  Calls <- {"vfork", "resume", "exit", "wait4"}, ForkAfterWait <- TRUE,
  Interrupted <- {R}, Failures <- {"create", "open", "dm"}, CtrlC <- TRUE
L == INSTANCE Process WITH
  Calls <- {"vfork", "resume", "exit", "wait4"}, Waits <- Named, Failures <- {}

ThreeOf == pc'[C] = "unused" /\ UNCHANGED instance

MCInit == Init /\ instance \in {"orphans", "wait", "faults", "live"}
MCNext == \/ instance = "orphans" /\ Next /\ UNCHANGED instance
          \/ instance = "wait" /\ W!Next /\ ThreeOf
          \/ instance = "faults" /\ F!Next /\ ThreeOf
          \/ instance = "live" /\ L!Next /\ ThreeOf

\* exec runs every task that is ready.
Fair == \A p \in {R, A, B} : WF_vars(instance = "live" /\ L!Step(p))
MCSpec == MCInit /\ [][MCNext]_<<vars, instance>> /\ Fair

\* The family is whole: a parent reaches all its children (ChildrenListed), and
\* what its links and its death messages lead to is there (LinksAreLive,
\* DeadChildIsThere), where no process goes away while a sibling is being linked
\* (its parent would have to wait for it and fork the next) or while its parent
\* still has its death message (^C or a lack of memory).
\* Whoever sleeps in wait4() has a child that can end the sleep (WaiterHasChild), when
\* exits do not wait for ix_lock_base(): a child that does is still linked after its
\* death message is gone.
FamilyIsWhole ==
  /\ ChildrenListed
  /\ (instance # "faults") => LinksAreLive /\ DeadChildIsThere
  /\ (instance \in {"orphans", "wait"}) => WaiterHasChild

\* wait4() returns once a child it waits for has died (WaitReturns), and a
\* process that nobody will wait for goes away (OrphansGo).
WaitEnds == (instance = "live") => WaitReturns /\ OrphansGo
=============================================================================
