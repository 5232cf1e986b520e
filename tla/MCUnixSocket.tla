---------------------------- MODULE MCUnixSocket ----------------------------
(* Small instances of UnixSocket.  In instance "accept", given by the          *)
(* constants, two servers share a listening socket and close it; in instance   *)
(* "connect" one server has a queue of one, calls select() and shutdown(), and *)
(* makes the socket non-blocking.                                              *)
EXTENDS UnixSocket, TLC

CONSTANTS c1, c2, s1, s2, l1, l2

VARIABLE instance

One == INSTANCE UnixSocket WITH
  Servers <- {s1}, Backlog <- 0, Interruptible <- {s1},
  Calls <- {"select", "fionbio", "shutdown", "clientclose"}

MCInit == \/ instance = "accept" /\ Init
          \/ instance = "connect" /\ One!Init
MCNext == /\ \/ instance = "accept" /\ Next
             \/ instance = "connect" /\ One!Next
          /\ UNCHANGED instance

ClientRuns(c) == \/ instance = "accept" /\ ClientStep(c)
                 \/ instance = "connect" /\ One!ClientStep(c)
ServerRuns(t) == \/ instance = "accept" /\ ServerStep(t)
                 \/ instance = "connect" /\ One!ServerStep(t)

\* exec runs every ready task sooner or later.
MCSpec == /\ MCInit /\ [][MCNext]_<<vars, instance>>
          /\ \A c \in Clients : WF_vars(ClientRuns(c))
          /\ \A t \in Servers : WF_vars(ServerRuns(t))
=============================================================================
