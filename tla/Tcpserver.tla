----------------------------- MODULE Tcpserver -----------------------------
(***************************************************************************)
(* The accept loop of tcpserver (ucspi-tcp-0.88/tcpserver.c): at most      *)
(* limit children at a time, counted in numchildren.  SIGCHLD is blocked   *)
(* except inside accept and inside sig_pause (sigsuspend), so its handler  *)
(* runs only there; a signal that comes while it is blocked stays pending, *)
(* one bit however many children end.                                      *)
(***************************************************************************)
EXTENDS Integers, FiniteSets

CONSTANTS
  Client,    \* connections that may come, each at most once
  limit      \* -c: the most children at a time

ASSUME TcpserverAssumption == IsFiniteSet(Client) /\ limit \in Nat \ {0}

VARIABLES
  conn,         \* [Client -> "no" | "waiting" | "held" | "served" | "zombie" | "gone"]
  numchildren,  \* the counter of the parent
  chldPending,  \* SIGCHLD is pending
  loopAt        \* "look" | "pause" | "accept" | "fork": where the loop is

tcpserverVars == <<conn, numchildren, chldPending, loopAt>>

In(state) == {c \in Client : conn[c] = state}
Children  == In("served") \union In("zombie")

TcpserverTypeOK ==
  /\ conn \in [Client -> {"no", "waiting", "held", "served", "zombie", "gone"}]
  /\ numchildren \in Nat
  /\ chldPending \in BOOLEAN
  /\ loopAt \in {"look", "pause", "accept", "fork"}

TcpserverInit ==
  /\ conn = [c \in Client |-> "no"]
  /\ numchildren = 0
  /\ chldPending = FALSE
  /\ loopAt = "look"

\* A mutant: one wait_nohang for each signal.
HandledOne ==
  /\ \E c \in In("zombie") : conn' = [conn EXCEPT ![c] = "gone"]
  /\ numchildren' = IF numchildren > 0 THEN numchildren - 1 ELSE 0
  /\ chldPending' = FALSE

\* The handler: wait_nohang until no zombie is left.
Handled ==
  /\ conn' = [c \in Client |-> IF conn[c] = "zombie" THEN "gone" ELSE conn[c]]
  /\ numchildren' = IF numchildren > Cardinality(In("zombie"))
                      THEN numchildren - Cardinality(In("zombie")) ELSE 0
  /\ chldPending' = FALSE

\* while (numchildren >= limit) sig_pause();
Look ==
  /\ loopAt = "look"
  /\ loopAt' = IF numchildren >= limit THEN "pause" ELSE "accept"
  /\ UNCHANGED <<conn, numchildren, chldPending>>

\* sigsuspend returns once a handler has run.
Sigchld ==
  /\ loopAt \in {"pause", "accept"} /\ chldPending
  /\ Handled
  /\ loopAt' = "look"      \* accept returns -1 with EINTR: continue

\* accept; SIGCHLD is blocked again only after it, so a signal may be handled
\* between the two, with the connection in hand.
Accept(c) ==
  /\ loopAt = "accept" /\ conn[c] = "waiting"
  /\ conn' = [conn EXCEPT ![c] = "held"]
  /\ loopAt' = "fork"
  /\ UNCHANGED <<numchildren, chldPending>>

SigchldHolding ==
  /\ loopAt = "fork" /\ chldPending
  /\ Handled
  /\ UNCHANGED loopAt

\* sig_block; ++numchildren; fork; close(t).  A fork that fails drops the client.
Fork(c) ==
  /\ loopAt = "fork" /\ conn[c] = "held"
  /\ \/ /\ conn' = [conn EXCEPT ![c] = "served"]
        /\ numchildren' = numchildren + 1
     \/ /\ conn' = [conn EXCEPT ![c] = "gone"]
        /\ UNCHANGED numchildren
  /\ loopAt' = "look"
  /\ UNCHANGED chldPending

\* The world: a client connects, a child ends.
Connect(c) ==
  /\ conn[c] = "no"
  /\ conn' = [conn EXCEPT ![c] = "waiting"]
  /\ UNCHANGED <<numchildren, chldPending, loopAt>>

ChildEnds(c) ==
  /\ conn[c] = "served"
  /\ conn' = [conn EXCEPT ![c] = "zombie"]
  /\ chldPending' = TRUE
  /\ UNCHANGED <<numchildren, loopAt>>

TcpserverNext ==
  \/ Look \/ Sigchld \/ SigchldHolding
  \/ \E c \in Client : Accept(c) \/ Fork(c) \/ Connect(c) \/ ChildEnds(c)

TcpserverSpec == TcpserverInit /\ [][TcpserverNext]_tcpserverVars

\* The loop goes on and signals are delivered; children end (a server that
\* serves for ever is not tcpserver's to stop).  The queue of waiting
\* connections is first come, first served, so accept is fair to each client.
TcpserverFair ==
  /\ WF_tcpserverVars(Look) /\ WF_tcpserverVars(Sigchld)
  /\ \A c \in Client : /\ SF_tcpserverVars(Accept(c))
                       /\ WF_tcpserverVars(Fork(c))
                       /\ WF_tcpserverVars(ChildEnds(c))

(***************************************************************************)
(* Properties.                                                             *)
(***************************************************************************)
\* Signals merge, children end at any moment, a fork may fail: the counter is
\* still the number of children not yet waited for, at most limit of them, and
\* a child that waits to be counted out has its signal pending.
CountTrue ==
  /\ numchildren = Cardinality(Children)
  /\ numchildren <= limit
  /\ In("zombie") # {} => chldPending

\* A client that waits is taken in the end, even with the loop at its limit
\* when the last child ends.
Taken == \A c \in Client : conn[c] = "waiting" ~> conn[c] # "waiting"
=============================================================================
