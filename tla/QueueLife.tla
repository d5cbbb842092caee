------------------------------ MODULE QueueLife -----------------------------
(***************************************************************************)
(* What INTERNALS promises about a message number: the five states of      *)
(* section 2, the moves between them that sections 3 to 6 describe, and    *)
(* no others.  A queued message leaves S4 only for S5, leaves S5 only when *)
(* no local/ or remote/ file is left, and its number is free again only    *)
(* then.  QueueDir is shown to implement this module.                      *)
(***************************************************************************)
CONSTANTS Id, Msg, Chan, None

VARIABLES
  state,    \* state[i]: S1 to S5
  owner,    \* owner[i]: the message that has the number i, None in S1
  left,     \* left[i]: in S5, the channels with recipients that are NOT DONE
  queued,   \* messages that have reached S4
  over      \* messages that have been through S5 and are done with

lifevars == <<state, owner, left, queued, over>>

Init ==
  /\ state = [i \in Id |-> "S1"] /\ owner = [i \in Id |-> None]
  /\ left = [i \in Id |-> {}] /\ queued = {} /\ over = {}

Move(i, s, t) == state[i] = s /\ state' = [state EXCEPT ![i] = t]

Receive(i) ==
  /\ Move(i, "S1", "S2")
  /\ \E m \in Msg \ queued : /\ \A j \in Id : owner[j] # m
                             /\ owner' = [owner EXCEPT ![i] = m]
  /\ UNCHANGED <<left, queued, over>>

BeginEnvelope(i) ==
  /\ Move(i, "S2", "S3") /\ owner[i] \notin queued
  /\ UNCHANGED <<owner, left, queued, over>>

DropEnvelope(i) == Move(i, "S3", "S2") /\ UNCHANGED <<owner, left, queued, over>>

Queue(i) ==
  /\ Move(i, "S3", "S4") /\ queued' = queued \cup {owner[i]}
  /\ UNCHANGED <<owner, left, over>>

Preprocess(i) ==
  /\ Move(i, "S4", "S5")
  /\ \E C \in SUBSET Chan : left' = [left EXCEPT ![i] = C]
  /\ UNCHANGED <<owner, queued, over>>

Finish(i, c) ==
  /\ state[i] = "S5" /\ c \in left[i]
  /\ left' = [left EXCEPT ![i] = @ \ {c}]
  /\ UNCHANGED <<state, owner, queued, over>>

Eliminate(i) ==
  /\ Move(i, "S5", "S2") /\ left[i] = {} /\ over' = over \cup {owner[i]}
  /\ UNCHANGED <<owner, left, queued>>

Remove(i) ==
  /\ Move(i, "S2", "S1") /\ owner[i] \in queued => owner[i] \in over
  /\ owner' = [owner EXCEPT ![i] = None]
  /\ UNCHANGED <<left, queued, over>>

Next ==
  \E i \in Id :
    \/ Receive(i) \/ BeginEnvelope(i) \/ DropEnvelope(i) \/ Queue(i) \/ Preprocess(i)
    \/ Eliminate(i) \/ Remove(i)
    \/ \E c \in Chan : Finish(i, c)

Spec == Init /\ [][Next]_lifevars
=============================================================================
