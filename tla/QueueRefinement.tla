--------------------------- MODULE QueueRefinement --------------------------
(* The files of QueueDir, read as the states of INTERNALS: QueueDir         *)
(* implements QueueLife.                                                    *)
EXTENDS QueueDir

StateOf(i) ==
  IF mess[i] = None THEN "S1"
  ELSE IF todo[i] # None THEN "S4"
  ELSE IF info[i] # None THEN "S5"
  ELSE IF intd[i] # None THEN "S3" ELSE "S2"

(* In S5, local/ and remote/ say which channels are left. *)
Left(i) == IF StateOf(i) = "S5" THEN {c \in Chan : chan[c][i] # None} ELSE {}

(* A message is over when info/ is gone after todo/. *)
Over == {m \in accepted : \A i \in Id : todo[i] # m /\ info[i] # m}

Life == INSTANCE QueueLife WITH
  state  <- [i \in Id |-> StateOf(i)],
  owner  <- mess,
  left   <- [i \in Id |-> Left(i)],
  queued <- accepted,
  over   <- Over

(* Each step of qmail-queue, qmail-send and qmail-clean, their deaths       *)
(* included, is a move of INTERNALS or leaves every state as it is.         *)
ImplementsLife == Life!Spec
=============================================================================
