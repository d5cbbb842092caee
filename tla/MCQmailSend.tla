---------------------------- MODULE MCQmailSend -----------------------------
(* QmailSend on small sets, for TLC. *)
EXTENDS QmailSend, TLC

CONSTANTS local, remote

(* concurrencylocal and concurrencyremote *)
OneEach == [c \in Chan |-> 1]
TwoEach == [c \in Chan |-> 2]
NoLocal == [c \in Chan |-> IF c = local THEN 0 ELSE 1]

Symmetry == Permutations(Id) \cup Permutations(Chan)
MessageSymmetry == Permutations(Id)
=============================================================================
