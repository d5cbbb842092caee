----------------------------- MODULE MCQueueDir -----------------------------
(* QueueDir on small sets, for TLC. *)
EXTENDS QueueRefinement, TLC

Symmetry == Permutations(Id) \cup Permutations(Msg) \cup Permutations(Chan)
=============================================================================
