---------------------------- MODULE MCEzmlmSend -----------------------------
(* EzmlmSend with three addresses in two files, for TLC. *)
EXTENDS EzmlmSend

TwoFiles == [a \in Addr |-> IF a = "c" THEN 2 ELSE 1]
=============================================================================
