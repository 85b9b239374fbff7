------------------------ MODULE MCKeyPackageConsume ------------------------
(* A small instance of KeyPackageConsume for TLC. *)
EXTENDS KeyPackageConsume

CONSTANTS e1, e2, d1

\* The ids of e1 and e2 are sanitized to the same name; e3 has one of its own.
MCDirectory == [e \in Envelopes |-> IF e \in {e1, e2} THEN d1 ELSE CHOOSE d \in Directories : d # d1]
=============================================================================
