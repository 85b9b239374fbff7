---------------------------- MODULE MCTrustStore ----------------------------
(* Small instances of TrustStore for TLC. *)
EXTENDS TrustStore, TLC

Symmetry == Permutations(Procs) \cup Permutations(Devices) \cup Permutations(Keys)
=============================================================================
