------------------------ MODULE MCIdentityCandidates ------------------------
(* A small instance of IdentityCandidates for TLC. *)
EXTENDS IdentityCandidates, TLC

CONSTANTS c1, d1, k1

\* Both candidates claim d1, and c1 shows its key.
MCClaims == [c \in Candidates |-> d1]
MCShows == [c \in Candidates |-> IF c = c1 THEN {k1} ELSE {}]
=============================================================================
