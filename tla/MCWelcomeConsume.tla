-------------------------- MODULE MCWelcomeConsume --------------------------
(* Small instances of WelcomeConsume for TLC. *)
EXTENDS WelcomeConsume, TLC

CONSTANTS e1, e2, d1, d2

\* Two envelope ids with directories of their own, and two that are sanitized
\* to the same name.
OwnDirectories == (e1 :> d1) @@ (e2 :> d2)
SharedDirectory == (e1 :> d1) @@ (e2 :> d1)

Symmetry == Permutations(Procs) \cup Permutations(Conversations)

\* With directories of their own the envelopes are alike, each with its directory.
Swap == (e1 :> e2) @@ (e2 :> e1) @@ (d1 :> d2) @@ (d2 :> d1)
OwnSymmetry == Symmetry \cup {Swap}
=============================================================================
