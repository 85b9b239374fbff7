------------------------ MODULE MCKeyPackageExport ------------------------
(* Small instances of KeyPackageExport for TLC. *)
EXTENDS KeyPackageExport, TLC

Symmetry == Permutations(Procs) \cup Permutations(Requests)
            \cup Permutations(Keys)
===========================================================================
