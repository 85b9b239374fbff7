----------------------- MODULE MCKeyPackageRotation -----------------------
(* A small instance of KeyPackageRotation for TLC. *)
EXTENDS KeyPackageRotation
===========================================================================
