----------------------------- MODULE MCRecovery -----------------------------
(* Values of Recovery's constants for TLC. *)
EXTENDS Recovery, TLC

Symmetry == Permutations(Enrollments)
=============================================================================
