---------------------------- MODULE MCJobManager ----------------------------
(* JobManager for TLC: attempts and runs are interchangeable model values. *)
EXTENDS JobManager, TLC

Symmetry == Permutations(Attempt) \cup Permutations(Run)
=============================================================================
