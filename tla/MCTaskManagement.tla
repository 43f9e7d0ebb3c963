-------------------------- MODULE MCTaskManagement --------------------------
(* Small instances of TaskManagement. *)
EXTENDS TaskManagement, TLC

Symmetry == Permutations(Sessions) \cup Permutations(Titles)
=============================================================================
