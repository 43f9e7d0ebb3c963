-------------------------- MODULE MCPlaneCredential --------------------------
(* Small instances of PlaneCredential. *)
EXTENDS PlaneCredential, TLC

Symmetry == Permutations(Calls)
=============================================================================
