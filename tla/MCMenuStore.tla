----------------------------- MODULE MCMenuStore -----------------------------
(* Instances of MenuStore for TLC. *)
EXTENDS MenuStore, TLC

Symmetry == Permutations(Handles)
=============================================================================
