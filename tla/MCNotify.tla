------------------------------ MODULE MCNotify -------------------------------
(* Instances of Delivery with Notify as its callback, for TLC. *)
EXTENDS Notify, TLC

\* Workers and orders are interchangeable.
Symmetry == Permutations(Workers) \cup Permutations(Orders)
=============================================================================
