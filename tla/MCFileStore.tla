---------------------------- MODULE MCFileStore ------------------------------
(* Instances of FileStore for TLC. *)
EXTENDS FileStore, TLC

\* Delivery has list, cart has delete, payment and registry have neither.
MCOffers == {{"list"}, {"delete"}, {}}

Symmetry == Permutations(Keys) \cup Permutations(Values) \cup Permutations(Workers)
=============================================================================
