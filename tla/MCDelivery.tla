----------------------------- MODULE MCDelivery ------------------------------
(* Instances of Delivery for TLC. *)
EXTENDS Delivery, TLC

\* Workers, orders, couriers and ETAs are interchangeable (safety runs only).
Symmetry == Permutations(Workers) \cup Permutations(Orders)
=============================================================================
