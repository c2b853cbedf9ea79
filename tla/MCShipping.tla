------------------------------ MODULE MCShipping -----------------------------
(* Instances of Shipping for TLC. *)
EXTENDS Shipping, TLC

CONSTANTS o1, o2, o3, w1, w2

MCMockWaybill == (o1 :> w1) @@ (o2 :> w2)
=============================================================================
