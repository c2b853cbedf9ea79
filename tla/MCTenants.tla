------------------------------ MODULE MCTenants ------------------------------
(* Instances of Tenants for TLC: two of the six table bases, the threads of  *)
(* one process or of two.                                                    *)
EXTENDS Tenants, TLC

CONSTANTS q1, q2, t1, t2

MCBases == << "menu_items", "payments" >>

OneProcess == (t1 :> q1) @@ (t2 :> q1)

TwoProcesses == (t1 :> q1) @@ (t2 :> q2)

Symmetry == Permutations(Names) \cup Permutations(Keys)

\* The threads of one process are alike, if both may delete.
FullSymmetry == Symmetry \cup Permutations(Threads)
=============================================================================
