---------------------------- MODULE MCMonitors ----------------------------
(* Monitors with one lock and one condition variable.                      *)
EXTENDS Monitors

CONSTANTS n1, n2, n3, l1, c1

Nodes3 == {n1, n2, n3}
Locks1 == {l1}
Cvs1 == {c1}
Queues == {l1, c1}
NodeSymmetry == Permutations(Node)
=============================================================================
