----------------------------- MODULE MCThreads -----------------------------
(* Threads on small instances: three identifiers, one or two spare blocks.  *)
EXTENDS Threads

CONSTANTS n1, n2, n3, n4, q1

Nodes3 == {n1, n2, n3}
Nodes4 == {n1, n2, n3, n4}
Queues1 == {q1}
Queues0 == {}
NodeSymmetry == Permutations(Node)
=============================================================================
