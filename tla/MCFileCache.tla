---------------------------- MODULE MCFileCache ----------------------------
(* FileCache with two or three workers and files of one or two bytes or     *)
(* none: the cache holds three or five files and evicts one or two at a     *)
(* time.                                                                    *)
EXTENDS FileCache, TLC

CONSTANTS w1, w2, w3, f1, f2, f3, f4

Workers2 == {w1, w2}
Workers3 == {w1, w2, w3}
Names3 == {f1, f2, f3}
Names4 == {f1, f2, f3, f4}
AnySize == [n \in Names3 |-> {0, 1, 2}]
LargeOrEmpty == [n \in Names4 |-> IF n = f4 THEN {0, 2} ELSE {1}]
NoneEmpty == [n \in Names4 |-> IF n = f4 THEN {2} ELSE {1}]
Symmetric == Permutations(Worker) \cup Permutations(Names3)
=============================================================================
