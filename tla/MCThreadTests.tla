--------------------------- MODULE MCThreadTests ---------------------------
(* All the test programs, with three threads besides the initial one, two    *)
(* where the threads write most (test_lock).                               *)
EXTENDS ThreadTests

CONSTANTS l1, c1, c2, c3

Locks1 == {l1}
Cvs3 == {c1, c2, c3}
Queues == {l1, c1, c2, c3}
Nodes6 == 0 .. 5
ThreeCvs == 0 :> c1 @@ 1 :> c2 @@ 2 :> c3
AllTests == {"basic", "preemptive", "wakeup", "wakeup_all", "wait", "wait_kill",
             "wait_parent", "lock", "cv_signal", "cv_broadcast"}
Sizes == [t \in AllTests |-> IF t = "lock" THEN 2 ELSE 3]
=============================================================================
