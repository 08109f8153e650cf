---------------------------- MODULE MesaMonitor ----------------------------
(***************************************************************************)
(* What the locks and condition variables of thread.h promise: a lock has  *)
(* at most one owner; a wait gives the lock up and joins the waiters of    *)
(* the condition variable in one step; a waiter leaves only when the       *)
(* condition variable is signalled, and must then become owner again       *)
(* before it goes on.                                                      *)
(***************************************************************************)
CONSTANTS Thread, Lock, CV,
          NoOne      \* not a thread: the owner of a lock that is free

VARIABLES owner,     \* owner[l]: the thread that has lock l
          waiters    \* waiters[c]: the threads to be signalled, with their lock

Init ==
  /\ owner = [l \in Lock |-> NoOne]
  /\ waiters = [c \in CV |-> {}]

(* A thread that waits on a condition variable is not running.              *)
Waiting(t) == \E c \in CV : \E l \in Lock : <<t, l>> \in waiters[c]

Acquire(t, l) ==
  /\ owner[l] = NoOne /\ ~Waiting(t)
  /\ owner' = [owner EXCEPT ![l] = t]
  /\ UNCHANGED waiters

Release(t, l) ==
  /\ owner[l] = t /\ ~Waiting(t)
  /\ owner' = [owner EXCEPT ![l] = NoOne]
  /\ UNCHANGED waiters

Wait(t, c, l) ==
  /\ owner[l] = t /\ ~Waiting(t)
  /\ owner' = [owner EXCEPT ![l] = NoOne]
  /\ waiters' = [waiters EXCEPT ![c] = @ \cup {<<t, l>>}]

Signal(c) ==
  /\ \E w \in waiters[c] : waiters' = [waiters EXCEPT ![c] = @ \ {w}]
  /\ UNCHANGED owner

Broadcast(c) ==
  /\ waiters' = [waiters EXCEPT ![c] = {}]
  /\ UNCHANGED owner

Next ==
  \/ \E t \in Thread, l \in Lock :
       \/ Acquire(t, l) \/ Release(t, l)
       \/ \E c \in CV : Wait(t, c, l)
  \/ \E c \in CV : Signal(c) \/ Broadcast(c)

Spec == Init /\ [][Next]_<<owner, waiters>>
=============================================================================
