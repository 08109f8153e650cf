------------------------------ MODULE Monitors ------------------------------
(***************************************************************************)
(* The locks and condition variables of threads/thread.c, on top of the    *)
(* thread package.  A lock or condition variable is named by its wait      *)
(* queue.  All of them run with the timer blocked: between two labels      *)
(* nothing else happens, and lock_acquire's loop is re-entered at label    *)
(* "lock" whenever its thread_sleep returns.                               *)
(***************************************************************************)
EXTENDS Threads

CONSTANTS Lock, CV

ASSUME MonitorsAssumption ==
  /\ Lock \cap CV = {} /\ UserQ = Lock \cup CV
  /\ NULL \notin UserQ

VARIABLES
  lockState,  \* lock->state
  lockTid,    \* lock->tid: the last thread that acquired it, or its creator
  lockFor,    \* lockFor[n]: the argument of the lock_acquire n is in
  cvFor,      \* cvFor[n]: the condition variable n waits to be signalled on
  inside      \* inside[n]: the locks n returned from acquiring and has not released

monitorVars == <<lockState, lockTid, lockFor, cvFor, inside>>
allVars == <<vars, monitorVars>>

FREE == "FREE"
ACQUIRED == "ACQUIRED"

MInit ==
  /\ Init
  /\ lockState = [l \in Lock |-> FREE]
  /\ lockTid = [l \in Lock |-> 0]
  /\ lockFor = [n \in Node |-> NULL]
  /\ cvFor = [n \in Node |-> NULL]
  /\ inside = [n \in Node |-> {}]

-----------------------------------------------------------------------------
(* lock_create: the creator is recorded as if it had acquired the lock.     *)
LockCreate(l) ==
  /\ WaitQueueCreate(l)
  /\ lockState' = [lockState EXCEPT ![l] = FREE]
  /\ lockTid' = [lockTid EXCEPT ![l] = Me]
  /\ UNCHANGED <<lockFor, cvFor, inside>>

LockDestroy(l) ==
  /\ lockState[l] = FREE
  /\ WaitQueueDestroy(l)
  /\ UNCHANGED monitorVars

CvCreate(c) == WaitQueueCreate(c) /\ UNCHANGED monitorVars
CvDestroy(c) == WaitQueueDestroy(c) /\ UNCHANGED monitorVars

LockAcquire(l) ==
  /\ InUser /\ l \in queues
  /\ pc' = [pc EXCEPT ![running_q] = "lock"]
  /\ lockFor' = [lockFor EXCEPT ![running_q] = l]
  /\ UNCHANGED <<status, nodes, ready_q, exit_q, running_q, waitq, queues, id, back,
                 yield_count, want, waitFor, halted, lockState, lockTid, cvFor, inside>>

InLockAcquire == ~halted /\ pc[running_q] = "lock"

(* The condition of the while loop.                                         *)
Busy(l) == lockState[l] = ACQUIRED

(* The loop sleeps while the lock is taken.  With no other thread ready     *)
(* thread_sleep refuses and the loop never ends (NeverSpins).               *)
LockSleep ==
  LET l == lockFor[running_q]
  IN /\ InLockAcquire /\ Busy(l)
     /\ SleepOn(l, "lock")
     /\ UNCHANGED <<waitFor, lockState, lockTid, lockFor, cvFor, inside>>

NotMarked(l) == lockState             \* mutant: the lock is entered, not taken
Marked(l) == [lockState EXCEPT ![l] = ACQUIRED]

LockTake ==
  LET l == lockFor[running_q]
  IN /\ InLockAcquire /\ ~Busy(l)
     /\ lockState' = Marked(l)
     /\ lockTid' = [lockTid EXCEPT ![l] = Me]
     /\ pc' = [pc EXCEPT ![running_q] = "user"]
     /\ lockFor' = [lockFor EXCEPT ![running_q] = NULL]
     /\ cvFor' = [cvFor EXCEPT ![running_q] = NULL]
     /\ inside' = [inside EXCEPT ![running_q] = @ \cup {l}]
     /\ UNCHANGED <<status, nodes, ready_q, exit_q, running_q, waitq, queues, id, back,
                    yield_count, want, waitFor, halted>>

StillLocked(l) == lockState           \* mutant: the lock is not given up
Unlocked(l) == [lockState EXCEPT ![l] = FREE]

OneWaiter(l) == IF waitq[l] = <<>> THEN 0 ELSE 1   \* mutant: wake one, not all
(* How many of its waiters lock_release wakes.                              *)
AllWaiters(l) == Len(waitq[l])

(* lock_release: the assertion compares the recorded tid only.              *)
LockRelease(l) ==
  /\ InUser /\ l \in queues /\ lockTid[l] = Me
  /\ WakeupFirst(l, AllWaiters(l))
  /\ lockState' = Unlocked(l)
  /\ inside' = [inside EXCEPT ![running_q] = @ \ {l}]
  /\ UNCHANGED <<nodes, exit_q, running_q, queues, id, pc, back, yield_count, want,
                 waitFor, halted, lockTid, lockFor, cvFor>>

LockQueue(c, l) == l                  \* mutant: sleeps on the lock instead
SleepQueue(c, l) == c

(* cv_wait: lock_release, thread_sleep (which refuses when no other thread  *)
(* is ready) and lock_acquire.                                              *)
CvWait(c, l) ==
  LET woken == Woken(l, AllWaiters(l))
      ready == ready_q \o woken
      awake == [t \in Tid |-> IF t \in IdsOf(woken) THEN "READY" ELSE status[t]]
  IN /\ InUser /\ c \in queues /\ l \in queues /\ lockTid[l] = Me
     /\ lockState' = Unlocked(l)
     /\ inside' = [inside EXCEPT ![running_q] = @ \ {l}]
     /\ lockFor' = [lockFor EXCEPT ![running_q] = l]
     /\ cvFor' = [cvFor EXCEPT ![running_q] = c]
     /\ ready_q' = ready
     /\ \/ /\ ready # <<>>
           /\ status' = [awake EXCEPT ![Me] = "WAITING"]
           /\ waitq' = [waitq EXCEPT ![l] = SubSeq(@, AllWaiters(l) + 1, Len(@)),
                                     ![SleepQueue(c, l)] = Enqueue(@, running_q)]
           /\ want' = id[Head(ready)]
           /\ pc' = [pc EXCEPT ![running_q] = "getcontext"]
           /\ back' = [back EXCEPT ![running_q] = "lock"]
        \/ /\ ready = <<>>
           /\ pc' = [pc EXCEPT ![running_q] = "lock"]
           /\ UNCHANGED <<status, waitq, want, back>>
     /\ UNCHANGED <<nodes, exit_q, running_q, queues, id, yield_count, waitFor, halted, lockTid>>

(* thread_wakeup of the first k waiters of c, by a thread recorded in l.    *)
CvWakeup(c, l, k) ==
  /\ InUser /\ c \in queues /\ l \in queues /\ lockTid[l] = Me
  /\ WakeupFirst(c, k)
  /\ cvFor' = [n \in Node |-> IF n \in Range(Woken(c, k)) THEN NULL ELSE cvFor[n]]
  /\ UNCHANGED <<nodes, exit_q, running_q, queues, id, pc, back, yield_count, want,
                 waitFor, halted, lockState, lockTid, lockFor, inside>>

CvSignal(c, l) == waitq[c] # <<>> /\ CvWakeup(c, l, 1)
CvBroadcast(c, l) == CvWakeup(c, l, Len(waitq[c]))

(* What a thread that exits or is killed was doing is over.                 *)
Gone ==
  /\ lockFor' = [lockFor EXCEPT ![running_q] = NULL]
  /\ cvFor' = [cvFor EXCEPT ![running_q] = NULL]
  /\ inside' = [inside EXCEPT ![running_q] = {}]
  /\ UNCHANGED <<lockState, lockTid>>

-----------------------------------------------------------------------------
HoldsNone == inside[running_q] = {}
InUse(l) == \E n \in Node : lockFor[n] = l

(* The steps of the package that no lock is involved in.                    *)
PackageStep ==
  /\ \/ Start \/ Create \/ TimerInterrupt \/ Switch \/ Resume \/ WaitReturn \/ Halted
     \/ \E t \in Tid : YieldTo(t)
     \/ \E t \in Tid : HoldsNone /\ Wait(t)
  /\ UNCHANGED monitorVars

(* Clients that keep to thread.h: release what you acquired, use a          *)
(* condition variable with its lock held, and, so that a holder can always  *)
(* go on, hold one lock at a time and none while sleeping or exiting.       *)
MNext ==
  \/ PackageStep
  \/ HoldsNone /\ Exit /\ Gone
  \/ LockSleep \/ LockTake
  \/ \E c \in CV : CvCreate(c) \/ (waitq[c] = <<>> /\ CvDestroy(c))
  \/ \E l \in Lock :
       \/ LockCreate(l)
       \/ ~InUse(l) /\ LockDestroy(l)
       \/ HoldsNone /\ LockAcquire(l)
       \/ l \in inside[running_q] /\ LockRelease(l)
       \/ \E c \in CV : /\ l \in inside[running_q]
                        /\ CvWait(c, l) \/ CvSignal(c, l) \/ CvBroadcast(c, l)

MSpec == MInit /\ [][MNext]_allVars

(* The package's fairness, and a client that does not keep a lock for ever. *)
MFairness ==
  /\ WF_allVars(LockSleep) /\ WF_allVars(LockTake)
  /\ WF_allVars(PackageStep /\ (Start \/ Switch \/ Resume \/ WaitReturn))
  /\ SF_allVars(PackageStep /\ TimerInterrupt)
  /\ \A l \in Lock : SF_allVars(l \in inside[running_q] /\ LockRelease(l))

MFairSpec == MSpec /\ MFairness

-----------------------------------------------------------------------------
MTypeOK ==
  /\ TypeOK
  /\ lockState \in [Lock -> {FREE, ACQUIRED}]
  /\ lockTid \in [Lock -> Tid]
  /\ lockFor \in [Node -> Lock \cup {NULL}]
  /\ cvFor \in [Node -> CV \cup {NULL}]
  /\ inside \in [Node -> SUBSET Lock]

(* Between the return of its lock_acquire and its lock_release or cv_wait   *)
(* a thread is alone with the lock, however the timer interleaves the       *)
(* others, and the lock records it.                                         *)
MutualExclusion ==
  \A n \in Node : \A l \in inside[n] :
    /\ lockState[l] = ACQUIRED /\ lockTid[l] = id[n]
    /\ \A m \in Node : l \in inside[m] => m = n

(* Nobody sleeps on a lock that is free: releasing wakes every waiter       *)
(* before the lock becomes free, and nobody enqueues on a free lock.  So    *)
(* lock_destroy, which asserts only FREE, frees no sleeping thread.         *)
NoSleeperOnFreeLock ==
  \A l \in Lock : lockState[l] = FREE => waitq[l] = <<>>

(* A thread in cv_wait that nobody has signalled is asleep on the condition *)
(* variable (or was refused): the lock is never free while a thread between *)
(* releasing it and sleeping could miss a signal.                           *)
NoLostSignal ==
  \A n \in Node :
    cvFor[n] # NULL => n \in Range(waitq[cvFor[n]]) \/ (n = running_q /\ pc[n] = "lock")

(* lock_acquire spins for ever, with the timer blocked, if the lock is      *)
(* taken and no thread is ready; disciplined clients never get there.       *)
NeverSpins ==
  pc[running_q] = "lock" /\ lockState[lockFor[running_q]] = ACQUIRED => ready_q # <<>>

(* The locks and the queues on them: well typed, no sleeper nobody will     *)
(* wake, no loop nobody will end.                                           *)
LocksConsistent == MTypeOK /\ NoSleeperOnFreeLock /\ NeverSpins

(* What a lock promises: one holder, and nobody kept out by nobody.         *)
LocksSound == MutualExclusion /\ LocksConsistent

(* Locks and condition variables implement Mesa monitors.                   *)
Mesa == INSTANCE MesaMonitor WITH
  Thread <- Tid, NoOne <- NULL,
  owner <- [l \in Lock |-> IF lockState[l] = ACQUIRED THEN lockTid[l] ELSE NULL],
  waiters <- [c \in CV |-> {<<id[n], lockFor[n]>> : n \in Range(waitq[c])}]

ImplementsMesa == Mesa!Spec

(* Whoever sleeps on a lock is made ready again, as long as holders release.*)
LockWaitersWake ==
  \A n \in Node, l \in Lock : n \in Range(waitq[l]) ~> n \notin Range(waitq[l])

=============================================================================
