--------------------------- MODULE MonitorsProofs ---------------------------
(***************************************************************************)
(* The safety of locks and condition variables, for any number of threads, *)
(* locks and condition variables.                                          *)
(***************************************************************************)
EXTENDS Monitors, ThreadsProofs

(* A thread that has a lock can go on and give it up: it is running or      *)
(* ready, it has no other lock and it is not waiting for one.               *)
HoldersGoOn ==
  \A n \in Node : inside[n] # {} =>
    /\ Registered(n) /\ status[id[n]] \in {"READY", "RUNNING"}
    /\ lockFor[n] = NULL
    /\ \A l, k \in inside[n] : l = k

(* A lock that is taken exists and some thread has it.                      *)
TakenLocksHeld ==
  \A l \in Lock : lockState[l] = ACQUIRED => l \in queues /\ \E n \in Node : l \in inside[n]

(* n is in the loop of lock_acquire, or asleep there.                       *)
InLoop(n) == pc[n] = "lock" \/ (pc[n] = "getcontext" /\ back[n] = "lock")

(* A call of lock_acquire is for a lock that exists until it returns.       *)
CallsMatchLocks ==
  \A n \in Node : /\ lockFor[n] # NULL => lockFor[n] \in queues
                  /\ InLoop(n) => lockFor[n] # NULL

(* A cv_wait that thread_sleep refused finds the lock still free.           *)
RefusedGoesOn ==
  pc[running_q] = "lock" /\ cvFor[running_q] # NULL => lockState[lockFor[running_q]] = FREE

(* The inductive invariant.                                                 *)
LocksInv ==
  /\ MTypeOK
  /\ MutualExclusion
  /\ NoSleeperOnFreeLock
  /\ NoLostSignal
  /\ HoldersGoOn
  /\ TakenLocksHeld
  /\ CallsMatchLocks
  /\ RefusedGoesOn

MInv == IInv /\ LocksInv

USE DEF Tid, WaitQ, Status, Label, InPackageOrClient, FREE, ACQUIRED

-----------------------------------------------------------------------------
LEMMA QueueNames ==
  /\ Lock \subseteq WaitQ /\ CV \subseteq WaitQ /\ Lock \cap CV = {}
  /\ NULL \notin Lock /\ NULL \notin CV
  /\ Lock \cap Tid = {} /\ CV \cap Tid = {}
BY ThreadsAssumption, MonitorsAssumption

LEMMA InitMInv == MInit => MInv
<1> SUFFICES ASSUME MInit PROVE MInv
  OBVIOUS
<1>1. IInv
  BY InitIInv DEF MInit
<1>2. MTypeOK
  BY <1>1, ThreadsAssumption DEF MInit, MTypeOK, IInv
<1>3. NoSleeperOnFreeLock
  BY QueueNames DEF MInit, Init, NoSleeperOnFreeLock
<1>4. \A n \in Node : pc[n] # "lock" /\ back[n] = "user"
  BY DEF MInit, Init
<1>5. running_q \in Node
  BY <1>1 DEF IInv, TypeOK
<1>6. QED
  BY <1>1, <1>2, <1>3, <1>4, <1>5 DEF MInit, MInv, LocksInv, MutualExclusion, NoLostSignal,
     HoldersGoOn, TakenLocksHeld, CallsMatchLocks, InLoop, RefusedGoesOn

-----------------------------------------------------------------------------
(* cv_wait when it switches: the waiters of the lock become ready, and the  *)
(* running thread sleeps on the condition variable.                         *)
LEMMA WakeAndSleepStep ==
  ASSUME IInv, InUser, NEW w \in WaitQ, NEW v \in WaitQ, v # w,
         NEW k \in 0 .. Len(waitq[w]), ready_q' # <<>>,
         ready_q' = ready_q \o Woken(w, k),
         status' = [[t \in Tid |-> IF t \in IdsOf(Woken(w, k)) THEN "READY" ELSE status[t]]
                      EXCEPT ![Me] = "WAITING"],
         waitq' = [waitq EXCEPT ![w] = SubSeq(@, k + 1, Len(@)), ![v] = Append(@, running_q)],
         want' = id[Head(ready_q')],
         pc' = [pc EXCEPT ![running_q] = "getcontext"],
         back' = [back EXCEPT ![running_q] = "lock"],
         UNCHANGED <<nodes, exit_q, running_q, queues, id, yield_count, waitFor, halted>>
  PROVE  IInv'
<1> DEFINE a == Woken(w, k)
           b == SubSeq(waitq[w], k + 1, Len(waitq[w]))
<1>1. /\ a \in Seq(Node) /\ b \in Seq(Node) /\ Range(a) \cup Range(b) = Range(waitq[w])
      /\ IsInjective(b) /\ Range(a) \cap Range(b) = {}
      /\ \A n \in Range(a) : n \in Node /\ id[n] \in Tid /\ status[id[n]] = "WAITING"
                              /\ nodes[id[n]] = n /\ pc[n] # "free"
  BY WokenNodes
<1>2. /\ ~Leaving /\ ~halted /\ Leaving' /\ pc'[running_q] = "getcontext"
      /\ running_q \in Node /\ yield_count[running_q] = 0
      /\ \A n \in Node : n # running_q => pc'[n] = pc[n] /\ back'[n] = back[n]
      /\ back'[running_q] = "lock"
  BY DEF InUser, Leaving, IInv, TypeOK, SavedContexts
<1>3. /\ Me \in Tid /\ status[Me] = "RUNNING" /\ nodes[Me] = running_q /\ id[running_q] = Me
      /\ \A u \in WaitQ : running_q \notin Range(waitq[u])
      /\ \A u \in Tid : status[u] = "RUNNING" => u = Me
  BY <1>2, RunningThread DEF Me
<1> HIDE DEF a, b
<1>4. /\ status' \in [Tid -> Status] /\ status'[Me] = "WAITING"
      /\ \A t \in IdsOf(Woken(w, k)) : t \in Tid /\ status[t] = "WAITING" /\ status'[t] = "READY"
      /\ \A t \in Tid \ IdsOf(Woken(w, k)) : t # Me => status'[t] = status[t]
  <2>1. \A t \in IdsOf(Woken(w, k)) : t \in Tid /\ status[t] = "WAITING" /\ t # Me
    BY <1>1, <1>3 DEF IdsOf, a
  <2>2. status' \in [Tid -> Status]
    BY DEF IInv, TypeOK
  <2>3. QED
    BY <2>1, <2>2, <1>3
<1>5. /\ ready_q' \in Seq(Node) /\ ReadyMatches'
  <2>1. \A t \in Tid \ IdsOf(Woken(w, k)) : status'[t] = "READY" <=> status[t] = "READY"
    BY <1>3, <1>4
  <2>2. \A n \in Node : pc[n] # "free" => pc'[n] # "free"
    BY <1>2
  <2>3. QED
    BY <2>1, <2>2, <1>4, WakeReady
<1>6. /\ waitq' \in [WaitQ -> Seq(Node)]
      /\ Range(waitq'[v]) = Range(waitq[v]) \cup {running_q} /\ IsInjective(waitq'[v])
      /\ waitq'[w] = b /\ \A u \in WaitQ : u # v /\ u # w => waitq'[u] = waitq[u]
  <2>1. waitq[v] \in Seq(Node) /\ IsInjective(waitq[v])
    BY DEF IInv, TypeOK, StatusMatchesQueues, WaitingMatches
  <2>2. /\ Append(waitq[v], running_q) \in Seq(Node)
        /\ Range(Append(waitq[v], running_q)) = Range(waitq[v]) \cup {running_q}
        /\ IsInjective(Append(waitq[v], running_q))
    BY <2>1, <1>2, <1>3, AppendQueue
  <2>3. waitq' = [waitq EXCEPT ![w] = b, ![v] = Append(@, running_q)]
    BY DEF b
  <2>4. waitq \in [WaitQ -> Seq(Node)]
    BY DEF IInv, TypeOK
  <2>5. /\ waitq'[v] = Append(waitq[v], running_q) /\ waitq'[w] = b
        /\ \A u \in WaitQ : u # v /\ u # w => waitq'[u] = waitq[u]
    BY <2>3, <2>4
  <2>6. DOMAIN waitq' = WaitQ /\ \A u \in WaitQ : waitq'[u] \in Seq(Node)
    BY <2>2, <2>3, <2>4, <2>5, <1>1
  <2>7. waitq' \in [WaitQ -> Seq(Node)]
    BY <2>3, <2>6
  <2>8. QED
    BY <2>2, <2>5, <2>7
<1>7. \A u \in WaitQ : Range(waitq'[u]) \subseteq Range(waitq[u]) \cup {running_q}
  BY <1>1, <1>6
<1>8. WaitingMatches'
  <2>1. \A u \in WaitQ : IsInjective(waitq'[u])
    BY <1>1, <1>6 DEF IInv, StatusMatchesQueues, WaitingMatches
  <2>2. \A u \in WaitQ : running_q \in Range(waitq'[u]) => u = v
    BY <1>1, <1>3, <1>6
  <2>3. \A u, x \in WaitQ : u # x => Range(waitq'[u]) \cap Range(waitq'[x]) = {}
    <3>1. \A u, x \in WaitQ : u # x => Range(waitq[u]) \cap Range(waitq[x]) = {}
      BY DEF IInv, StatusMatchesQueues, WaitingMatches
    <3>2. SUFFICES ASSUME NEW u \in WaitQ, NEW x \in WaitQ, u # x,
                          NEW n \in Range(waitq'[u]), n \in Range(waitq'[x])
                   PROVE  FALSE
      OBVIOUS
    <3>3. n # running_q
      BY <2>2, <3>2
    <3>4. n \in Range(waitq[u]) /\ n \in Range(waitq[x])
      BY <3>2, <3>3, <1>7
    <3>5. QED
      BY <3>1, <3>2, <3>4
  <2>4. ASSUME NEW u \in WaitQ, NEW n \in Range(waitq'[u])
        PROVE  Registered(n)' /\ status'[id'[n]] = "WAITING"
    <3>1. CASE n = running_q
      BY <3>1, <1>2, <1>3, <1>4 DEF Registered
    <3>2. CASE n # running_q
      <4>1. n \in Range(waitq[u])
        BY <3>2, <2>4, <1>7
      <4>2. n \in Node /\ id[n] \in Tid /\ status[id[n]] = "WAITING" /\ nodes[id[n]] = n
            /\ pc[n] # "free"
        BY <4>1, WaitingNode
      <4>3. n \notin Range(a)
        <5>1. u # w => Range(waitq[u]) \cap Range(waitq[w]) = {}
          BY DEF IInv, StatusMatchesQueues, WaitingMatches
        <5>2. CASE u = w
          BY <5>2, <2>4, <1>1, <1>6
        <5>3. CASE u # w
          BY <5>1, <5>3, <4>1, <1>1
        <5>4. QED
          BY <5>2, <5>3
      <4>4. id[n] \notin IdsOf(Woken(w, k))
        BY <4>2, <4>3, <1>1 DEF IdsOf, a
      <4>5. QED
        BY <3>2, <4>2, <4>4, <1>2, <1>3, <1>4 DEF Registered
    <3>3. QED
      BY <3>1, <3>2
  <2>5. ASSUME NEW t \in Tid, status'[t] = "WAITING"
        PROVE  \E u \in WaitQ : nodes'[t] \in Range(waitq'[u])
    <3>1. CASE t = Me
      BY <3>1, <1>3, <1>6
    <3>2. CASE t # Me
      <4>1. status[t] = "WAITING" /\ t \notin IdsOf(Woken(w, k))
        BY <3>2, <2>5, <1>4
      <4>2. PICK u \in WaitQ : nodes[t] \in Range(waitq[u])
        BY <4>1 DEF IInv, StatusMatchesQueues, WaitingMatches
      <4>3. nodes[t] \notin Range(a)
        BY <4>1 DEF IInv, NodesOfLiveThreads, IdsOf, a
      <4>4. nodes[t] \in Range(waitq'[u])
        BY <4>2, <4>3, <1>1, <1>6
      <4>5. QED
        BY <4>4
    <3>3. QED
      BY <3>1, <3>2
  <2>6. QED
    BY <2>1, <2>3, <2>4, <2>5 DEF WaitingMatches
<1>9. want' \in Tid /\ status'[want'] = "READY"
  <2>1. Head(ready_q') \in Range(ready_q') /\ Range(ready_q') \subseteq Node
    BY <1>5, RangeOfQueue
  <2>2. QED
    BY <2>1, <1>5 DEF ReadyMatches, IInv, TypeOK
<1>10. TypeOK'
  BY <1>2, <1>4, <1>5, <1>6, <1>9 DEF IInv, TypeOK
<1>11. StatusMatchesQueues'
  <2>1. RunningMatches'
    BY <1>2, <1>3, <1>4 DEF RunningMatches
  <2>2. QED
    BY <2>1, <1>5, <1>8 DEF StatusMatchesQueues
<1>12. \A t \in Tid : status'[t] # "EMPTY" => status[t] # "EMPTY"
  BY <1>3, <1>4
<1>13. NodesOfLiveThreads'
  BY <1>2, <1>12 DEF IInv, NodesOfLiveThreads
<1>14. ReapIsSafe'
  <2>1. Range(exit_q) \subseteq Node
    BY RangeOfQueue DEF IInv, TypeOK
  <2>2. QED
    BY <2>1, <1>2 DEF IInv, ReapIsSafe
<1>15. SavedContexts'
  <2>1. \A u \in Tid : status'[u] # "EMPTY" => back'[nodes'[u]] \in InPackageOrClient
    BY <1>2, <1>12 DEF IInv, SavedContexts, NodesOfLiveThreads
  <2>2. QED
    BY <2>1, <1>2 DEF IInv, SavedContexts
<1>16. WantedIsReady'
  BY <1>9 DEF WantedIsReady
<1>17. QED
  BY <1>10, <1>11, <1>13, <1>14, <1>15, <1>16 DEF IInv
-----------------------------------------------------------------------------
(* The package's invariant survives the calls on locks and condition        *)
(* variables, which are not steps of the package.                           *)
LEMMA LockLoop ==
  ASSUME MInv, InLockAcquire
  PROVE  /\ running_q \in Node /\ lockFor[running_q] \in Lock /\ lockFor[running_q] \in queues
         /\ inside[running_q] = {} /\ InLoop(running_q)
<1>1. running_q \in Node /\ InLoop(running_q)
  BY DEF MInv, IInv, TypeOK, InLockAcquire, InLoop
<1>2. QED
  BY <1>1 DEF MInv, LocksInv, MTypeOK, CallsMatchLocks, HoldersGoOn

LEMMA ReleaseStep ==
  ASSUME IInv, InUser, NEW w \in UserQ, WakeupFirst(w, Len(waitq[w])),
         UNCHANGED <<nodes, exit_q, running_q, queues, id, pc, back, yield_count,
                     want, waitFor, halted>>
  PROVE  IInv'
<1>1. w \in WaitQ /\ Len(waitq[w]) \in 0 .. Len(waitq[w])
  BY LenProperties DEF IInv, TypeOK
<1>2. QED
  BY <1>1, WakeupFirstStep

LEMMA SignalStep ==
  ASSUME IInv, NEW c \in CV, NEW l \in Lock, CvSignal(c, l) \/ CvBroadcast(c, l)
  PROVE  /\ IInv'
         /\ \E k \in 0 .. Len(waitq[c]) : CvWakeup(c, l, k)
<1>1. c \in WaitQ /\ waitq[c] \in Seq(Node) /\ Len(waitq[c]) \in Nat
  BY QueueNames, LenProperties DEF IInv, TypeOK
<1>2. PICK k \in 0 .. Len(waitq[c]) : CvWakeup(c, l, k)
  <2>1. waitq[c] # <<>> => 1 \in 0 .. Len(waitq[c])
    BY <1>1, RangeOfQueue
  <2>2. Len(waitq[c]) \in 0 .. Len(waitq[c])
    BY <1>1
  <2>3. QED
    BY <2>1, <2>2 DEF CvSignal, CvBroadcast
<1>3. IInv'
  BY <1>1, <1>2, WakeupFirstStep DEF CvWakeup
<1>4. QED
  BY <1>2, <1>3

(* What cv_wait does, whether it switches or not.                           *)
LEMMA CvWaitFacts ==
  ASSUME IInv, NEW c \in CV, NEW l \in Lock, CvWait(c, l)
  PROVE  LET k == Len(waitq[l])
         IN  /\ k \in 0 .. Len(waitq[l]) /\ waitq[l] \in Seq(Node) /\ waitq[c] \in Seq(Node)
             /\ SubSeq(waitq[l], k + 1, Len(waitq[l])) = <<>>
             /\ InUser /\ c \in queues /\ l \in queues /\ lockTid[l] = Me
             /\ lockState' = [lockState EXCEPT ![l] = FREE]
             /\ inside' = [inside EXCEPT ![running_q] = @ \ {l}]
             /\ lockFor' = [lockFor EXCEPT ![running_q] = l]
             /\ cvFor' = [cvFor EXCEPT ![running_q] = c]
             /\ ready_q' = ready_q \o Woken(l, k)
             /\ \/ /\ ready_q' # <<>>
                   /\ status' = [[t \in Tid |-> IF t \in IdsOf(Woken(l, k)) THEN "READY"
                                                ELSE status[t]] EXCEPT ![Me] = "WAITING"]
                   /\ waitq' = [waitq EXCEPT ![l] = SubSeq(@, k + 1, Len(@)),
                                             ![c] = Append(@, running_q)]
                   /\ want' = id[Head(ready_q')]
                   /\ pc' = [pc EXCEPT ![running_q] = "getcontext"]
                   /\ back' = [back EXCEPT ![running_q] = "lock"]
                \/ /\ ready_q' = <<>> /\ ready_q = <<>> /\ waitq[l] = <<>>
                   /\ pc' = [pc EXCEPT ![running_q] = "lock"]
                   /\ UNCHANGED <<status, waitq, want, back>>
             /\ UNCHANGED <<nodes, exit_q, running_q, queues, id, yield_count, waitFor,
                            halted, lockTid>>
<1> DEFINE k == Len(waitq[l])
<1>1. waitq[l] \in Seq(Node) /\ waitq[c] \in Seq(Node) /\ k \in Nat /\ k \in 0 .. Len(waitq[l])
  <2>1. waitq[l] \in Seq(Node) /\ waitq[c] \in Seq(Node)
    BY QueueNames DEF IInv, TypeOK
  <2>2. k \in Nat
    BY <2>1, LenProperties
  <2>3. QED
    BY <2>1, <2>2
<1>2. SubSeq(waitq[l], k + 1, Len(waitq[l])) = <<>>
  BY <1>1, SubSeqEmpty
<1>3. ready_q \o Woken(l, k) = <<>> => ready_q = <<>> /\ waitq[l] = <<>>
  <2>1. Woken(l, k) \in Seq(Node) /\ ready_q \in Seq(Node)
    BY <1>1, CutQueue DEF Woken, IInv, TypeOK
  <2>2. Range(ready_q \o Woken(l, k)) = Range(ready_q) \cup Range(Woken(l, k))
    BY <2>1, ConcatQueue
  <2>3. Range(waitq[l]) = Range(Woken(l, k))
    <3>1. Range(waitq[l]) = Range(Woken(l, k)) \cup Range(SubSeq(waitq[l], k + 1, Len(waitq[l])))
      BY <1>1, CutQueue DEF Woken
    <3>2. QED
      BY <3>1, <1>2, EmptyQueue
  <2>4. QED
    BY <2>1, <2>2, <2>3, <1>1, RangeOfQueue, EmptyQueue
<1> HIDE DEF k
<1>4. QED
  BY <1>1, <1>2, <1>3 DEF CvWait, AllWaiters, Unlocked, Enqueue, SleepQueue, k

LEMMA CvWaitSleeps ==
  ASSUME IInv, NEW c \in CV, NEW l \in Lock, CvWait(c, l), ready_q' # <<>>
  PROVE  \E k \in 0 .. Len(waitq[l]) :
           /\ SubSeq(waitq[l], k + 1, Len(waitq[l])) = <<>>
           /\ ready_q' = ready_q \o Woken(l, k)
           /\ status' = [[t \in Tid |-> IF t \in IdsOf(Woken(l, k)) THEN "READY" ELSE status[t]]
                           EXCEPT ![Me] = "WAITING"]
           /\ waitq' = [waitq EXCEPT ![l] = SubSeq(@, k + 1, Len(@)), ![c] = Append(@, running_q)]
           /\ want' = id[Head(ready_q')]
           /\ pc' = [pc EXCEPT ![running_q] = "getcontext"]
           /\ back' = [back EXCEPT ![running_q] = "lock"]
BY CvWaitFacts, Zenon

LEMMA CvWaitStep ==
  ASSUME IInv, NEW c \in CV, NEW l \in Lock, CvWait(c, l)
  PROVE  IInv'
<1>1. c \in WaitQ /\ l \in WaitQ /\ c # l
  BY QueueNames
<1>2. waitFor' \in [Node -> Tid \cup {NULL}]
  BY CvWaitFacts DEF IInv, TypeOK
<1>3. CASE ready_q' # <<>>
  <2>1. PICK k \in 0 .. Len(waitq[l]) :
          /\ ready_q' = ready_q \o Woken(l, k)
          /\ status' = [[t \in Tid |-> IF t \in IdsOf(Woken(l, k)) THEN "READY" ELSE status[t]]
                          EXCEPT ![Me] = "WAITING"]
          /\ waitq' = [waitq EXCEPT ![l] = SubSeq(@, k + 1, Len(@)), ![c] = Append(@, running_q)]
          /\ want' = id[Head(ready_q')]
          /\ pc' = [pc EXCEPT ![running_q] = "getcontext"]
          /\ back' = [back EXCEPT ![running_q] = "lock"]
    BY <1>3, CvWaitSleeps
  <2>2. /\ InUser
        /\ UNCHANGED <<nodes, exit_q, running_q, queues, id, yield_count, waitFor, halted>>
    BY CvWaitFacts
  <2>3. QED
    BY <1>1, <1>3, <2>1, <2>2, WakeAndSleepStep
<1>4. CASE ready_q' = <<>>
  BY <1>2, <1>4, CvWaitFacts, MoveOnStep DEF InUser
<1>5. QED
  BY <1>3, <1>4

LEMMA NextThreads == MInv /\ [MNext]_allVars => IInv'
<1> SUFFICES ASSUME MInv, [MNext]_allVars PROVE IInv'
  OBVIOUS
<1>1. IInv
  BY DEF MInv
<1>2. CASE PackageStep \/ Exit
  <2>1. [Next]_vars
    BY <1>2 DEF PackageStep, Next
  <2>2. QED
    BY <1>1, <2>1, NextIInv
<1>3. CASE LockSleep
  <2>1. lockFor[running_q] \in WaitQ /\ waitFor' \in [Node -> Tid \cup {NULL}]
    BY <1>1, <1>3, LockLoop, QueueNames DEF LockSleep, IInv, TypeOK
  <2>2. QED
    BY <1>1, <1>3, <2>1, SleepStep DEF LockSleep, InLockAcquire
<1>4. ASSUME LockTake \/ \E l \in Lock : LockAcquire(l) PROVE IInv'
  <2>1. waitFor' \in [Node -> Tid \cup {NULL}]
    BY <1>1, <1>4 DEF LockTake, LockAcquire, IInv, TypeOK
  <2>2. QED
    BY <1>1, <1>4, <2>1, MoveOnStep DEF LockTake, LockAcquire, InLockAcquire, InUser
<1>5. ASSUME NEW w \in UserQ, WaitQueueCreate(w) \/ (waitq[w] = <<>> /\ WaitQueueDestroy(w))
      PROVE  IInv'
  <2>1. [Next]_vars
    BY <1>5 DEF Next
  <2>2. QED
    BY <1>1, <2>1, NextIInv
<1>6. ASSUME NEW c \in CV, CvCreate(c) \/ (waitq[c] = <<>> /\ CvDestroy(c)) PROVE IInv'
  BY <1>5, <1>6, MonitorsAssumption DEF CvCreate, CvDestroy
<1>7. ASSUME NEW l \in Lock, LockCreate(l) \/ LockDestroy(l) PROVE IInv'
  <2>1. LockDestroy(l) => waitq[l] = <<>>
    BY DEF LockDestroy, MInv, LocksInv, NoSleeperOnFreeLock
  <2>2. QED
    BY <1>5, <1>7, <2>1, MonitorsAssumption DEF LockCreate, LockDestroy
<1>8. ASSUME NEW l \in Lock, LockRelease(l) PROVE IInv'
  BY <1>1, <1>8, ReleaseStep, MonitorsAssumption DEF LockRelease, AllWaiters
<1>9. ASSUME NEW l \in Lock, NEW c \in CV, CvWait(c, l) \/ CvSignal(c, l) \/ CvBroadcast(c, l)
      PROVE  IInv'
  BY <1>1, <1>9, CvWaitStep, SignalStep
<1>10. CASE UNCHANGED allVars
  <2>1. [Next]_vars
    BY <1>10 DEF allVars
  <2>2. QED
    BY <1>1, <2>1, NextIInv
<1>11. QED
  BY <1>2, <1>3, <1>4, <1>6, <1>7, <1>8, <1>9, <1>10 DEF MNext
-----------------------------------------------------------------------------
(* A step of the package keeps LocksInv if it keeps its hands off the       *)
(* clients' queues, does not lose the thread that has a lock and takes no   *)
(* thread into the loop of lock_acquire that was not there.                 *)
LEMMA PackageFrame ==
  ASSUME MInv, IInv', UNCHANGED monitorVars, queues' = queues,
         \A w \in UserQ : waitq'[w] = waitq[w],
         ~halted', pc[running_q] # "lock",
         \A n \in Node : inside[n] # {} =>
           id'[n] = id[n] /\ Registered(n)' /\ status'[id[n]] \in {"READY", "RUNNING"},
         \A n \in Node : InLoop(n)' => InLoop(n)
  PROVE  LocksInv'
<1> USE DEF monitorVars
<1>1. MTypeOK'
  BY DEF MInv, LocksInv, MTypeOK, IInv
<1>2. MutualExclusion'
  BY DEF MInv, LocksInv, MutualExclusion
<1>3. NoSleeperOnFreeLock'
  BY MonitorsAssumption DEF MInv, LocksInv, NoSleeperOnFreeLock
<1>4. \A n \in Node : cvFor[n] # NULL => cvFor[n] \in CV /\ n \in Range(waitq'[cvFor[n]])
  <2>1. \A n \in Node : cvFor[n] # NULL => cvFor[n] \in CV /\ n \in Range(waitq[cvFor[n]])
    BY DEF MInv, LocksInv, NoLostSignal, MTypeOK
  <2>2. QED
    BY <2>1, MonitorsAssumption
<1>5. NoLostSignal'
  BY <1>4 DEF NoLostSignal
<1>6. HoldersGoOn'
  BY DEF MInv, LocksInv, HoldersGoOn
<1>7. TakenLocksHeld'
  BY DEF MInv, LocksInv, TakenLocksHeld
<1>8. CallsMatchLocks'
  BY DEF MInv, LocksInv, CallsMatchLocks
<1>9. RefusedGoesOn'
  <2>1. SUFFICES ASSUME pc'[running_q'] = "lock", cvFor[running_q'] # NULL PROVE FALSE
    BY DEF RefusedGoesOn
  <2>2. running_q' \in Node /\ status'[id'[running_q']] = "RUNNING"
    BY <2>1 DEF IInv, TypeOK, StatusMatchesQueues, RunningMatches, Leaving, Me
  <2>3. cvFor[running_q'] \in WaitQ /\ running_q' \in Range(waitq'[cvFor[running_q']])
    BY <2>1, <2>2, <1>4, QueueNames
  <2>4. status'[id'[running_q']] = "WAITING"
    BY <2>3 DEF IInv, StatusMatchesQueues, WaitingMatches
  <2>5. QED
    BY <2>2, <2>4
<1>10. QED
  BY <1>1, <1>2, <1>3, <1>5, <1>6, <1>7, <1>8, <1>9 DEF LocksInv

(* The nodes of the threads that have a lock.                               *)
LEMMA HolderNode ==
  ASSUME MInv, NEW n \in Node, inside[n] # {}
  PROVE  /\ id[n] \in Tid /\ nodes[id[n]] = n /\ pc[n] # "free"
         /\ status[id[n]] \in {"READY", "RUNNING"} /\ lockFor[n] = NULL
         /\ n \notin Range(exit_q)
<1>1. id[n] \in Tid /\ nodes[id[n]] = n /\ pc[n] # "free"
      /\ status[id[n]] \in {"READY", "RUNNING"} /\ lockFor[n] = NULL
  BY DEF MInv, IInv, TypeOK, LocksInv, HoldersGoOn, Registered
<1>2. n \notin Range(exit_q)
  BY <1>1 DEF MInv, IInv, NodesOfLiveThreads
<1>3. QED
  BY <1>1, <1>2

LEMMA PackageLocks == MInv /\ PackageStep => LocksInv'
<1> SUFFICES ASSUME MInv, PackageStep PROVE LocksInv'
  OBVIOUS
<1>1. IInv /\ IInv' /\ UNCHANGED monitorVars
  <2>1. [MNext]_allVars
    BY DEF MNext
  <2>2. QED
    BY <2>1, NextThreads DEF MInv, PackageStep
<1>2. running_q \in Node /\ pc \in [Node -> Label] /\ back \in [Node -> Label]
      /\ status \in [Tid -> Status] /\ waitq \in [WaitQ -> Seq(Node)]
  BY <1>1 DEF IInv, TypeOK
<1>3. \A n \in Node : inside[n] # {} =>
        /\ id[n] \in Tid /\ nodes[id[n]] = n /\ pc[n] # "free"
        /\ status[id[n]] \in {"READY", "RUNNING"} /\ n \notin Range(exit_q)
  BY HolderNode
<1>4. CASE Start \/ WaitReturn
  <2>1. ~halted' /\ queues' = queues /\ waitq' = waitq /\ pc[running_q] # "lock"
        /\ \A n \in Node : InLoop(n)' => InLoop(n)
    BY <1>2, <1>4 DEF Start, WaitReturn, InLoop
  <2>2. \A n \in Node : inside[n] # {} =>
          id'[n] = id[n] /\ Registered(n)' /\ status'[id[n]] \in {"READY", "RUNNING"}
    <3>1. /\ UNCHANGED <<id, nodes, status>> /\ pc' = [pc EXCEPT ![running_q] = "user"]
      BY <1>4 DEF Start, WaitReturn
    <3>2. \A n \in Node : pc[n] # "free" => pc'[n] # "free"
      BY <3>1, <1>2
    <3>3. QED
      BY <3>1, <3>2, <1>3 DEF Registered
  <2>3. QED
    BY <1>1, <2>1, <2>2, PackageFrame
<1>5. CASE Create
  <2>1. ~halted' /\ queues' = queues /\ waitq' = waitq /\ pc[running_q] # "lock"
        /\ \A n \in Node : InLoop(n)' => InLoop(n)
    BY <1>2, <1>5 DEF Create, InUser, InLoop
  <2>2. \A n \in Node : inside[n] # {} =>
          id'[n] = id[n] /\ Registered(n)' /\ status'[id[n]] \in {"READY", "RUNNING"}
    <3>1. PICK t \in Tid, m \in Node :
            /\ status[t] = "EMPTY" /\ pc[m] = "free"
            /\ id' = [id EXCEPT ![m] = t] /\ pc' = [pc EXCEPT ![m] = "stub"]
            /\ status' = [status EXCEPT ![t] = "READY"] /\ nodes' = [nodes EXCEPT ![t] = m]
      BY <1>5 DEF Create, LowestEmpty
    <3>2. id \in [Node -> Tid] /\ nodes \in [Tid -> Node \cup {NULL}]
      BY <1>1 DEF IInv, TypeOK
    <3>3. SUFFICES ASSUME NEW n \in Node, inside[n] # {}
                   PROVE  id'[n] = id[n] /\ nodes'[id[n]] = n /\ pc'[n] # "free"
                          /\ status'[id[n]] \in {"READY", "RUNNING"}
      BY DEF Registered
    <3>4. n # m /\ id[n] # t
      BY <3>1, <3>3, <1>3
    <3>5. QED
      BY <3>1, <3>2, <3>3, <3>4, <1>2, <1>3
  <2>3. QED
    BY <1>1, <2>1, <2>2, PackageFrame
<1>6. ASSUME NEW t \in Tid, InUser, Yield(t) PROVE LocksInv'
  <2>1. ~halted' /\ queues' = queues /\ waitq' = waitq /\ pc[running_q] # "lock"
        /\ \A n \in Node : InLoop(n)' => InLoop(n)
    BY <1>2, <1>6 DEF Yield, InUser, InLoop
  <2>2. \A n \in Node : inside[n] # {} =>
          id'[n] = id[n] /\ Registered(n)' /\ status'[id[n]] \in {"READY", "RUNNING"}
    BY <1>2, <1>3, <1>6 DEF Yield, Registered
  <2>3. QED
    BY <1>1, <2>1, <2>2, PackageFrame
<1>7. CASE Switch
  <2>1. ~halted' /\ queues' = queues /\ waitq' = waitq /\ pc[running_q] # "lock"
        /\ \A n \in Node : InLoop(n)' => InLoop(n)
    BY <1>2, <1>7 DEF Switch, InLoop
  <2>2. \A n \in Node : inside[n] # {} =>
          id'[n] = id[n] /\ Registered(n)' /\ status'[id[n]] \in {"READY", "RUNNING"}
    BY <1>2, <1>3, <1>7 DEF Switch, Registered
  <2>3. QED
    BY <1>1, <2>1, <2>2, PackageFrame
<1>8. CASE Resume
  <2>1. ~halted' /\ queues' = queues /\ waitq' = waitq /\ pc[running_q] # "lock"
        /\ running_q \notin Range(exit_q) /\ nodes' = nodes /\ status' = status
    <3>1. ~halted /\ ~Leaving
      BY <1>8 DEF Resume, Leaving
    <3>2. QED
      BY <3>1, <1>1, <1>8, RunningThread DEF Resume
  <2>2. \A n \in Node : InLoop(n)' => InLoop(n)
    BY <1>2, <1>8 DEF Resume, InLoop, Freed
  <2>3. \A n \in Node : inside[n] # {} =>
          id'[n] = id[n] /\ Registered(n)' /\ status'[id[n]] \in {"READY", "RUNNING"}
    <3>1. back[running_q] # "free"
      BY <1>8, <1>1, <2>1, RunningThread DEF Resume, Leaving, IInv, SavedContexts
    <3>2. \A n \in Node \ Range(exit_q) : id'[n] = id[n] /\ (pc[n] # "free" => pc'[n] # "free")
      BY <3>1, <1>2, <1>8 DEF Resume, Freed
    <3>3. QED
      BY <3>2, <2>1, <1>3 DEF Registered
  <2>4. QED
    BY <1>1, <2>1, <2>2, <2>3, PackageFrame
<1>9. ASSUME NEW t \in Tid, HoldsNone, Wait(t) PROVE LocksInv'
  <2>1. ~halted' /\ queues' = queues /\ pc[running_q] # "lock"
        /\ \A n \in Node : InLoop(n)' => InLoop(n)
    BY <1>2, <1>9 DEF Wait, SleepOn, InUser, InLoop
  <2>2. \A w \in UserQ : waitq'[w] = waitq[w]
    <3>1. \A w \in UserQ : w # t
      BY ThreadsAssumption
    <3>2. waitq' = waitq \/ waitq' = [waitq EXCEPT ![t] = Append(@, running_q)]
      BY <1>9 DEF Wait, SleepOn, Enqueue
    <3>3. QED
      BY <3>1, <3>2, <1>2
  <2>3. \A n \in Node : inside[n] # {} => n # running_q /\ id[n] # Me
    <3>1. ~halted /\ ~Leaving
      BY <1>9 DEF Wait, InUser, Leaving
    <3>2. nodes[Me] = running_q
      BY <3>1, <1>1, RunningThread
    <3>3. QED
      BY <3>2, <1>3, <1>9 DEF HoldsNone
  <2>4. \A n \in Node : inside[n] # {} =>
          id'[n] = id[n] /\ Registered(n)' /\ status'[id[n]] \in {"READY", "RUNNING"}
    <3>1. /\ UNCHANGED <<id, nodes>>
          /\ status' = status \/ status' = [status EXCEPT ![Me] = "WAITING"]
          /\ \/ pc' = [pc EXCEPT ![running_q] = "getcontext"]
             \/ pc' = [pc EXCEPT ![running_q] = "waited"]
      BY <1>9 DEF Wait, SleepOn
    <3>2. \A n \in Node : pc[n] # "free" => pc'[n] # "free"
      BY <3>1, <1>2
    <3>3. \A u \in Tid : u # Me => status'[u] = status[u]
      BY <3>1, <1>2
    <3>4. QED
      BY <3>1, <3>2, <3>3, <2>3, <1>3 DEF Registered
  <2>5. QED
    BY <1>1, <2>1, <2>2, <2>4, PackageFrame
<1>10. CASE Halted
  BY <1>1, <1>10 DEF Halted, MInv, LocksInv, vars, monitorVars, MTypeOK, IInv, MutualExclusion, NoSleeperOnFreeLock, NoLostSignal,
     HoldersGoOn, TakenLocksHeld, CallsMatchLocks, InLoop, RefusedGoesOn, Registered
<1>11. CASE TimerInterrupt \/ \E t \in Tid : YieldTo(t)
  BY <1>1, <1>6, <1>11, ReadyHead DEF TimerInterrupt, YieldAny, YieldTo
<1>12. QED
  BY <1>4, <1>5, <1>7, <1>8, <1>9, <1>10, <1>11 DEF PackageStep
-----------------------------------------------------------------------------
(* lock_acquire: the call, its loop, and its return.                        *)
LEMMA InClient ==
  ASSUME MInv, InUser
  PROVE  /\ IInv /\ running_q \in Node /\ Me \in Tid /\ id[running_q] = Me
         /\ status[Me] = "RUNNING" /\ nodes[Me] = running_q /\ ~Leaving
         /\ \A w \in WaitQ : running_q \notin Range(waitq[w])
         /\ cvFor[running_q] = NULL
         /\ \A n \in Node : cvFor[n] # NULL => cvFor[n] \in CV /\ n \in Range(waitq[cvFor[n]])
<1>1. /\ IInv /\ ~halted /\ ~Leaving /\ running_q \in Node /\ pc[running_q] = "user"
  BY DEF MInv, InUser, Leaving, IInv, TypeOK
<1>2. /\ Me \in Tid /\ status[Me] = "RUNNING" /\ nodes[Me] = running_q
      /\ \A w \in WaitQ : running_q \notin Range(waitq[w])
  BY <1>1, RunningThread
<1>3. \A n \in Node : cvFor[n] # NULL => cvFor[n] \in CV /\ n \in Range(waitq[cvFor[n]])
  BY <1>1 DEF MInv, LocksInv, NoLostSignal, MTypeOK
<1>4. cvFor[running_q] = NULL
  BY <1>1, <1>2, <1>3, QueueNames
<1>5. QED
  BY <1>1, <1>2, <1>3, <1>4 DEF Me

LEMMA LockAcquireLocks ==
  ASSUME MInv, IInv', NEW l \in Lock, HoldsNone, LockAcquire(l)
  PROVE  LocksInv'
<1>1. /\ InUser /\ l \in queues /\ pc' = [pc EXCEPT ![running_q] = "lock"]
      /\ lockFor' = [lockFor EXCEPT ![running_q] = l] /\ inside[running_q] = {}
      /\ UNCHANGED <<status, nodes, ready_q, running_q, waitq, queues, id, back,
                     lockState, lockTid, cvFor, inside>>
  BY DEF LockAcquire, HoldsNone
<1>2. /\ running_q \in Node /\ cvFor[running_q] = NULL /\ l # NULL
      /\ \A n \in Node : n # running_q =>
           lockFor'[n] = lockFor[n] /\ pc'[n] = pc[n]
      /\ lockFor'[running_q] = l /\ pc'[running_q] = "lock"
      /\ lockFor' \in [Node -> Lock \cup {NULL}]
  <2>1. running_q \in Node /\ cvFor[running_q] = NULL /\ l # NULL
    BY <1>1, InClient, QueueNames
  <2>2. pc \in [Node -> Label] /\ lockFor \in [Node -> Lock \cup {NULL}]
    BY DEF MInv, IInv, TypeOK, LocksInv, MTypeOK
  <2>3. QED
    BY <2>1, <2>2, <1>1
<1>3. MTypeOK'
  BY <1>1, <1>2 DEF MInv, LocksInv, MTypeOK, IInv
<1>4. MutualExclusion'
  BY <1>1 DEF MInv, LocksInv, MutualExclusion
<1>5. NoSleeperOnFreeLock'
  BY <1>1 DEF MInv, LocksInv, NoSleeperOnFreeLock
<1>6. NoLostSignal'
  BY <1>1, InClient DEF NoLostSignal
<1>7. HoldersGoOn'
  BY <1>1, <1>2 DEF MInv, LocksInv, HoldersGoOn, Registered
<1>8. TakenLocksHeld'
  BY <1>1 DEF MInv, LocksInv, TakenLocksHeld
<1>9. CallsMatchLocks'
  BY <1>1, <1>2 DEF MInv, LocksInv, CallsMatchLocks, InLoop
<1>10. RefusedGoesOn'
  BY <1>1, <1>2 DEF RefusedGoesOn
<1>11. QED
  BY <1>3, <1>4, <1>5, <1>6, <1>7, <1>8, <1>9, <1>10 DEF LocksInv

(* The lock is taken, so a cv_wait that was refused is not in the loop any  *)
(* more and the thread sleeps on a lock somebody has.                       *)
LEMMA LockSleepLocks ==
  ASSUME MInv, IInv', LockSleep
  PROVE  LocksInv'
<1> DEFINE l == lockFor[running_q]
<1>1. /\ running_q \in Node /\ l \in Lock /\ inside[running_q] = {} /\ InLoop(running_q)
      /\ l # NULL /\ l \in WaitQ
  BY LockLoop, QueueNames DEF LockSleep
<1>2. /\ lockState[l] = ACQUIRED /\ pc[running_q] = "lock" /\ ~halted /\ ~Leaving
      /\ waitq' = [waitq EXCEPT ![l] = Append(@, running_q)]
      /\ status' = [status EXCEPT ![Me] = "WAITING"]
      /\ pc' = [pc EXCEPT ![running_q] = "getcontext"]
      /\ back' = [back EXCEPT ![running_q] = "lock"]
      /\ UNCHANGED <<nodes, running_q, queues, id, lockState, lockTid, lockFor, cvFor, inside>>
  BY DEF LockSleep, InLockAcquire, Busy, SleepOn, Enqueue, Leaving
<1>3. /\ IInv /\ Me \in Tid /\ nodes[Me] = running_q
      /\ pc'[running_q] = "getcontext"
      /\ \A n \in Node : n # running_q => pc'[n] = pc[n] /\ back'[n] = back[n]
      /\ \A k \in UserQ : k # l => waitq'[k] = waitq[k]
      /\ status'[Me] = "WAITING" /\ \A t \in Tid : t # Me => status'[t] = status[t]
  <2>1. IInv /\ Me \in Tid /\ nodes[Me] = running_q
    BY <1>2, RunningThread DEF MInv
  <2>2. /\ pc \in [Node -> Label] /\ back \in [Node -> Label]
        /\ waitq \in [WaitQ -> Seq(Node)] /\ status \in [Tid -> Status]
    BY <2>1 DEF IInv, TypeOK
  <2> HIDE DEF l
  <2>3. QED
    BY <2>1, <2>2, <1>1, <1>2
<1> HIDE DEF l
<1>4. cvFor[running_q] = NULL
  BY <1>2 DEF MInv, LocksInv, RefusedGoesOn, l
<1>5. MTypeOK'
  BY <1>2 DEF MInv, LocksInv, MTypeOK, IInv
<1>6. MutualExclusion'
  BY <1>2 DEF MInv, LocksInv, MutualExclusion
<1>7. NoSleeperOnFreeLock'
  BY <1>2, <1>3, MonitorsAssumption DEF MInv, LocksInv, NoSleeperOnFreeLock
<1>8. NoLostSignal'
  <2>1. \A n \in Node : cvFor[n] # NULL => cvFor[n] \in CV /\ n \in Range(waitq[cvFor[n]])
    BY <1>4 DEF MInv, LocksInv, NoLostSignal, MTypeOK
  <2>2. \A c \in CV : waitq'[c] = waitq[c]
    BY <1>1, <1>3, MonitorsAssumption
  <2>3. QED
    BY <2>1, <2>2, <1>2 DEF NoLostSignal
<1>9. HoldersGoOn'
  <2>1. SUFFICES ASSUME NEW n \in Node, inside[n] # {}
                 PROVE  Registered(n)' /\ status'[id[n]] \in {"READY", "RUNNING"}
    BY <1>2 DEF MInv, LocksInv, HoldersGoOn
  <2>2. n # running_q /\ id[n] # Me
    BY <2>1, <1>1, <1>3, HolderNode
  <2>3. QED
    BY <2>1, <2>2, <1>2, <1>3, HolderNode DEF Registered
<1>10. TakenLocksHeld'
  BY <1>2 DEF MInv, LocksInv, TakenLocksHeld
<1>11. CallsMatchLocks'
  BY <1>1, <1>2, <1>3 DEF MInv, LocksInv, CallsMatchLocks, InLoop
<1>12. RefusedGoesOn'
  BY <1>2, <1>3 DEF RefusedGoesOn
<1>13. QED
  BY <1>5, <1>6, <1>7, <1>8, <1>9, <1>10, <1>11, <1>12 DEF LocksInv

LEMMA LockTakeLocks ==
  ASSUME MInv, IInv', LockTake
  PROVE  LocksInv'
<1> DEFINE l == lockFor[running_q]
<1>1. /\ running_q \in Node /\ l \in Lock /\ l \in queues /\ inside[running_q] = {}
      /\ InLoop(running_q) /\ l # NULL
  BY LockLoop, QueueNames DEF LockTake
<1>2. /\ lockState[l] # ACQUIRED /\ pc[running_q] = "lock" /\ ~halted /\ ~Leaving
      /\ lockState' = [lockState EXCEPT ![l] = ACQUIRED]
      /\ lockTid' = [lockTid EXCEPT ![l] = Me]
      /\ pc' = [pc EXCEPT ![running_q] = "user"]
      /\ lockFor' = [lockFor EXCEPT ![running_q] = NULL]
      /\ cvFor' = [cvFor EXCEPT ![running_q] = NULL]
      /\ inside' = [inside EXCEPT ![running_q] = @ \cup {l}]
      /\ UNCHANGED <<status, nodes, ready_q, running_q, waitq, queues, id, back>>
  BY DEF LockTake, InLockAcquire, Busy, Marked, Leaving
<1>3. IInv /\ Me \in Tid /\ status[Me] = "RUNNING" /\ nodes[Me] = running_q /\ id[running_q] = Me
  BY <1>2, RunningThread DEF MInv, Me
<1> HIDE DEF l
<1>4. /\ lockState'[l] = ACQUIRED /\ \A k \in Lock : k # l => lockState'[k] = lockState[k]
      /\ lockTid'[l] = Me /\ \A k \in Lock : k # l => lockTid'[k] = lockTid[k]
      /\ pc'[running_q] = "user" /\ lockFor'[running_q] = NULL /\ cvFor'[running_q] = NULL
      /\ inside'[running_q] = {l}
      /\ \A n \in Node : n # running_q =>
           /\ pc'[n] = pc[n] /\ lockFor'[n] = lockFor[n] /\ cvFor'[n] = cvFor[n]
           /\ inside'[n] = inside[n]
      /\ lockState' \in [Lock -> {FREE, ACQUIRED}] /\ lockTid' \in [Lock -> Tid]
      /\ lockFor' \in [Node -> Lock \cup {NULL}] /\ cvFor' \in [Node -> CV \cup {NULL}]
      /\ inside' \in [Node -> SUBSET Lock]
  BY <1>1, <1>2, <1>3 DEF MInv, IInv, TypeOK, LocksInv, MTypeOK
<1>5. \A n \in Node : l \notin inside[n]
  BY <1>1, <1>2 DEF MInv, LocksInv, MutualExclusion
<1>6. MTypeOK'
  BY <1>4 DEF MTypeOK, IInv
<1>7. MutualExclusion'
  <2>1. SUFFICES ASSUME NEW n \in Node, NEW k \in inside'[n]
                 PROVE  /\ lockState'[k] = ACQUIRED /\ lockTid'[k] = id[n]
                        /\ \A m \in Node : k \in inside'[m] => m = n
    BY <1>2 DEF MutualExclusion
  <2>2. CASE n = running_q
    BY <2>1, <2>2, <1>3, <1>4, <1>5
  <2>3. CASE n # running_q
    <3>1. k \in inside[n] /\ k \in Lock /\ k # l
      BY <2>1, <2>3, <1>4, <1>5 DEF MInv, LocksInv, MTypeOK
    <3>2. /\ lockState[k] = ACQUIRED /\ lockTid[k] = id[n]
          /\ \A m \in Node : k \in inside[m] => m = n
      BY <3>1 DEF MInv, LocksInv, MutualExclusion
    <3>3. \A m \in Node : k \in inside'[m] => k \in inside[m]
      BY <3>1, <1>4
    <3>4. QED
      BY <3>1, <3>2, <3>3, <1>4
  <2>4. QED
    BY <2>2, <2>3
<1>8. NoSleeperOnFreeLock'
  BY <1>2, <1>4 DEF MInv, LocksInv, NoSleeperOnFreeLock
<1>9. NoLostSignal'
  <2>1. SUFFICES ASSUME NEW n \in Node, n # running_q, cvFor[n] # NULL
                 PROVE  n \in Range(waitq[cvFor[n]])
    BY <1>2, <1>4 DEF NoLostSignal
  <2>2. QED
    BY <2>1 DEF MInv, LocksInv, NoLostSignal
<1>10. HoldersGoOn'
  <2>1. SUFFICES ASSUME NEW n \in Node, inside'[n] # {}
                 PROVE  /\ Registered(n)' /\ status[id[n]] \in {"READY", "RUNNING"}
                        /\ lockFor'[n] = NULL /\ \A k, j \in inside'[n] : k = j
    BY <1>2 DEF HoldersGoOn
  <2>2. CASE n = running_q
    BY <2>2, <1>2, <1>3, <1>4 DEF Registered
  <2>3. CASE n # running_q
    BY <2>1, <2>3, <1>2, <1>4 DEF MInv, LocksInv, HoldersGoOn, Registered
  <2>4. QED
    BY <2>2, <2>3
<1>11. TakenLocksHeld'
  <2>1. SUFFICES ASSUME NEW k \in Lock, lockState'[k] = ACQUIRED
                 PROVE  k \in queues /\ \E n \in Node : k \in inside'[n]
    BY <1>2 DEF TakenLocksHeld
  <2>2. CASE k = l
    BY <2>2, <1>1, <1>4
  <2>3. CASE k # l
    BY <2>1, <2>3, <1>1, <1>4 DEF MInv, LocksInv, TakenLocksHeld
  <2>4. QED
    BY <2>2, <2>3
<1>12. CallsMatchLocks'
  BY <1>2, <1>4 DEF MInv, LocksInv, CallsMatchLocks, InLoop
<1>13. RefusedGoesOn'
  BY <1>2, <1>4 DEF RefusedGoesOn
<1>14. QED
  BY <1>6, <1>7, <1>8, <1>9, <1>10, <1>11, <1>12, <1>13 DEF LocksInv
-----------------------------------------------------------------------------
(* lock_release wakes every waiter and frees the lock in one step.          *)
LEMMA LockReleaseLocks ==
  ASSUME MInv, IInv', NEW l \in Lock, l \in inside[running_q], LockRelease(l)
  PROVE  LocksInv'
<1>1. /\ InUser /\ l \in queues
      /\ WakeupFirst(l, Len(waitq[l]))
      /\ lockState' = [lockState EXCEPT ![l] = FREE]
      /\ inside' = [inside EXCEPT ![running_q] = @ \ {l}]
      /\ UNCHANGED <<nodes, running_q, queues, id, pc, back, lockTid, lockFor, cvFor>>
  BY DEF LockRelease, Unlocked, AllWaiters
<1>2. /\ running_q \in Node /\ l \in WaitQ /\ pc[running_q] = "user"
      /\ inside[running_q] = {l} /\ inside'[running_q] = {}
      /\ \A n \in Node : n # running_q => inside'[n] = inside[n] /\ l \notin inside[n]
      /\ inside' \in [Node -> SUBSET Lock]
      /\ lockState'[l] = FREE /\ \A k \in Lock : k # l => lockState'[k] = lockState[k]
      /\ lockState' \in [Lock -> {FREE, ACQUIRED}]
  <2>1. running_q \in Node /\ l \in WaitQ /\ pc[running_q] = "user"
    BY <1>1, InClient, QueueNames DEF InUser
  <2>2. \A n \in Node : n # running_q => l \notin inside[n]
    BY <2>1 DEF MInv, LocksInv, MutualExclusion
  <2>3. inside[running_q] = {l}
    BY <2>1 DEF MInv, LocksInv, HoldersGoOn
  <2>4. inside \in [Node -> SUBSET Lock] /\ lockState \in [Lock -> {FREE, ACQUIRED}]
    BY DEF MInv, LocksInv, MTypeOK
  <2>5. QED
    BY <2>1, <2>2, <2>3, <2>4, <1>1
<1>3. /\ waitq'[l] = <<>> /\ \A w \in WaitQ : w # l => waitq'[w] = waitq[w]
      /\ \A t \in Tid : status'[t] = "READY" \/ status'[t] = status[t]
  <2>1. waitq \in [WaitQ -> Seq(Node)] /\ waitq[l] \in Seq(Node)
    BY <1>2 DEF MInv, IInv, TypeOK
  <2>2. SubSeq(waitq[l], Len(waitq[l]) + 1, Len(waitq[l])) = <<>>
    BY <2>1, LenProperties, SubSeqEmpty
  <2>3. QED
    BY <2>1, <2>2, <1>1, <1>2 DEF WakeupFirst
<1>4. MTypeOK'
  BY <1>1, <1>2 DEF MInv, LocksInv, MTypeOK, IInv
<1>5. MutualExclusion'
  <2>1. SUFFICES ASSUME NEW n \in Node, NEW k \in inside'[n]
                 PROVE  /\ lockState'[k] = ACQUIRED /\ lockTid[k] = id[n]
                        /\ \A m \in Node : k \in inside'[m] => m = n
    BY <1>1 DEF MutualExclusion
  <2>2. n # running_q /\ k \in inside[n] /\ k # l /\ k \in Lock
    BY <2>1, <1>2
  <2>3. \A m \in Node : k \in inside'[m] => k \in inside[m]
    BY <1>2
  <2>4. QED
    BY <2>2, <2>3, <1>2 DEF MInv, LocksInv, MutualExclusion
<1>6. NoSleeperOnFreeLock'
  BY <1>2, <1>3, QueueNames DEF MInv, LocksInv, NoSleeperOnFreeLock
<1>7. NoLostSignal'
  <2>1. \A c \in CV : waitq'[c] = waitq[c]
    BY <1>3, QueueNames
  <2>2. QED
    BY <2>1, <1>1, InClient DEF NoLostSignal
<1>8. HoldersGoOn'
  <2>1. SUFFICES ASSUME NEW n \in Node, inside'[n] # {}
                 PROVE  /\ Registered(n)' /\ status'[id[n]] \in {"READY", "RUNNING"}
                        /\ lockFor'[n] = NULL /\ \A k, j \in inside'[n] : k = j
    BY <1>1 DEF HoldersGoOn
  <2>2. inside'[n] = inside[n] /\ inside[n] # {}
    BY <2>1, <1>2
  <2>3. status'[id[n]] \in {"READY", "RUNNING"}
    BY <2>2, <1>3, HolderNode
  <2>4. QED
    BY <2>2, <2>3, <1>1 DEF MInv, LocksInv, HoldersGoOn, Registered
<1>9. TakenLocksHeld'
  <2>1. SUFFICES ASSUME NEW k \in Lock, k # l, lockState[k] = ACQUIRED
                 PROVE  k \in queues /\ \E n \in Node : k \in inside'[n]
    BY <1>1, <1>2 DEF TakenLocksHeld
  <2>2. PICK n \in Node : k \in inside[n] /\ k \in queues
    BY <2>1 DEF MInv, LocksInv, TakenLocksHeld
  <2>3. n # running_q
    BY <2>1, <2>2, <1>2
  <2>4. QED
    BY <2>2, <2>3, <1>2
<1>10. CallsMatchLocks'
  BY <1>1 DEF MInv, LocksInv, CallsMatchLocks, InLoop
<1>11. RefusedGoesOn'
  BY <1>1, <1>2 DEF RefusedGoesOn
<1>12. QED
  BY <1>4, <1>5, <1>6, <1>7, <1>8, <1>9, <1>10, <1>11 DEF LocksInv

(* cv_wait joins the queue of c, or finds the lock it released still free.  *)
LEMMA CvWaitLocks ==
  ASSUME MInv, IInv', NEW l \in Lock, NEW c \in CV, l \in inside[running_q], CvWait(c, l)
  PROVE  LocksInv'
<1> DEFINE Sleeps == ready_q' # <<>>
<1>1. /\ InUser /\ l \in queues
      /\ lockState' = [lockState EXCEPT ![l] = FREE]
      /\ inside' = [inside EXCEPT ![running_q] = @ \ {l}]
      /\ lockFor' = [lockFor EXCEPT ![running_q] = l]
      /\ cvFor' = [cvFor EXCEPT ![running_q] = c]
      /\ UNCHANGED <<nodes, running_q, queues, id, lockTid>>
  BY CvWaitFacts DEF MInv
<1>2. /\ running_q \in Node /\ l # NULL /\ c # NULL /\ c \in WaitQ /\ l \in WaitQ /\ c # l
      /\ inside[running_q] = {l} /\ inside'[running_q] = {}
      /\ \A n \in Node : n # running_q =>
           /\ inside'[n] = inside[n] /\ l \notin inside[n]
           /\ lockFor'[n] = lockFor[n] /\ cvFor'[n] = cvFor[n]
      /\ lockFor'[running_q] = l /\ cvFor'[running_q] = c
      /\ lockState'[l] = FREE /\ \A k \in Lock : k # l => lockState'[k] = lockState[k]
  <2>1. running_q \in Node /\ l # NULL /\ c # NULL /\ c \in WaitQ /\ l \in WaitQ /\ c # l
    BY <1>1, InClient, QueueNames
  <2>2. \A n \in Node : n # running_q => l \notin inside[n]
    BY <2>1 DEF MInv, LocksInv, MutualExclusion
  <2>3. inside[running_q] = {l}
    BY <2>1 DEF MInv, LocksInv, HoldersGoOn
  <2>4. inside \in [Node -> SUBSET Lock] /\ lockState \in [Lock -> {FREE, ACQUIRED}]
        /\ lockFor \in [Node -> Lock \cup {NULL}] /\ cvFor \in [Node -> CV \cup {NULL}]
    BY DEF MInv, LocksInv, MTypeOK
  <2>5. QED
    BY <2>1, <2>2, <2>3, <2>4, <1>1
<1>3. /\ \A n \in Node : n # running_q => pc'[n] = pc[n] /\ back'[n] = back[n]
      /\ \A w \in WaitQ : w # l /\ w # c => waitq'[w] = waitq[w]
      /\ waitq'[l] = <<>>
      /\ Range(waitq[c]) \subseteq Range(waitq'[c])
      /\ \A t \in Tid : t # Me => status'[t] = "READY" \/ status'[t] = status[t]
      /\ pc'[running_q] = "lock" \/ (pc'[running_q] = "getcontext" /\ running_q \in Range(waitq'[c]))
  <2>1. /\ IInv /\ pc \in [Node -> Label] /\ back \in [Node -> Label]
        /\ waitq \in [WaitQ -> Seq(Node)] /\ status \in [Tid -> Status]
    BY DEF MInv, IInv, TypeOK
  <2>2. CASE ready_q' # <<>>
    <3>1. PICK k \in 0 .. Len(waitq[l]) :
          /\ SubSeq(waitq[l], k + 1, Len(waitq[l])) = <<>>
          /\ status' = [[t \in Tid |-> IF t \in IdsOf(Woken(l, k)) THEN "READY" ELSE status[t]]
                          EXCEPT ![Me] = "WAITING"]
          /\ waitq' = [waitq EXCEPT ![l] = SubSeq(@, k + 1, Len(@)), ![c] = Append(@, running_q)]
          /\ pc' = [pc EXCEPT ![running_q] = "getcontext"]
          /\ back' = [back EXCEPT ![running_q] = "lock"]
      BY <2>1, <2>2, CvWaitSleeps
    <3>2. Range(Append(waitq[c], running_q)) = Range(waitq[c]) \cup {running_q}
      BY <2>1, <1>2, AppendQueue
    <3>3. waitq'[c] = Append(waitq[c], running_q) /\ waitq'[l] = <<>>
          /\ \A w \in WaitQ : w # l /\ w # c => waitq'[w] = waitq[w]
      BY <2>1, <3>1, <1>2
    <3>4. \A t \in Tid : t # Me => status'[t] = "READY" \/ status'[t] = status[t]
      BY <3>1
    <3>5. /\ pc'[running_q] = "getcontext"
          /\ \A n \in Node : n # running_q => pc'[n] = pc[n] /\ back'[n] = back[n]
      BY <2>1, <3>1, <1>2
    <3>6. QED
      BY <3>2, <3>3, <3>4, <3>5
  <2>3. CASE ready_q' = <<>>
    <3>1. /\ waitq[l] = <<>> /\ UNCHANGED <<status, waitq, back>>
          /\ pc' = [pc EXCEPT ![running_q] = "lock"]
      BY <2>1, <2>3, CvWaitFacts
    <3>2. QED
      BY <2>1, <3>1, <1>2
  <2>4. QED
    BY <2>2, <2>3
<1>4. MTypeOK'
  BY <1>1 DEF MInv, LocksInv, MTypeOK, IInv
<1>5. MutualExclusion'
  <2>1. SUFFICES ASSUME NEW n \in Node, NEW k \in inside'[n]
                 PROVE  /\ lockState'[k] = ACQUIRED /\ lockTid[k] = id[n]
                        /\ \A m \in Node : k \in inside'[m] => m = n
    BY <1>1 DEF MutualExclusion
  <2>2. n # running_q /\ k \in inside[n] /\ k # l /\ k \in Lock
    BY <2>1, <1>2 DEF MInv, LocksInv, MTypeOK
  <2>3. \A m \in Node : k \in inside'[m] => k \in inside[m]
    BY <1>2
  <2>4. QED
    BY <2>2, <2>3, <1>2 DEF MInv, LocksInv, MutualExclusion
<1>6. NoSleeperOnFreeLock'
  BY <1>2, <1>3, QueueNames DEF MInv, LocksInv, NoSleeperOnFreeLock
<1>7. NoLostSignal'
  <2>1. SUFFICES ASSUME NEW n \in Node, n # running_q, cvFor[n] # NULL
                 PROVE  n \in Range(waitq'[cvFor[n]])
    BY <1>1, <1>2, <1>3 DEF NoLostSignal
  <2>2. cvFor[n] \in CV /\ n \in Range(waitq[cvFor[n]])
    BY <2>1, <1>1, InClient
  <2>3. QED
    BY <2>2, <1>3, QueueNames
<1>8. HoldersGoOn'
  <2>1. SUFFICES ASSUME NEW n \in Node, n # running_q, inside[n] # {}
                 PROVE  pc'[n] # "free" /\ nodes[id[n]] = n /\ status'[id[n]] \in {"READY", "RUNNING"}
    BY <1>1, <1>2 DEF MInv, LocksInv, HoldersGoOn, Registered
  <2>2. id[n] # Me
    BY <2>1, <1>1, HolderNode, InClient
  <2>3. QED
    BY <2>1, <2>2, <1>3, HolderNode
<1>9. TakenLocksHeld'
  <2>1. SUFFICES ASSUME NEW k \in Lock, k # l, lockState[k] = ACQUIRED
                 PROVE  k \in queues /\ \E n \in Node : k \in inside'[n]
    BY <1>1, <1>2 DEF TakenLocksHeld
  <2>2. PICK n \in Node : k \in inside[n] /\ k \in queues
    BY <2>1 DEF MInv, LocksInv, TakenLocksHeld
  <2>3. n # running_q
    BY <2>1, <2>2, <1>2
  <2>4. QED
    BY <2>2, <2>3, <1>2
<1>10. CallsMatchLocks'
  BY <1>1, <1>2, <1>3 DEF MInv, LocksInv, CallsMatchLocks, InLoop
<1>11. RefusedGoesOn'
  BY <1>1, <1>2 DEF RefusedGoesOn
<1>12. QED
  BY <1>4, <1>5, <1>6, <1>7, <1>8, <1>9, <1>10, <1>11 DEF LocksInv

(* cv_signal and cv_broadcast: who is woken is not waiting for a signal any *)
(* more, who is not woken stays in the queue.                               *)
LEMMA CvWakeupLocks ==
  ASSUME MInv, IInv', NEW l \in Lock, NEW c \in CV, NEW k \in 0 .. Len(waitq[c]),
         CvWakeup(c, l, k)
  PROVE  LocksInv'
<1>1. /\ InUser /\ pc[running_q] = "user"
      /\ waitq' = [waitq EXCEPT ![c] = SubSeq(@, k + 1, Len(@))]
      /\ \A t \in Tid : status'[t] = "READY" \/ status'[t] = status[t]
      /\ cvFor' = [n \in Node |-> IF n \in Range(Woken(c, k)) THEN NULL ELSE cvFor[n]]
      /\ UNCHANGED <<nodes, running_q, queues, id, pc, back, lockState, lockTid, lockFor, inside>>
  BY DEF CvWakeup, WakeupFirst, InUser
<1>2. /\ waitq[c] \in Seq(Node) /\ c \in WaitQ
      /\ Range(waitq[c]) = Range(Woken(c, k)) \cup Range(waitq'[c])
      /\ \A w \in WaitQ : w # c => waitq'[w] = waitq[w]
  <2>1. c \in WaitQ /\ waitq \in [WaitQ -> Seq(Node)] /\ waitq[c] \in Seq(Node)
    BY QueueNames DEF MInv, IInv, TypeOK
  <2>2. Range(waitq[c]) = Range(Woken(c, k)) \cup Range(SubSeq(waitq[c], k + 1, Len(waitq[c])))
    BY <2>1, CutQueue DEF Woken
  <2>3. QED
    BY <2>1, <2>2, <1>1
<1>3. MTypeOK'
  BY <1>1 DEF MInv, LocksInv, MTypeOK, IInv
<1>4. MutualExclusion'
  BY <1>1 DEF MInv, LocksInv, MutualExclusion
<1>5. NoSleeperOnFreeLock'
  BY <1>1, <1>2, QueueNames DEF MInv, LocksInv, NoSleeperOnFreeLock
<1>6. NoLostSignal'
  <2>1. SUFFICES ASSUME NEW n \in Node, n \notin Range(Woken(c, k)), cvFor[n] # NULL
                 PROVE  n \in Range(waitq'[cvFor[n]])
    BY <1>1 DEF NoLostSignal
  <2>2. cvFor[n] \in CV /\ n \in Range(waitq[cvFor[n]])
    BY <2>1, <1>1, InClient
  <2>3. QED
    BY <2>1, <2>2, <1>2, QueueNames
<1>7. HoldersGoOn'
  <2>1. SUFFICES ASSUME NEW n \in Node, inside[n] # {}
                 PROVE  status'[id[n]] \in {"READY", "RUNNING"}
    BY <1>1 DEF MInv, LocksInv, HoldersGoOn, Registered
  <2>2. QED
    BY <2>1, <1>1, HolderNode
<1>8. TakenLocksHeld' /\ CallsMatchLocks' /\ RefusedGoesOn'
  BY <1>1 DEF MInv, LocksInv, TakenLocksHeld, CallsMatchLocks, InLoop, RefusedGoesOn
<1>9. QED
  BY <1>3, <1>4, <1>5, <1>6, <1>7, <1>8 DEF LocksInv
-----------------------------------------------------------------------------
(* Locks and condition variables come and go only while nobody uses them.   *)
LEMMA ExistenceFrame ==
  ASSUME MInv, IInv', InUser, NEW gone \in SUBSET UserQ,
         \A w \in queues : w \notin gone => w \in queues',
         \A l \in Lock : l \in gone => lockState[l] = FREE /\ ~InUse(l),
         \A l \in Lock : lockState'[l] = lockState[l]
                         /\ (lockState[l] = ACQUIRED => lockTid'[l] = lockTid[l]),
         lockState' \in [Lock -> {FREE, ACQUIRED}], lockTid' \in [Lock -> Tid],
         UNCHANGED <<lockFor, cvFor, inside, status, nodes, running_q, waitq, id, pc, back>>
  PROVE  LocksInv'
<1>1. MTypeOK'
  BY DEF MInv, LocksInv, MTypeOK, IInv
<1>2. MutualExclusion'
  BY DEF MInv, LocksInv, MutualExclusion, MTypeOK
<1>3. NoSleeperOnFreeLock' /\ NoLostSignal' /\ HoldersGoOn'
  BY DEF MInv, LocksInv, NoSleeperOnFreeLock, NoLostSignal, HoldersGoOn, Registered
<1>4. TakenLocksHeld'
  <2>1. SUFFICES ASSUME NEW l \in Lock, lockState[l] = ACQUIRED
                 PROVE  l \in queues' /\ \E n \in Node : l \in inside[n]
    BY DEF TakenLocksHeld
  <2>2. QED
    BY <2>1 DEF MInv, LocksInv, TakenLocksHeld
<1>5. CallsMatchLocks'
  <2>1. SUFFICES ASSUME NEW n \in Node, lockFor[n] # NULL PROVE lockFor[n] \in queues'
    BY DEF MInv, LocksInv, CallsMatchLocks, InLoop
  <2>2. lockFor[n] \in Lock /\ lockFor[n] \in queues /\ InUse(lockFor[n])
    BY <2>1 DEF MInv, LocksInv, CallsMatchLocks, MTypeOK, InUse
  <2>3. QED
    BY <2>2
<1>6. RefusedGoesOn'
  BY DEF RefusedGoesOn, InUser
<1>7. QED
  BY <1>1, <1>2, <1>3, <1>4, <1>5, <1>6 DEF LocksInv

LEMMA CreateLocks ==
  ASSUME MInv, IInv', (\E l \in Lock : LockCreate(l)) \/ \E c \in CV : CvCreate(c)
  PROVE  LocksInv'
<1>1. lockState \in [Lock -> {FREE, ACQUIRED}] /\ lockTid \in [Lock -> Tid]
  BY DEF MInv, LocksInv, MTypeOK
<1>2. /\ {} \in SUBSET UserQ
      /\ \A l \in Lock : l \in {} => lockState[l] = FREE /\ ~InUse(l)
  OBVIOUS
<1>3. CASE \E c \in CV : CvCreate(c)
  <2>1. InUser /\ UNCHANGED <<lockState, lockTid>> /\ \A w \in queues : w \notin {} => w \in queues'
    BY <1>3 DEF CvCreate, WaitQueueCreate, monitorVars
  <2>2. UNCHANGED <<lockFor, cvFor, inside, status, nodes, running_q, waitq, id, pc, back>>
    BY <1>3 DEF CvCreate, WaitQueueCreate, monitorVars
  <2>3. QED
    BY <1>1, <1>2, <2>1, <2>2, ExistenceFrame
<1>4. ASSUME NEW l \in Lock, LockCreate(l) PROVE LocksInv'
  <2>1. /\ InUser /\ l \notin queues /\ queues' = queues \cup {l}
        /\ lockState' = [lockState EXCEPT ![l] = FREE] /\ lockTid' = [lockTid EXCEPT ![l] = Me]
        /\ UNCHANGED <<lockFor, cvFor, inside, status, nodes, running_q, waitq, id, pc, back>>
    BY <1>4 DEF LockCreate, WaitQueueCreate
  <2>2. lockState[l] = FREE
    BY <2>1, <1>1 DEF MInv, LocksInv, TakenLocksHeld
  <2>3. Me \in Tid
    BY <2>1, InClient
  <2>4. /\ lockState' \in [Lock -> {FREE, ACQUIRED}] /\ lockTid' \in [Lock -> Tid]
        /\ \A k \in Lock : lockState'[k] = lockState[k]
                           /\ (lockState[k] = ACQUIRED => lockTid'[k] = lockTid[k])
    BY <2>1, <2>2, <2>3, <1>1
  <2>5. \A w \in queues : w \notin {} => w \in queues'
    BY <2>1
  <2>6. QED
    BY <1>2, <2>1, <2>4, <2>5, ExistenceFrame
<1>5. QED
  BY <1>3, <1>4

LEMMA DestroyLocks ==
  ASSUME MInv, IInv', NEW w \in UserQ, waitq[w] = <<>>, WaitQueueDestroy(w),
         w \in Lock => lockState[w] = FREE /\ ~InUse(w), UNCHANGED monitorVars
  PROVE  LocksInv'
<1>1. IInv /\ InUser /\ queues' = queues \ {w}
      /\ UNCHANGED <<status, nodes, running_q, waitq, id, pc, back>>
  BY DestroyEmpty DEF MInv, WaitQueueDestroy
<1>2. {w} \in SUBSET UserQ /\ \A v \in queues : v \notin {w} => v \in queues'
  BY <1>1
<1>3. \A l \in Lock : l \in {w} => lockState[l] = FREE /\ ~InUse(l)
  OBVIOUS
<1>4. lockState' \in [Lock -> {FREE, ACQUIRED}] /\ lockTid' \in [Lock -> Tid]
  BY DEF MInv, LocksInv, MTypeOK, monitorVars
<1>5. QED
  BY <1>1, <1>2, <1>3, <1>4, ExistenceFrame DEF monitorVars

(* A thread that exits has no lock and wakes only those who wait for it.    *)
LEMMA ExitLocks ==
  ASSUME MInv, IInv', HoldsNone, Exit, Gone
  PROVE  LocksInv'
<1>1. /\ InUser /\ pc[running_q] = "user" /\ inside[running_q] = {}
      /\ waitq' = [waitq EXCEPT ![Me] = <<>>]
      /\ \A t \in Tid : t # Me => status'[t] = "READY" \/ status'[t] = status[t]
      /\ lockFor' = [lockFor EXCEPT ![running_q] = NULL]
      /\ cvFor' = [cvFor EXCEPT ![running_q] = NULL]
      /\ inside' = [inside EXCEPT ![running_q] = {}]
      /\ UNCHANGED <<nodes, running_q, queues, id, lockState, lockTid>>
  BY DEF HoldsNone, Exit, InUser, ThreadExit, StatusAfterExit, Gone
<1>2. \/ UNCHANGED <<pc, back>>
      \/ /\ pc' = [pc EXCEPT ![running_q] = "getcontext"]
         /\ back' = [back EXCEPT ![running_q] = "zombie"]
  BY DEF Exit, ThreadExit
<1>3. /\ running_q \in Node /\ Me \in Tid /\ nodes[Me] = running_q
      /\ \A n \in Node : cvFor[n] # NULL => cvFor[n] \in CV /\ n \in Range(waitq[cvFor[n]])
  BY <1>1, InClient
<1>4. /\ inside' = inside /\ lockFor'[running_q] = NULL /\ cvFor'[running_q] = NULL
      /\ \A n \in Node : n # running_q => lockFor'[n] = lockFor[n] /\ cvFor'[n] = cvFor[n]
      /\ lockFor' \in [Node -> Lock \cup {NULL}] /\ cvFor' \in [Node -> CV \cup {NULL}]
  BY <1>1, <1>3 DEF MInv, LocksInv, MTypeOK
<1>5. /\ \A n \in Node : n # running_q => pc'[n] = pc[n] /\ back'[n] = back[n]
      /\ ~InLoop(running_q)' /\ pc'[running_q] # "lock"
  <2>1. pc \in [Node -> Label] /\ back \in [Node -> Label]
    BY DEF MInv, IInv, TypeOK
  <2>2. QED
    BY <2>1, <1>1, <1>2, <1>3 DEF InLoop
<1>6. \A w \in UserQ : waitq'[w] = waitq[w]
  <2>1. waitq \in [WaitQ -> Seq(Node)] /\ \A w \in UserQ : w # Me
    BY <1>3, ThreadsAssumption DEF MInv, IInv, TypeOK
  <2>2. QED
    BY <2>1, <1>1
<1>7. MTypeOK'
  BY <1>1, <1>4 DEF MInv, LocksInv, MTypeOK, IInv
<1>8. MutualExclusion' /\ TakenLocksHeld'
  BY <1>1, <1>4 DEF MInv, LocksInv, MutualExclusion, TakenLocksHeld
<1>9. NoSleeperOnFreeLock'
  BY <1>1, <1>6, MonitorsAssumption DEF MInv, LocksInv, NoSleeperOnFreeLock
<1>10. NoLostSignal'
  <2>1. SUFFICES ASSUME NEW n \in Node, n # running_q, cvFor[n] # NULL
                 PROVE  n \in Range(waitq'[cvFor[n]])
    BY <1>1, <1>4 DEF NoLostSignal
  <2>2. QED
    BY <2>1, <1>3, <1>6, MonitorsAssumption
<1>11. HoldersGoOn'
  <2>1. SUFFICES ASSUME NEW n \in Node, inside[n] # {}
                 PROVE  /\ Registered(n)' /\ status'[id[n]] \in {"READY", "RUNNING"}
                        /\ lockFor'[n] = NULL
    BY <1>1, <1>4 DEF MInv, LocksInv, HoldersGoOn
  <2>2. /\ id[n] \in Tid /\ nodes[id[n]] = n /\ pc[n] # "free" /\ lockFor[n] = NULL
        /\ status[id[n]] \in {"READY", "RUNNING"}
    BY <2>1, HolderNode
  <2>3. n # running_q /\ id[n] # Me
    BY <2>1, <2>2, <1>1, <1>3
  <2>4. QED
    BY <2>2, <2>3, <1>1, <1>4, <1>5 DEF Registered
<1>12. CallsMatchLocks'
  BY <1>1, <1>4, <1>5 DEF MInv, LocksInv, CallsMatchLocks, InLoop
<1>13. RefusedGoesOn'
  BY <1>1, <1>5 DEF RefusedGoesOn
<1>14. QED
  BY <1>7, <1>8, <1>9, <1>10, <1>11, <1>12, <1>13 DEF LocksInv

-----------------------------------------------------------------------------
LEMMA NextMInv == MInv /\ [MNext]_allVars => MInv'
<1> SUFFICES ASSUME MInv, [MNext]_allVars PROVE MInv'
  OBVIOUS
<1>1. IInv'
  BY NextThreads
<1>2. ASSUME PackageStep PROVE LocksInv'
  BY <1>2, PackageLocks
<1>3. ASSUME HoldsNone /\ Exit /\ Gone PROVE LocksInv'
  BY <1>1, <1>3, ExitLocks
<1>4. ASSUME LockSleep PROVE LocksInv'
  BY <1>1, <1>4, LockSleepLocks
<1>5. ASSUME LockTake PROVE LocksInv'
  BY <1>1, <1>5, LockTakeLocks
<1>6. ASSUME NEW c \in CV, CvCreate(c) \/ (waitq[c] = <<>> /\ CvDestroy(c)) PROVE LocksInv'
  <2>1. c \in UserQ /\ c \notin Lock
    BY MonitorsAssumption
  <2>2. QED
    BY <1>1, <1>6, <2>1, CreateLocks, DestroyLocks DEF CvDestroy
<1>7. ASSUME NEW l \in Lock, LockCreate(l) PROVE LocksInv'
  BY <1>1, <1>7, CreateLocks
<1>8. ASSUME NEW l \in Lock, ~InUse(l), LockDestroy(l) PROVE LocksInv'
  <2>1. lockState[l] = FREE /\ WaitQueueDestroy(l) /\ UNCHANGED monitorVars
    BY <1>8 DEF LockDestroy
  <2>2. waitq[l] = <<>> /\ l \in UserQ
    BY <2>1, MonitorsAssumption DEF MInv, LocksInv, NoSleeperOnFreeLock
  <2>3. QED
    BY <1>1, <1>8, <2>1, <2>2, DestroyLocks
<1>9. ASSUME NEW l \in Lock, HoldsNone, LockAcquire(l) PROVE LocksInv'
  BY <1>1, <1>9, LockAcquireLocks
<1>10. ASSUME NEW l \in Lock, l \in inside[running_q], LockRelease(l) PROVE LocksInv'
  BY <1>1, <1>10, LockReleaseLocks
<1>11. ASSUME NEW l \in Lock, NEW c \in CV, l \in inside[running_q],
              CvWait(c, l) \/ CvSignal(c, l) \/ CvBroadcast(c, l)
       PROVE  LocksInv'
  <2>1. IInv
    BY DEF MInv
  <2>2. QED
    BY <1>1, <1>11, <2>1, CvWaitLocks, SignalStep, CvWakeupLocks
<1>12. CASE UNCHANGED allVars
  BY <1>1, <1>12 DEF allVars, MInv, LocksInv, vars, monitorVars, MTypeOK, IInv, MutualExclusion,
     NoSleeperOnFreeLock, NoLostSignal, HoldersGoOn, TakenLocksHeld, CallsMatchLocks, InLoop,
     RefusedGoesOn, Registered
<1>13. QED
  BY <1>1, <1>2, <1>3, <1>4, <1>5, <1>6, <1>7, <1>8, <1>9, <1>10, <1>11, <1>12 DEF MNext, MInv

(* The inductive invariant of package and locks holds in every state.       *)
THEOREM MonitorInvariance == MSpec => []MInv
<1>1. QED
  BY InitMInv, NextMInv, PTL DEF MSpec
(* Between lock_acquire's return and lock_release a thread is alone with    *)
(* the lock, for any number of threads, locks and preemptions.              *)
THEOREM Exclusion == MSpec => []MutualExclusion
<1>1. MInv => MutualExclusion
  BY DEF MInv, LocksInv
<1>2. QED
  BY <1>1, MonitorInvariance, PTL

(* A thread that cv_wait put to sleep can be found by cv_signal: there is   *)
(* no moment between releasing the lock and sleeping.                       *)
THEOREM SignalsReachWaiters == MSpec => []NoLostSignal
<1>1. MInv => NoLostSignal
  BY DEF MInv, LocksInv
<1>2. QED
  BY <1>1, MonitorInvariance, PTL

(* lock_acquire does not spin with the timer blocked: whoever has the lock  *)
(* is a thread that is ready.                                               *)
LEMMA HolderIsReady == MInv => NeverSpins
<1> SUFFICES ASSUME MInv, pc[running_q] = "lock", lockState[lockFor[running_q]] = ACQUIRED
             PROVE  ready_q # <<>>
  BY DEF NeverSpins
<1>1. /\ IInv /\ running_q \in Node /\ lockFor[running_q] \in Lock
      /\ lockFor[running_q] # NULL
  BY QueueNames DEF MInv, IInv, TypeOK, LocksInv, MTypeOK, CallsMatchLocks, InLoop
<1>2. PICK n \in Node : lockFor[running_q] \in inside[n]
  BY <1>1 DEF MInv, LocksInv, TakenLocksHeld
<1>3. /\ n # running_q /\ id[n] \in Tid /\ nodes[id[n]] = n
      /\ status[id[n]] \in {"READY", "RUNNING"}
  BY <1>1, <1>2, HolderNode
<1>4. status[id[n]] = "READY"
  BY <1>1, <1>3 DEF IInv, StatusMatchesQueues, RunningMatches
<1>5. n \in Range(ready_q)
  BY <1>1, <1>3, <1>4 DEF IInv, StatusMatchesQueues, ReadyMatches
<1>6. QED
  BY <1>1, <1>5, RangeOfQueue DEF IInv, TypeOK

(* Locks are well typed, nobody sleeps on a free lock, and the loop of      *)
(* lock_acquire never spins.                                                *)
THEOREM ConsistentLocks == MSpec => []LocksConsistent
<1>1. MInv => LocksConsistent
  BY HolderIsReady DEF MInv, LocksInv, LocksConsistent
<1>2. QED
  BY <1>1, MonitorInvariance, PTL

(* A lock has one holder, and nobody sleeps or spins on it in vain.         *)
THEOREM SoundLocks == MSpec => []LocksSound
<1>1. MutualExclusion /\ LocksConsistent => LocksSound
  BY DEF LocksSound
<1>2. QED
  BY <1>1, Exclusion, ConsistentLocks, PTL

-----------------------------------------------------------------------------
(* The refinement: each step is a step of a Mesa monitor or a stutter.      *)
Owner == [l \in Lock |-> IF lockState[l] = ACQUIRED THEN lockTid[l] ELSE NULL]
Waiters == [c \in CV |-> {<<id[n], lockFor[n]>> : n \in Range(waitq[c])}]

LEMMA MesaInit == MInit => Mesa!Init
BY QueueNames, EmptyQueue DEF MInit, Init, Mesa!Init

(* A step that leaves the locks' owners and the condition variables' queues *)
(* alone, and what is known of the threads in them.                         *)
LEMMA MesaStutter ==
  ASSUME MInv, \A c \in CV : waitq'[c] = waitq[c],
         \A c \in CV : \A n \in Range(waitq[c]) : id'[n] = id[n] /\ lockFor'[n] = lockFor[n]
  PROVE  Waiters' = Waiters
<1>1. \A c \in CV : {<<id'[n], lockFor'[n]>> : n \in Range(waitq'[c])}
                      = {<<id[n], lockFor[n]>> : n \in Range(waitq[c])}
  OBVIOUS
<1>2. QED
  BY <1>1 DEF Waiters
(* A sleeping thread's node.                                                *)
LEMMA SleeperNode ==
  ASSUME MInv, NEW c \in CV, NEW n \in Range(waitq[c])
  PROVE  /\ n \in Node /\ id[n] \in Tid /\ nodes[id[n]] = n /\ pc[n] # "free"
         /\ n \notin Range(exit_q)
         /\ ~halted /\ ~Leaving => n # running_q
<1>1. IInv /\ c \in WaitQ
  BY QueueNames DEF MInv
<1>2. n \in Node /\ id[n] \in Tid /\ nodes[id[n]] = n /\ pc[n] # "free" /\ status[id[n]] = "WAITING"
  BY <1>1, WaitingNode
<1>3. n \notin Range(exit_q)
  BY <1>1, <1>2 DEF IInv, NodesOfLiveThreads
<1>4. ~halted /\ ~Leaving => n # running_q
  BY <1>1, RunningThread
<1>5. QED
  BY <1>2, <1>3, <1>4

LEMMA NotWaiting ==
  ASSUME MInv, ~halted, ~Leaving
  PROVE  ~Mesa!Waiting(Me)
<1>1. SUFFICES ASSUME NEW c \in CV, NEW n \in Range(waitq[c]), id[n] = Me PROVE FALSE
  BY DEF Mesa!Waiting
<1>2. n # running_q /\ nodes[id[n]] = n
  BY SleeperNode
<1>3. nodes[Me] = running_q
  BY RunningThread DEF MInv
<1>4. QED
  BY <1>1, <1>2, <1>3

LEMMA PackageMesa ==
  ASSUME MInv, PackageStep
  PROVE  UNCHANGED <<Owner, Waiters>>
<1>1. IInv /\ UNCHANGED monitorVars
  BY DEF MInv, PackageStep
<1>2. /\ waitq \in [WaitQ -> Seq(Node)] /\ id \in [Node -> Tid] /\ pc \in [Node -> Label]
  BY <1>1 DEF IInv, TypeOK
<1>3. \A c \in CV : waitq'[c] = waitq[c]
  <2>1. ASSUME NEW t \in Tid, Wait(t) PROVE \A c \in CV : waitq'[c] = waitq[c]
    <3>1. waitq' = waitq \/ waitq' = [waitq EXCEPT ![t] = Append(@, running_q)]
      BY <2>1 DEF Wait, SleepOn, Enqueue
    <3>2. \A c \in CV : c \in WaitQ /\ c # t
      BY QueueNames
    <3>3. QED
      BY <3>1, <3>2, <1>2
  <2>2. ~(\E t \in Tid : Wait(t)) => waitq' = waitq
    BY DEF PackageStep, Start, Create, TimerInterrupt, YieldAny, YieldTo, Yield, Switch, Resume,
       WaitReturn, Halted, vars
  <2>3. QED
    BY <2>1, <2>2
<1>4. \A n \in Node : pc[n] # "free" /\ n \notin Range(exit_q) => id'[n] = id[n]
  <2>1. CASE Create
    BY <2>1, <1>2 DEF Create
  <2>2. CASE Resume
    BY <2>2, <1>2 DEF Resume, Freed
  <2>3. ~Create /\ ~Resume => id' = id
    BY DEF PackageStep, Start, TimerInterrupt, YieldAny, YieldTo, Yield, Switch, WaitReturn,
       Wait, SleepOn, Halted, vars
  <2>4. QED
    BY <2>1, <2>2, <2>3
<1>5. \A c \in CV : \A n \in Range(waitq[c]) : id'[n] = id[n] /\ lockFor'[n] = lockFor[n]
  BY <1>1, <1>4, SleeperNode DEF monitorVars
<1>6. Waiters' = Waiters
  BY <1>3, <1>5, MesaStutter
<1>7. QED
  BY <1>1, <1>6 DEF Owner, monitorVars

LEMMA LockTakeMesa ==
  ASSUME MInv, LockTake
  PROVE  \E l \in Lock : Mesa!Acquire(Me, l) /\ Me \in Tid
<1>1. PICK l \in Lock : running_q \in Node /\ l = lockFor[running_q]
  BY LockLoop DEF LockTake
<1>2. /\ ~halted /\ ~Leaving /\ lockState[l] # ACQUIRED
      /\ lockState' = [lockState EXCEPT ![l] = ACQUIRED]
      /\ lockTid' = [lockTid EXCEPT ![l] = Me]
      /\ lockFor' = [lockFor EXCEPT ![running_q] = NULL]
      /\ UNCHANGED <<waitq, id>>
  BY <1>1 DEF LockTake, InLockAcquire, Busy, Marked, Leaving
<1>3. /\ Me \in Tid /\ lockState \in [Lock -> {FREE, ACQUIRED}] /\ lockTid \in [Lock -> Tid]
      /\ lockFor \in [Node -> Lock \cup {NULL}]
  BY <1>2, RunningThread DEF MInv, LocksInv, MTypeOK
<1>4. Owner[l] = NULL /\ Owner' = [Owner EXCEPT ![l] = Me]
  BY <1>1, <1>2, <1>3 DEF Owner
<1>5. Waiters' = Waiters
  <2>1. \A c \in CV : \A n \in Range(waitq[c]) : n \in Node /\ n # running_q
    BY <1>2, SleeperNode
  <2>2. QED
    BY <2>1, <1>2, <1>3, MesaStutter
<1>6. Mesa!Acquire(Me, l)
  BY <1>2, <1>4, <1>5, NotWaiting DEF Mesa!Acquire, Owner, Waiters
<1>7. QED
  BY <1>1, <1>3, <1>6
(* Who has l, when the running thread does and gives it up.                 *)
LEMMA OwnerGivesUp ==
  ASSUME MInv, NEW l \in Lock, l \in inside[running_q], running_q \in Node,
         lockState' = [lockState EXCEPT ![l] = FREE], lockTid' = lockTid
  PROVE  Owner[l] = Me /\ Owner' = [Owner EXCEPT ![l] = NULL]
<1>1. lockState \in [Lock -> {FREE, ACQUIRED}]
  BY DEF MInv, LocksInv, MTypeOK
<1>2. lockState[l] = ACQUIRED /\ lockTid[l] = Me
  BY DEF MInv, LocksInv, MutualExclusion, Me
<1>3. QED
  BY <1>1, <1>2 DEF Owner

LEMMA LockReleaseMesa ==
  ASSUME MInv, NEW l \in Lock, l \in inside[running_q], LockRelease(l)
  PROVE  Mesa!Release(Me, l) /\ Me \in Tid
<1>1. /\ InUser /\ ~halted /\ waitq' = [waitq EXCEPT ![l] = SubSeq(@, Len(waitq[l]) + 1, Len(@))]
      /\ lockState' = [lockState EXCEPT ![l] = FREE]
      /\ UNCHANGED <<id, lockTid, lockFor>>
  BY DEF LockRelease, Unlocked, AllWaiters, WakeupFirst, InUser
<1>2. running_q \in Node /\ Me \in Tid /\ ~Leaving
  BY <1>1, InClient
<1>3. Owner[l] = Me /\ Owner' = [Owner EXCEPT ![l] = NULL]
  BY <1>1, <1>2, OwnerGivesUp
<1>4. Waiters' = Waiters
  <2>1. waitq \in [WaitQ -> Seq(Node)] /\ \A c \in CV : c \in WaitQ /\ c # l
    BY QueueNames DEF MInv, IInv, TypeOK
  <2>2. \A c \in CV : waitq'[c] = waitq[c]
    BY <2>1, <1>1
  <2>3. QED
    BY <2>2, <1>1, MesaStutter
<1>5. Mesa!Release(Me, l)
  BY <1>1, <1>2, <1>3, <1>4, NotWaiting DEF Mesa!Release, Owner, Waiters
<1>6. QED
  BY <1>2, <1>5

LEMMA CvWaitMesa ==
  ASSUME MInv, NEW c \in CV, NEW l \in Lock, l \in inside[running_q], CvWait(c, l)
  PROVE  (Mesa!Wait(Me, c, l) \/ Mesa!Release(Me, l)) /\ Me \in Tid
<1>1. /\ IInv /\ InUser /\ ~halted
      /\ lockState' = [lockState EXCEPT ![l] = FREE]
      /\ lockFor' = [lockFor EXCEPT ![running_q] = l]
      /\ UNCHANGED <<id, lockTid>>
  BY CvWaitFacts DEF MInv, InUser
<1>2. running_q \in Node /\ Me \in Tid /\ ~Leaving /\ id[running_q] = Me
  BY <1>1, InClient
<1>3. Owner[l] = Me /\ Owner' = [Owner EXCEPT ![l] = NULL]
  BY <1>1, <1>2, OwnerGivesUp
<1>4. ~Mesa!Waiting(Me)
  BY <1>1, <1>2, NotWaiting
<1>5. /\ lockFor'[running_q] = l
      /\ \A b \in CV : \A n \in Range(waitq[b]) :
           n \in Node /\ n # running_q /\ lockFor'[n] = lockFor[n]
  <2>1. lockFor \in [Node -> Lock \cup {NULL}]
    BY DEF MInv, LocksInv, MTypeOK
  <2>2. \A b \in CV : \A n \in Range(waitq[b]) : n \in Node /\ n # running_q
    BY <1>1, <1>2, SleeperNode
  <2>3. QED
    BY <2>1, <2>2, <1>1, <1>2
<1>6. CASE ready_q' # <<>>
  <2>1. PICK k \in 0 .. Len(waitq[l]) :
          waitq' = [waitq EXCEPT ![l] = SubSeq(@, k + 1, Len(@)), ![c] = Append(@, running_q)]
    BY <1>1, <1>6, CvWaitSleeps
  <2>2. waitq \in [WaitQ -> Seq(Node)] /\ c # l /\ c \in WaitQ /\ \A b \in CV : b \in WaitQ /\ b # l
    BY <1>1, QueueNames DEF IInv, TypeOK
  <2>3. /\ waitq'[c] = Append(waitq[c], running_q)
        /\ \A b \in CV : b # c => waitq'[b] = waitq[b]
    BY <2>1, <2>2
  <2>4. Range(waitq'[c]) = Range(waitq[c]) \cup {running_q}
    BY <2>2, <2>3, <1>2, AppendQueue
  <2>5. {<<id'[n], lockFor'[n]>> : n \in Range(waitq'[c])}
          = {<<id[n], lockFor[n]>> : n \in Range(waitq[c])} \cup {<<Me, l>>}
    <3>1. {<<id'[n], lockFor'[n]>> : n \in Range(waitq'[c])}
            = {<<id'[n], lockFor'[n]>> : n \in Range(waitq[c])}
                \cup {<<id'[running_q], lockFor'[running_q]>>}
      BY <2>4
    <3>2. {<<id'[n], lockFor'[n]>> : n \in Range(waitq[c])}
            = {<<id[n], lockFor[n]>> : n \in Range(waitq[c])}
      BY <1>1, <1>5
    <3>3. QED
      BY <3>1, <3>2, <1>1, <1>2, <1>5
  <2>6. \A b \in CV : b # c => {<<id'[n], lockFor'[n]>> : n \in Range(waitq'[b])}
                                 = {<<id[n], lockFor[n]>> : n \in Range(waitq[b])}
    BY <2>3, <1>1, <1>5
  <2>7. Waiters' = [Waiters EXCEPT ![c] = @ \cup {<<Me, l>>}]
    BY <2>5, <2>6 DEF Waiters
  <2>8. Mesa!Wait(Me, c, l)
    BY <2>7, <1>3, <1>4 DEF Mesa!Wait, Owner, Waiters
  <2>9. QED
    BY <2>8, <1>2
<1>7. CASE ready_q' = <<>>
  <2>1. waitq' = waitq
    BY <1>1, <1>7, CvWaitFacts, Zenon
  <2>2. Waiters' = Waiters
    BY <2>1, <1>1, <1>5, MesaStutter
  <2>3. Mesa!Release(Me, l)
    BY <2>2, <1>3, <1>4 DEF Mesa!Release, Owner, Waiters
  <2>4. QED
    BY <2>3, <1>2
<1>8. QED
  BY <1>6, <1>7

(* What cv_signal and cv_broadcast change of the waiters.                   *)
LEMMA CvWakeupMesa ==
  ASSUME MInv, NEW c \in CV, NEW l \in Lock, NEW k \in 0 .. Len(waitq[c]), CvWakeup(c, l, k)
  PROVE  /\ Owner' = Owner
         /\ Waiters' = [Waiters EXCEPT ![c] = @ \ {<<id[n], lockFor[n]>> : n \in Range(Woken(c, k))}]
<1>1. /\ waitq' = [waitq EXCEPT ![c] = SubSeq(@, k + 1, Len(@))]
      /\ UNCHANGED <<id, lockState, lockTid, lockFor>>
  BY DEF CvWakeup, WakeupFirst
<1>2. IInv /\ c \in WaitQ /\ waitq \in [WaitQ -> Seq(Node)] /\ \A b \in CV : b \in WaitQ
  BY QueueNames DEF MInv, IInv, TypeOK
<1>3. /\ Range(waitq[c]) = Range(Woken(c, k)) \cup Range(waitq'[c])
      /\ Range(Woken(c, k)) \cap Range(waitq'[c]) = {}
  <2>1. LET a == Woken(c, k)
            b == SubSeq(waitq[c], k + 1, Len(waitq[c]))
        IN Range(a) \cup Range(b) = Range(waitq[c]) /\ Range(a) \cap Range(b) = {}
    BY <1>2, WokenNodes
  <2>2. QED
    BY <2>1, <1>1, <1>2
<1>4. \A n \in Range(waitq[c]) : nodes[id[n]] = n
  BY SleeperNode
<1>5. {<<id[n], lockFor[n]>> : n \in Range(waitq'[c])}
        = {<<id[n], lockFor[n]>> : n \in Range(waitq[c])}
            \ {<<id[n], lockFor[n]>> : n \in Range(Woken(c, k))}
  <2>1. \A n \in Range(waitq'[c]), m \in Range(Woken(c, k)) : id[n] # id[m]
    BY <1>3, <1>4
  <2>2. QED
    BY <2>1, <1>3
<1>6. \A b \in CV : b # c => waitq'[b] = waitq[b]
  BY <1>1, <1>2
<1>7. {<<id'[n], lockFor'[n]>> : n \in Range(waitq'[c])}
        = Waiters[c] \ {<<id[n], lockFor[n]>> : n \in Range(Woken(c, k))}
  BY <1>1, <1>5 DEF Waiters
<1>8. \A b \in CV : b # c => {<<id'[n], lockFor'[n]>> : n \in Range(waitq'[b])} = Waiters[b]
  BY <1>1, <1>6 DEF Waiters
<1>9. Waiters' = [Waiters EXCEPT ![c] = @ \ {<<id[n], lockFor[n]>> : n \in Range(Woken(c, k))}]
  BY <1>7, <1>8 DEF Waiters
<1>10. QED
  BY <1>1, <1>9 DEF Owner
LEMMA CvSignalMesa ==
  ASSUME MInv, NEW c \in CV, NEW l \in Lock, CvSignal(c, l)
  PROVE  Mesa!Signal(c)
<1> DEFINE h == waitq[c][1]
           w == <<id[h], lockFor[h]>>
<1>1. waitq[c] # <<>> /\ CvWakeup(c, l, 1)
  BY DEF CvSignal
<1>2. waitq[c] \in Seq(Node)
  BY QueueNames DEF MInv, IInv, TypeOK
<1>3. h \in Range(waitq[c]) /\ Range(Woken(c, 1)) = {h}
  BY <1>1, <1>2, FirstOfQueue DEF Woken
<1>4. 1 \in 0 .. Len(waitq[c])
  BY <1>1, <1>2, FirstOfQueue
<1> HIDE DEF h
<1>5. Owner' = Owner /\ Waiters' = [Waiters EXCEPT ![c] = @ \ {w}]
  <2>1. {<<id[n], lockFor[n]>> : n \in Range(Woken(c, 1))} = {w}
    BY <1>3
  <2>2. QED
    BY <2>1, <1>1, <1>4, CvWakeupMesa
<1>6. w \in Waiters[c]
  BY <1>3 DEF Waiters
<1>7. QED
  BY <1>5, <1>6 DEF Mesa!Signal, Owner, Waiters

LEMMA CvBroadcastMesa ==
  ASSUME MInv, NEW c \in CV, NEW l \in Lock, CvBroadcast(c, l)
  PROVE  Mesa!Broadcast(c)
<1> DEFINE k == Len(waitq[c])
<1>1. waitq[c] \in Seq(Node) /\ k \in Nat /\ k \in 0 .. Len(waitq[c])
  <2>1. waitq[c] \in Seq(Node)
    BY QueueNames DEF MInv, IInv, TypeOK
  <2>2. QED
    BY <2>1, LenProperties
<1>2. Range(Woken(c, k)) = Range(waitq[c])
  <2>1. Range(SubSeq(waitq[c], 1, k)) \cup Range(SubSeq(waitq[c], k + 1, k)) = Range(waitq[c])
    BY <1>1, CutQueue
  <2>2. SubSeq(waitq[c], k + 1, k) = <<>>
    BY <1>1, SubSeqEmpty
  <2>3. QED
    BY <2>1, <2>2, EmptyQueue DEF Woken
<1>3. CvWakeup(c, l, k)
  BY DEF CvBroadcast
<1> HIDE DEF k
<1>4. /\ Owner' = Owner
      /\ Waiters' = [Waiters EXCEPT ![c] = @ \ {<<id[n], lockFor[n]>> : n \in Range(Woken(c, k))}]
  BY <1>1, <1>3, CvWakeupMesa
<1>5. {<<id[n], lockFor[n]>> : n \in Range(Woken(c, k))} = Waiters[c]
  BY <1>2 DEF Waiters
<1>6. Waiters' = [Waiters EXCEPT ![c] = {}]
  BY <1>4, <1>5
<1>7. QED
  BY <1>4, <1>6 DEF Mesa!Broadcast, Owner, Waiters

(* The calls that move no thread into or out of a condition variable and    *)
(* change the owner of no lock.                                             *)
LEMMA OtherMesa ==
  ASSUME MInv,
         \/ Exit /\ Gone
         \/ LockSleep
         \/ \E l \in Lock : LockCreate(l) \/ LockDestroy(l) \/ LockAcquire(l)
         \/ \E c \in CV : CvCreate(c) \/ (waitq[c] = <<>> /\ CvDestroy(c))
  PROVE  UNCHANGED <<Owner, Waiters>>
<1>1. /\ IInv /\ waitq \in [WaitQ -> Seq(Node)] /\ lockFor \in [Node -> Lock \cup {NULL}]
      /\ lockState \in [Lock -> {FREE, ACQUIRED}] /\ lockTid \in [Lock -> Tid]
  BY DEF MInv, IInv, TypeOK, LocksInv, MTypeOK
<1>2. CASE Exit /\ Gone
  <2>1. /\ InUser /\ waitq' = [waitq EXCEPT ![Me] = <<>>]
        /\ lockFor' = [lockFor EXCEPT ![running_q] = NULL]
        /\ UNCHANGED <<id, lockState, lockTid>>
    BY <1>2 DEF Exit, ThreadExit, Gone
  <2>2. Me \in Tid /\ ~halted /\ ~Leaving
    BY <2>1, InClient DEF InUser
  <2>3. \A c \in CV : waitq'[c] = waitq[c]
    <3>1. \A c \in CV : c \in WaitQ /\ c # Me
      BY <2>2, QueueNames
    <3>2. QED
      BY <3>1, <2>1, <1>1
  <2>4. \A c \in CV : \A n \in Range(waitq[c]) : id'[n] = id[n] /\ lockFor'[n] = lockFor[n]
    BY <2>1, <2>2, <1>1, SleeperNode
  <2>5. QED
    BY <2>1, <2>3, <2>4, MesaStutter DEF Owner
<1>3. CASE LockSleep
  <2>1. /\ waitq' = [waitq EXCEPT ![lockFor[running_q]] = Append(@, running_q)]
        /\ UNCHANGED <<id, lockState, lockTid, lockFor>>
    BY <1>3 DEF LockSleep, SleepOn, Enqueue
  <2>2. lockFor[running_q] \in Lock
    BY <1>3, LockLoop DEF LockSleep
  <2>3. \A c \in CV : waitq'[c] = waitq[c]
    BY <2>1, <2>2, <1>1, QueueNames
  <2>4. QED
    BY <2>1, <2>3, MesaStutter DEF Owner
<1>4. ASSUME NEW l \in Lock, LockCreate(l) PROVE UNCHANGED <<Owner, Waiters>>
  <2>1. /\ l \notin queues /\ lockState' = [lockState EXCEPT ![l] = FREE]
        /\ lockTid' = [lockTid EXCEPT ![l] = Me] /\ UNCHANGED <<waitq, id, lockFor>>
    BY <1>4 DEF LockCreate, WaitQueueCreate
  <2>2. lockState[l] # ACQUIRED
    BY <2>1 DEF MInv, LocksInv, TakenLocksHeld
  <2>3. Owner' = Owner
    BY <2>1, <2>2, <1>1 DEF Owner
  <2>4. QED
    BY <2>1, <2>3, MesaStutter
<1>5. ASSUME NEW l \in Lock, LockDestroy(l) PROVE UNCHANGED <<Owner, Waiters>>
  <2>1. WaitQueueDestroy(l) /\ waitq[l] = <<>> /\ l \in UserQ /\ UNCHANGED monitorVars
    BY <1>5, MonitorsAssumption DEF LockDestroy, MInv, LocksInv, NoSleeperOnFreeLock
  <2>2. UNCHANGED <<waitq, id>>
    BY <2>1, <1>1, DestroyEmpty
  <2>3. QED
    BY <2>1, <2>2, MesaStutter DEF Owner, monitorVars
<1>6. ASSUME NEW l \in Lock, LockAcquire(l) PROVE UNCHANGED <<Owner, Waiters>>
  <2>1. /\ InUser /\ lockFor' = [lockFor EXCEPT ![running_q] = l]
        /\ UNCHANGED <<waitq, id, lockState, lockTid>>
    BY <1>6 DEF LockAcquire
  <2>2. \A c \in CV : \A n \in Range(waitq[c]) : n # running_q
    BY <2>1, InClient, SleeperNode DEF InUser
  <2>3. \A c \in CV : \A n \in Range(waitq[c]) : lockFor'[n] = lockFor[n]
    BY <2>1, <2>2, <1>1, SleeperNode
  <2>4. QED
    BY <2>1, <2>3, MesaStutter DEF Owner
<1>7. ASSUME NEW c \in CV, CvCreate(c) \/ (waitq[c] = <<>> /\ CvDestroy(c))
      PROVE  UNCHANGED <<Owner, Waiters>>
  <2>1. UNCHANGED <<waitq, id>> /\ UNCHANGED monitorVars
    <3>1. c \in UserQ
      BY MonitorsAssumption
    <3>2. QED
      BY <3>1, <1>1, <1>7, DestroyEmpty DEF CvCreate, CvDestroy, WaitQueueCreate
  <2>2. QED
    BY <2>1, MesaStutter DEF Owner, monitorVars
<1>8. QED
  BY <1>2, <1>3, <1>4, <1>5, <1>6, <1>7

LEMMA MesaStep == MInv /\ [MNext]_allVars => [Mesa!Next]_<<Owner, Waiters>>
<1> SUFFICES ASSUME MInv, [MNext]_allVars PROVE [Mesa!Next]_<<Owner, Waiters>>
  OBVIOUS
<1>1. ASSUME PackageStep PROVE UNCHANGED <<Owner, Waiters>>
  BY <1>1, PackageMesa
<1>2. ASSUME LockTake PROVE Mesa!Next
  BY <1>2, LockTakeMesa DEF Mesa!Next
<1>3. ASSUME NEW l \in Lock, l \in inside[running_q], LockRelease(l) PROVE Mesa!Next
  BY <1>3, LockReleaseMesa DEF Mesa!Next
<1>4. ASSUME NEW l \in Lock, NEW c \in CV, l \in inside[running_q], CvWait(c, l) PROVE Mesa!Next
  BY <1>4, CvWaitMesa DEF Mesa!Next
<1>5. ASSUME NEW l \in Lock, NEW c \in CV, CvSignal(c, l) \/ CvBroadcast(c, l) PROVE Mesa!Next
  BY <1>5, CvSignalMesa, CvBroadcastMesa DEF Mesa!Next
<1>6. ASSUME UNCHANGED allVars PROVE UNCHANGED <<Owner, Waiters>>
  BY <1>6 DEF allVars, vars, monitorVars, Owner, Waiters
<1>7. QED
  BY <1>1, <1>2, <1>3, <1>4, <1>5, <1>6, OtherMesa DEF MNext

(* Locks and condition variables, whatever the timer and the other threads  *)
(* do, are Mesa monitors: no step breaks a lock's exclusion, releasing and  *)
(* joining the waiters is one step, and only a signal ends a wait.          *)
THEOREM MesaImplemented == MSpec => ImplementsMesa
<1>1. MInv /\ [MNext]_allVars => [Mesa!Next]_<<Owner, Waiters>>
  BY MesaStep
<1>2. MSpec => []MInv
  BY MonitorInvariance
<1>3. QED
  BY <1>1, <1>2, MesaInit, PTL DEF MSpec, ImplementsMesa, Mesa!Spec, Owner, Waiters
=============================================================================
