--------------------------- MODULE ThreadsProofs ---------------------------
(***************************************************************************)
(* The safety of the thread package, for any number of identifiers, heap   *)
(* blocks and client wait queues.                                          *)
(***************************************************************************)
EXTENDS Threads, QueueLemmas

(* The inductive invariant.  TypeOK alone is not inductive: that the switch *)
(* finds the wanted thread takes the agreement of the status table with the *)
(* queues, which takes the saved contexts and the fate of freed blocks.     *)
IInv ==
  /\ TypeOK
  /\ StatusMatchesQueues
  /\ NodesOfLiveThreads
  /\ ReapIsSafe
  /\ SavedContexts
  /\ WantedIsReady

USE DEF Tid, WaitQ, Status, Label, InPackageOrClient

-----------------------------------------------------------------------------
(* What is known of the thread that runs client or package code.            *)
LEMMA RunningThread ==
  ASSUME IInv, ~halted, ~Leaving
  PROVE  /\ Me \in Tid
         /\ status[Me] = "RUNNING"
         /\ nodes[Me] = running_q
         /\ pc[running_q] # "free"
         /\ running_q \notin Range(ready_q)
         /\ running_q \notin Range(exit_q)
         /\ \A w \in WaitQ : running_q \notin Range(waitq[w])
         /\ \A t \in Tid : status[t] = "RUNNING" => t = Me
<1>1. Me \in Tid /\ status[Me] = "RUNNING" /\ nodes[Me] = running_q /\ pc[running_q] # "free"
  BY DEF IInv, TypeOK, StatusMatchesQueues, RunningMatches, Registered, Me
<1>2. running_q \notin Range(ready_q)
  BY <1>1 DEF IInv, StatusMatchesQueues, ReadyMatches, Me
<1>3. running_q \notin Range(exit_q)
  BY <1>1 DEF IInv, NodesOfLiveThreads
<1>4. \A w \in WaitQ : running_q \notin Range(waitq[w])
  BY <1>1 DEF IInv, StatusMatchesQueues, WaitingMatches, Me
<1>5. \A t \in Tid : status[t] = "RUNNING" => t = Me
  BY <1>1 DEF IInv, StatusMatchesQueues, RunningMatches, NodesOfLiveThreads, Me
<1>6. QED
  BY <1>1, <1>2, <1>3, <1>4, <1>5

(* A node in the ready queue, in particular its head.                       *)
LEMMA ReadyNode ==
  ASSUME IInv, NEW n \in Range(ready_q)
  PROVE  /\ n \in Node /\ id[n] \in Tid /\ status[id[n]] = "READY"
         /\ nodes[id[n]] = n
         /\ n \notin Range(exit_q)
         /\ \A w \in WaitQ : n \notin Range(waitq[w])
<1>1. n \in Node
  BY RangeOfQueue DEF IInv, TypeOK
<1>2. id[n] \in Tid /\ status[id[n]] = "READY" /\ nodes[id[n]] = n
  BY <1>1 DEF IInv, TypeOK, StatusMatchesQueues, ReadyMatches, Registered
<1>3. n \notin Range(exit_q)
  BY <1>2 DEF IInv, NodesOfLiveThreads
<1>4. \A w \in WaitQ : n \notin Range(waitq[w])
  BY <1>2 DEF IInv, StatusMatchesQueues, WaitingMatches
<1>5. QED
  BY <1>1, <1>2, <1>3, <1>4

LEMMA ReadyHead ==
  ASSUME IInv, ready_q # <<>>
  PROVE  /\ id[Head(ready_q)] \in Tid
         /\ status[id[Head(ready_q)]] = "READY"
<1>1. Head(ready_q) \in Range(ready_q)
  BY RangeOfQueue DEF IInv, TypeOK
<1>2. QED
  BY <1>1, ReadyNode

-----------------------------------------------------------------------------
LEMMA InitIInv == Init => IInv
<1> SUFFICES ASSUME Init PROVE IInv
  OBVIOUS
<1> USE DEF Init
<1>0. Range(<<>>) = {} /\ IsInjective(<<>>) /\ 0 \in Tid /\ <<>> \in Seq(Node)
  BY ThreadsAssumption, EmptyQueue, EmptySeq
<1>1. TypeOK
  BY <1>0 DEF TypeOK
<1>2. StatusMatchesQueues
  <2>1. ReadyMatches
    BY <1>0 DEF ReadyMatches
  <2>2. WaitingMatches
    BY <1>0 DEF WaitingMatches
  <2>3. RunningMatches
    BY <1>0 DEF RunningMatches, Leaving, Me, Registered
  <2>4. QED
    BY <2>1, <2>2, <2>3 DEF StatusMatchesQueues
<1>3. NodesOfLiveThreads
  BY <1>0 DEF NodesOfLiveThreads
<1>4. ReapIsSafe
  BY <1>0 DEF ReapIsSafe
<1>5. SavedContexts
  BY <1>0 DEF SavedContexts
<1>6. WantedIsReady
  BY DEF WantedIsReady, Leaving
<1>7. QED
  BY <1>1, <1>2, <1>3, <1>4, <1>5, <1>6 DEF IInv

-----------------------------------------------------------------------------
(* The two halves of StatusMatchesQueues survive a step that leaves the     *)
(* queue alone and forgets nothing about the threads in it.                 *)
LEMMA ReadyFrame ==
  ASSUME IInv, ready_q' = ready_q,
         \A t \in Tid : status[t] = "READY" <=> status'[t] = "READY",
         \A t \in Tid : status[t] = "READY" =>
           nodes'[t] = nodes[t] /\ id'[nodes[t]] = t /\ pc'[nodes[t]] # "free"
  PROVE  ReadyMatches'
<1>1. \A n \in Range(ready_q) : id[n] \in Tid /\ status[id[n]] = "READY" /\ nodes[id[n]] = n
  BY ReadyNode
<1>2. IsInjective(ready_q) /\ \A t \in Tid : status[t] = "READY" => nodes[t] \in Range(ready_q)
  BY DEF IInv, StatusMatchesQueues, ReadyMatches
<1>3. QED
  BY <1>1, <1>2 DEF ReadyMatches, Registered

(* A node in a wait queue.                                                  *)
LEMMA WaitingNode ==
  ASSUME IInv, NEW w \in WaitQ, NEW n \in Range(waitq[w])
  PROVE  /\ n \in Node /\ id[n] \in Tid /\ status[id[n]] = "WAITING" /\ nodes[id[n]] = n
         /\ pc[n] # "free"
<1>1. waitq[w] \in Seq(Node)
  BY DEF IInv, TypeOK
<1>2. n \in Node
  BY <1>1, RangeOfQueue
<1>3. QED
  BY <1>2 DEF IInv, TypeOK, StatusMatchesQueues, WaitingMatches, Registered

LEMMA WaitingFrame ==
  ASSUME IInv, waitq' = waitq,
         \A t \in Tid : status[t] = "WAITING" <=> status'[t] = "WAITING",
         \A t \in Tid : status[t] = "WAITING" =>
           nodes'[t] = nodes[t] /\ id'[nodes[t]] = t /\ pc'[nodes[t]] # "free"
  PROVE  WaitingMatches'
<1>1. \A w \in WaitQ : \A n \in Range(waitq[w]) :
        id[n] \in Tid /\ status[id[n]] = "WAITING" /\ nodes[id[n]] = n
  BY WaitingNode
<1>2. /\ \A w \in WaitQ : IsInjective(waitq[w])
      /\ \A v, w \in WaitQ : v # w => Range(waitq[v]) \cap Range(waitq[w]) = {}
      /\ \A t \in Tid : status[t] = "WAITING" => \E w \in WaitQ : nodes[t] \in Range(waitq[w])
  BY DEF IInv, StatusMatchesQueues, WaitingMatches
<1>3. QED
  BY <1>1, <1>2 DEF WaitingMatches, Registered

(* The case of a step that only moves contexts from label to label.         *)
LEMMA LabelFrame ==
  ASSUME IInv, UNCHANGED <<status, nodes, ready_q, waitq, id>>,
         \A n \in Node : pc[n] # "free" => pc'[n] # "free"
  PROVE  ReadyMatches' /\ WaitingMatches'
<1>1. \A t \in Tid : status[t] # "EMPTY" => id[nodes[t]] = t /\ pc'[nodes[t]] # "free"
  BY DEF IInv, NodesOfLiveThreads
<1>2. ReadyMatches'
  BY <1>1, ReadyFrame
<1>3. WaitingMatches'
  BY <1>1, WaitingFrame
<1>4. QED
  BY <1>2, <1>3

-----------------------------------------------------------------------------
(* A running thread only moves on: out of thread_stub, out of thread_wait,  *)
(* into or out of a call that does not switch.                              *)
LEMMA MoveOnStep ==
  ASSUME IInv, ~halted, pc[running_q] \in {"stub", "user", "waited", "lock"},
         NEW to \in InPackageOrClient,
         pc' = [pc EXCEPT ![running_q] = to],
         waitFor' \in [Node -> Tid \cup {NULL}],
         UNCHANGED <<status, nodes, ready_q, exit_q, running_q, waitq, queues,
                     id, back, yield_count, want, halted>>
  PROVE  IInv'
<1>0. /\ ~Leaving /\ ~Leaving' /\ pc[running_q] # "free" /\ yield_count[running_q] = 0
      /\ running_q \in Node /\ pc'[running_q] = to
      /\ \A n \in Node : n # running_q => pc'[n] = pc[n]
  BY DEF Leaving, IInv, TypeOK, SavedContexts
<1>1. TypeOK'
  BY DEF IInv, TypeOK
<1>2. StatusMatchesQueues'
  <2>1. ReadyMatches' /\ WaitingMatches'
    <3>1. \A n \in Node : pc[n] # "free" => pc'[n] # "free"
      BY <1>0 DEF IInv, TypeOK
    <3>2. QED
      BY <3>1, LabelFrame
  <2>2. RunningMatches'
    BY <1>0 DEF IInv, TypeOK, StatusMatchesQueues, RunningMatches, Registered, Me
  <2>3. QED
    BY <2>1, <2>2 DEF StatusMatchesQueues
<1>3. NodesOfLiveThreads'
  BY DEF IInv, TypeOK, NodesOfLiveThreads
<1>4. ReapIsSafe'
  BY <1>0 DEF IInv, TypeOK, ReapIsSafe
<1>5. SavedContexts'
  BY <1>0 DEF IInv, TypeOK, SavedContexts
<1>6. WantedIsReady'
  BY <1>0 DEF WantedIsReady
<1>7. QED
  BY <1>1, <1>2, <1>3, <1>4, <1>5, <1>6 DEF IInv

LEMMA StartStep == IInv /\ (Start \/ WaitReturn) => IInv'
<1> SUFFICES ASSUME IInv, Start \/ WaitReturn PROVE IInv'
  OBVIOUS
<1>1. waitFor' \in [Node -> Tid \cup {NULL}]
  BY DEF Start, WaitReturn, IInv, TypeOK
<1>2. QED
  BY <1>1, MoveOnStep DEF Start, WaitReturn

(* thread_create: the block of the new node is in no queue.                 *)
LEMMA CreateStep == IInv /\ Create => IInv'
<1> SUFFICES ASSUME IInv, InUser,
                    NEW t \in Tid, NEW n \in Node,
                    status[t] = "EMPTY", pc[n] = "free",
                    id' = [id EXCEPT ![n] = t],
                    pc' = [pc EXCEPT ![n] = "stub"],
                    status' = [status EXCEPT ![t] = "READY"],
                    nodes' = [nodes EXCEPT ![t] = n],
                    ready_q' = Append(ready_q, n),
                    yield_count' = [yield_count EXCEPT ![n] = 0],
                    back' = [back EXCEPT ![n] = "user"],
                    waitFor' = [waitFor EXCEPT ![n] = NULL],
                    UNCHANGED <<exit_q, running_q, waitq, queues, want, halted>>
             PROVE  IInv'
  BY DEF Create, LowestEmpty, Enqueue
<1>0. /\ ~Leaving /\ ~halted /\ ~Leaving' /\ n # running_q /\ pc[running_q] = "user"
  BY DEF InUser, Leaving, IInv, TypeOK
<1>1. /\ Append(ready_q, n) \in Seq(Node)
      /\ Range(ready_q') = Range(ready_q) \cup {n}
      /\ IsInjective(ready_q')
  <2>1. n \notin Range(ready_q) /\ IsInjective(ready_q)
    BY DEF IInv, StatusMatchesQueues, ReadyMatches, Registered
  <2>2. QED
    BY <2>1, AppendQueue DEF IInv, TypeOK
<1>2. TypeOK'
  BY <1>1 DEF IInv, TypeOK
<1>3. StatusMatchesQueues'
  <2>1. ReadyMatches'
    <3>1. \A m \in Range(ready_q) : m \in Node /\ m # n /\ id[m] # t /\ id[m] \in Tid
                                    /\ Registered(m) /\ status[id[m]] = "READY"
      BY ReadyNode DEF IInv, StatusMatchesQueues, ReadyMatches, Registered
    <3>2. \A m \in Range(ready_q') : Registered(m)' /\ status'[id'[m]] = "READY"
      BY <1>1, <3>1 DEF IInv, TypeOK, Registered
    <3>3. \A u \in Tid : status'[u] = "READY" => nodes'[u] \in Range(ready_q')
      BY <1>1 DEF IInv, TypeOK, StatusMatchesQueues, ReadyMatches
    <3>4. QED
      BY <1>1, <3>2, <3>3 DEF ReadyMatches
  <2>2. WaitingMatches'
    <3>1. \A u \in Tid : status[u] = "WAITING" =>
            u # t /\ nodes[u] # n /\ nodes[u] \in Node /\ id[nodes[u]] = u /\ pc[nodes[u]] # "free"
      BY DEF IInv, NodesOfLiveThreads
    <3>2. \A u \in Tid : status[u] = "WAITING" =>
            nodes'[u] = nodes[u] /\ id'[nodes[u]] = u /\ pc'[nodes[u]] # "free"
      BY <3>1 DEF IInv, TypeOK
    <3>3. \A u \in Tid : status[u] = "WAITING" <=> status'[u] = "WAITING"
      BY DEF IInv, TypeOK
    <3>4. QED
      BY <3>2, <3>3, WaitingFrame
  <2>3. RunningMatches'
    BY <1>0, RunningThread DEF IInv, TypeOK, StatusMatchesQueues, RunningMatches, Registered, Me
  <2>4. QED
    BY <2>1, <2>2, <2>3 DEF StatusMatchesQueues
<1>4. NodesOfLiveThreads'
  <2>1. n \notin Range(exit_q)
    BY DEF IInv, ReapIsSafe
  <2>2. QED
    BY <2>1 DEF IInv, TypeOK, NodesOfLiveThreads
<1>5. ReapIsSafe'
  BY <1>0, RunningThread DEF IInv, TypeOK, ReapIsSafe
<1>6. SavedContexts'
  BY <1>0 DEF IInv, TypeOK, SavedContexts, NodesOfLiveThreads
<1>7. WantedIsReady'
  BY <1>0 DEF WantedIsReady
<1>8. QED
  BY <1>2, <1>3, <1>4, <1>5, <1>6, <1>7 DEF IInv

(* thread_yield before its switch, to a ready thread t.                     *)
LEMMA YieldStep ==
  ASSUME IInv, InUser, NEW t \in Tid, status[t] = "READY", Yield(t)
  PROVE  IInv'
<1> USE DEF Yield, Enqueue
<1>0. /\ ~Leaving /\ ~halted /\ Leaving' /\ pc'[running_q] = "getcontext"
      /\ running_q \in Node /\ yield_count[running_q] = 0 /\ pc[running_q] = "user"
      /\ \A n \in Node : n # running_q => pc'[n] = pc[n] /\ back'[n] = back[n]
      /\ back'[running_q] = "user"
  BY DEF InUser, Leaving, IInv, TypeOK, SavedContexts
<1>1. /\ Me \in Tid /\ status[Me] = "RUNNING" /\ nodes[Me] = running_q /\ id[running_q] = Me
      /\ running_q \notin Range(ready_q) /\ Me # t
      /\ \A u \in Tid : status[u] = "RUNNING" => u = Me
      /\ status'[Me] = "READY" /\ \A u \in Tid : u # Me => status'[u] = status[u]
  BY <1>0, RunningThread DEF IInv, TypeOK, Me
<1>2. /\ ready_q' \in Seq(Node)
      /\ Range(ready_q') = Range(ready_q) \cup {running_q}
      /\ IsInjective(ready_q')
  BY <1>0, <1>1, AppendQueue DEF IInv, TypeOK, StatusMatchesQueues, ReadyMatches
<1>3. TypeOK'
  BY <1>2 DEF IInv, TypeOK
<1>4. StatusMatchesQueues'
  <2>1. ReadyMatches'
    <3>1. \A n \in Range(ready_q') : Registered(n)' /\ status'[id'[n]] = "READY"
      <4>1. \A n \in Range(ready_q) : n \in Node /\ n # running_q /\ id[n] \in Tid
                                       /\ Registered(n) /\ status[id[n]] = "READY"
        BY <1>1, ReadyNode DEF IInv, StatusMatchesQueues, ReadyMatches
      <4>2. QED
        BY <4>1, <1>0, <1>1, <1>2 DEF Registered
    <3>2. \A u \in Tid : status'[u] = "READY" => nodes'[u] \in Range(ready_q')
      BY <1>1, <1>2 DEF IInv, StatusMatchesQueues, ReadyMatches
    <3>3. QED
      BY <1>2, <3>1, <3>2 DEF ReadyMatches
  <2>2. WaitingMatches'
    <3>1. \A u \in Tid : status[u] = "WAITING" <=> status'[u] = "WAITING"
      BY <1>1
    <3>2. \A u \in Tid : status[u] = "WAITING" =>
            nodes'[u] = nodes[u] /\ id'[nodes[u]] = u /\ pc'[nodes[u]] # "free"
      BY <1>0 DEF IInv, NodesOfLiveThreads
    <3>3. QED
      BY <3>1, <3>2, WaitingFrame
  <2>3. RunningMatches'
    BY <1>0, <1>1 DEF RunningMatches
  <2>4. QED
    BY <2>1, <2>2, <2>3 DEF StatusMatchesQueues
<1>5. NodesOfLiveThreads'
  BY <1>0, <1>1 DEF IInv, NodesOfLiveThreads
<1>6. ReapIsSafe'
  <2>1. \A n \in Range(exit_q) : n \in Node
    BY RangeOfQueue DEF IInv, TypeOK
  <2>2. QED
    BY <2>1, <1>0 DEF IInv, ReapIsSafe
<1>7. SavedContexts'
  <2>1. \A u \in Tid : status'[u] # "EMPTY" => back'[nodes'[u]] \in InPackageOrClient
    BY <1>0, <1>1 DEF IInv, SavedContexts, NodesOfLiveThreads
  <2>2. QED
    BY <2>1, <1>0 DEF IInv, SavedContexts
<1>8. WantedIsReady'
  BY <1>1 DEF WantedIsReady
<1>9. QED
  BY <1>3, <1>4, <1>5, <1>6, <1>7, <1>8 DEF IInv

(* The first return of getcontext: the wanted thread is found and runs.     *)
(* The switch finds the thread a yield chose: there is one node of its id   *)
(* in the ready queue, and the search by id stops at it.                    *)
LEMMA WantedIsFound ==
  ASSUME IInv, Leaving, ~halted
  PROVE  /\ want \in Tid /\ status[want] = "READY"
         /\ PositionOf(ready_q, want) \in DOMAIN ready_q
         /\ ready_q[PositionOf(ready_q, want)] = nodes[want]
<1> DEFINE k == PositionOf(ready_q, want)
<1>1. want \in Tid /\ status[want] = "READY"
  BY DEF IInv, WantedIsReady
<1>2. nodes[want] \in Range(ready_q) /\ id[nodes[want]] = want
  BY <1>1 DEF IInv, StatusMatchesQueues, ReadyMatches, NodesOfLiveThreads
<1>3. PICK i \in DOMAIN ready_q : ready_q[i] = nodes[want]
  BY <1>2 DEF Range
<1>4. \A j \in DOMAIN ready_q : id[ready_q[j]] = want => ready_q[j] = nodes[want]
  BY DEF IInv, StatusMatchesQueues, ReadyMatches, Registered, Range
<1>5. \A j \in DOMAIN ready_q : id[ready_q[j]] = want => j = i
  BY <1>3, <1>4 DEF IInv, StatusMatchesQueues, ReadyMatches, IsInjective
<1>6. DOMAIN ready_q = 1 .. Len(ready_q) /\ Len(ready_q) \in Nat
  BY LenProperties DEF IInv, TypeOK
<1>7. \A j \in 1 .. i - 1 : id[ready_q[j]] # want
  BY <1>5, <1>6
<1>8. id[ready_q[i]] = want
  BY <1>2, <1>3
<1>9. k \in DOMAIN ready_q /\ id[ready_q[k]] = want
  BY <1>7, <1>8 DEF PositionOf
<1>10. QED
  BY <1>1, <1>4, <1>9

LEMMA SwitchStep == IInv /\ Switch => IInv'
<1> SUFFICES ASSUME IInv, Switch PROVE IInv'
  OBVIOUS
<1> DEFINE k == PositionOf(ready_q, want)
           r == ready_q[k]
<1>1. Leaving /\ ~halted /\ want \in Tid /\ status[want] = "READY"
  <2>1. Leaving /\ ~halted
    BY DEF Switch, Leaving
  <2>2. QED
    BY <2>1 DEF IInv, WantedIsReady
<1>2. k \in DOMAIN ready_q /\ r = nodes[want]
  BY <1>1, WantedIsFound
<1> HIDE DEF k
<1>3. /\ yield_count' = [yield_count EXCEPT ![running_q] = 1]
      /\ status' = [status EXCEPT ![want] = "RUNNING"]
      /\ running_q' = r
      /\ ready_q' = RemoveAt(ready_q, k)
      /\ want' = NULL
      /\ UNCHANGED <<nodes, exit_q, waitq, queues, id, pc, back, waitFor, halted>>
  BY DEF Switch, k
<1>4. /\ r \in Range(ready_q) /\ r \in Node /\ id[r] = want /\ nodes[want] = r
      /\ r \notin Range(exit_q)
  <2>1. r \in Range(ready_q)
    BY <1>2 DEF Range
  <2>2. QED
    BY <2>1, <1>1, <1>2, ReadyNode DEF IInv, NodesOfLiveThreads
<1>5. /\ ready_q' \in Seq(Node)
      /\ Range(ready_q') = Range(ready_q) \ {r}
      /\ IsInjective(ready_q')
  BY <1>2, <1>3, RemoveQueue DEF IInv, TypeOK, StatusMatchesQueues, ReadyMatches
<1> HIDE DEF r
<1>6. \A u \in Tid : status[u] # "RUNNING"
  BY <1>1 DEF IInv, StatusMatchesQueues, RunningMatches
<1>7. /\ status'[want] = "RUNNING" /\ \A u \in Tid : u # want => status'[u] = status[u]
      /\ yield_count'[running_q] = 1
      /\ \A n \in Node : n # running_q => yield_count'[n] = yield_count[n]
      /\ running_q \in Node /\ pc[running_q] = "getcontext"
  BY <1>1, <1>3 DEF IInv, TypeOK, Leaving
<1>8. ~Leaving'
  BY <1>3, <1>4, <1>7 DEF IInv, SavedContexts, Leaving
<1>9. TypeOK'
  BY <1>3, <1>4, <1>5 DEF IInv, TypeOK
<1>10. StatusMatchesQueues'
  <2>1. ReadyMatches'
    <3>1. \A n \in Range(ready_q') : Registered(n)' /\ status'[id'[n]] = "READY"
      <4>1. \A n \in Range(ready_q') : id[n] \in Tid /\ nodes[id[n]] = n /\ pc[n] # "free"
                                         /\ status[id[n]] = "READY" /\ n # r
        BY <1>5, ReadyNode DEF IInv, StatusMatchesQueues, ReadyMatches, Registered
      <4>2. QED
        BY <4>1, <1>3, <1>4, <1>7 DEF Registered
    <3>2. \A u \in Tid : status'[u] = "READY" => nodes'[u] \in Range(ready_q')
      <4>1. SUFFICES ASSUME NEW u \in Tid, status'[u] = "READY"
                     PROVE  nodes[u] \in Range(ready_q) \ {r}
        BY <1>3, <1>5
      <4>2. u # want /\ status[u] = "READY"
        BY <4>1, <1>7
      <4>3. nodes[u] \in Range(ready_q) /\ id[nodes[u]] = u
        BY <4>2 DEF IInv, StatusMatchesQueues, ReadyMatches, NodesOfLiveThreads
      <4>4. QED
        BY <4>2, <4>3, <1>4
    <3>3. QED
      BY <1>5, <3>1, <3>2 DEF ReadyMatches
  <2>2. WaitingMatches'
    <3>1. \A u \in Tid : status[u] = "WAITING" <=> status'[u] = "WAITING"
      BY <1>1, <1>7
    <3>2. \A u \in Tid : status[u] = "WAITING" =>
            nodes'[u] = nodes[u] /\ id'[nodes[u]] = u /\ pc'[nodes[u]] # "free"
      BY <1>3 DEF IInv, NodesOfLiveThreads
    <3>3. QED
      BY <3>1, <3>2, <1>3, WaitingFrame
  <2>3. RunningMatches'
    <3>1. Me' = want /\ Registered(running_q)'
      BY <1>3, <1>4, <1>1 DEF Me, Registered, IInv, NodesOfLiveThreads
    <3>2. QED
      BY <3>1, <1>3, <1>4, <1>6, <1>7, <1>8 DEF RunningMatches
  <2>4. QED
    BY <2>1, <2>2, <2>3 DEF StatusMatchesQueues
<1>11. NodesOfLiveThreads'
  BY <1>1, <1>3, <1>7 DEF IInv, NodesOfLiveThreads
<1>12. ReapIsSafe'
  BY <1>1, <1>3, <1>4 DEF IInv, ReapIsSafe, NodesOfLiveThreads
<1>13. SavedContexts'
  <2>1. \A n \in Node : pc[n] \notin InPackageOrClient
    BY <1>7 DEF IInv, SavedContexts
  <2>2. QED
    BY <2>1, <1>1, <1>3, <1>7 DEF IInv, SavedContexts
<1>14. WantedIsReady'
  BY <1>8 DEF WantedIsReady
<1>15. QED
  BY <1>9, <1>10, <1>11, <1>12, <1>13, <1>14 DEF IInv

(* The second return of getcontext: what deleteAll(exit_q) frees is no      *)
(* thread's node any more.                                                  *)
LEMMA ResumeStep == IInv /\ Resume => IInv'
<1> SUFFICES ASSUME IInv, Resume PROVE IInv'
  OBVIOUS
<1> DEFINE dead == Range(exit_q)
<1>1. /\ ~halted /\ ~Leaving /\ pc[running_q] = "getcontext"
      /\ UNCHANGED <<status, nodes, ready_q, running_q, waitq, queues, want, waitFor, halted>>
      /\ exit_q' = <<>>
  BY DEF Resume, Leaving, DeleteAll
<1>2. /\ running_q \in Node /\ dead \subseteq Node /\ running_q \notin dead
      /\ Me \in Tid /\ status[Me] = "RUNNING" /\ nodes[Me] = running_q
      /\ back[running_q] \in InPackageOrClient
  BY <1>1, RunningThread, RangeOfQueue DEF IInv, TypeOK, SavedContexts
<1>3. /\ pc' \in [Node -> Label] /\ yield_count' \in [Node -> {0, 1}]
      /\ back' \in [Node -> Label] /\ id' \in [Node -> Tid]
      /\ pc'[running_q] = back[running_q] /\ yield_count'[running_q] = 0
      /\ back'[running_q] = "user" /\ id'[running_q] = id[running_q]
      /\ \A n \in dead : pc'[n] = "free"
      /\ \A n \in Node \ dead : n # running_q =>
           pc'[n] = pc[n] /\ yield_count'[n] = yield_count[n] /\ back'[n] = back[n] /\ id'[n] = id[n]
  <2>1. 0 \in Tid
    BY ThreadsAssumption
  <2>2. QED
    BY <2>1, <1>2 DEF Resume, FlagReset, Freed, IInv, TypeOK
<1> HIDE DEF dead
<1>4. \A t \in Tid : status[t] # "EMPTY" =>
        /\ nodes[t] \in Node \ dead /\ id'[nodes[t]] = t /\ pc'[nodes[t]] # "free"
        /\ back'[nodes[t]] \in InPackageOrClient
  BY <1>2, <1>3 DEF IInv, NodesOfLiveThreads, SavedContexts, dead
<1>5. ~Leaving' /\ pc'[running_q] # "free" /\ Registered(running_q)'
  BY <1>1, <1>2, <1>3 DEF Leaving, Registered, Me
<1>6. TypeOK'
  <2>1. exit_q' \in Seq(Node)
    BY <1>1, EmptySeq
  <2>2. QED
    BY <2>1, <1>1, <1>3 DEF IInv, TypeOK
<1>7. StatusMatchesQueues'
  <2>1. ReadyMatches'
    BY <1>1, <1>4, ReadyFrame
  <2>2. WaitingMatches'
    BY <1>1, <1>4, WaitingFrame
  <2>3. RunningMatches'
    <3>1. Me' = Me
      BY <1>1, <1>3 DEF Me
    <3>2. QED
      BY <3>1, <1>1, <1>2, <1>5 DEF IInv, StatusMatchesQueues, RunningMatches
  <2>4. QED
    BY <2>1, <2>2, <2>3 DEF StatusMatchesQueues
<1>8. NodesOfLiveThreads'
  BY <1>1, <1>4, EmptyQueue DEF NodesOfLiveThreads
<1>9. ReapIsSafe'
  BY <1>1, <1>5, EmptyQueue DEF ReapIsSafe
<1>10. SavedContexts'
  <2>1. \A n \in Node : pc[n] \notin InPackageOrClient
    BY <1>1 DEF IInv, SavedContexts
  <2>2. ASSUME NEW n \in Node
        PROVE  /\ pc'[n] \in InPackageOrClient => n = running_q /\ yield_count'[n] = 0
               /\ pc'[n] = "getcontext" /\ n # running_q => yield_count'[n] = 1
               /\ pc'[n] = "stub" => yield_count'[n] = 0
               /\ pc'[n] # "zombie"
    <3>1. CASE n = running_q
      BY <3>1, <1>2, <1>3
    <3>2. CASE n \in dead
      BY <3>2, <1>2, <1>3
    <3>3. CASE n # running_q /\ n \notin dead
      BY <3>3, <2>1, <1>3 DEF IInv, SavedContexts
    <3>4. QED
      BY <3>1, <3>2, <3>3
  <2>3. QED
    BY <2>2, <1>1, <1>4 DEF SavedContexts
<1>11. WantedIsReady'
  BY <1>5 DEF WantedIsReady
<1>12. QED
  BY <1>6, <1>7, <1>8, <1>9, <1>10, <1>11 DEF IInv

(* thread_sleep before the switch of its thread_yield.                      *)
LEMMA SleepStep ==
  ASSUME IInv, ~halted, pc[running_q] \in {"user", "lock"},
         NEW w \in WaitQ, NEW cont \in InPackageOrClient,
         SleepOn(w, cont), waitFor' \in [Node -> Tid \cup {NULL}]
  PROVE  IInv'
<1> USE DEF SleepOn, Enqueue
<1>0. /\ ~Leaving /\ ~halted /\ Leaving' /\ pc'[running_q] = "getcontext"
      /\ running_q \in Node /\ yield_count[running_q] = 0 /\ pc[running_q] # "getcontext"
      /\ \A n \in Node : n # running_q => pc'[n] = pc[n] /\ back'[n] = back[n]
      /\ back'[running_q] = cont
  BY DEF Leaving, IInv, TypeOK, SavedContexts
<1>1. /\ Me \in Tid /\ status[Me] = "RUNNING" /\ nodes[Me] = running_q /\ id[running_q] = Me
      /\ \A v \in WaitQ : running_q \notin Range(waitq[v])
      /\ \A u \in Tid : status[u] = "RUNNING" => u = Me
      /\ status'[Me] = "WAITING" /\ \A u \in Tid : u # Me => status'[u] = status[u]
  BY <1>0, RunningThread DEF IInv, TypeOK, Me
<1>2. /\ waitq' \in [WaitQ -> Seq(Node)]
      /\ Range(waitq'[w]) = Range(waitq[w]) \cup {running_q}
      /\ IsInjective(waitq'[w])
      /\ \A v \in WaitQ : v # w => waitq'[v] = waitq[v]
  <2>1. waitq[w] \in Seq(Node) /\ IsInjective(waitq[w])
    BY DEF IInv, TypeOK, StatusMatchesQueues, WaitingMatches
  <2>2. /\ Append(waitq[w], running_q) \in Seq(Node)
        /\ Range(Append(waitq[w], running_q)) = Range(waitq[w]) \cup {running_q}
        /\ IsInjective(Append(waitq[w], running_q))
    BY <2>1, <1>0, <1>1, AppendQueue
  <2>3. QED
    BY <2>2 DEF IInv, TypeOK
<1>3. want' \in Tid /\ status[want'] = "READY"
  BY ReadyHead
<1>4. TypeOK'
  BY <1>2, <1>3 DEF IInv, TypeOK
<1>5. StatusMatchesQueues'
  <2>1. ReadyMatches'
    <3>1. \A u \in Tid : status[u] = "READY" <=> status'[u] = "READY"
      BY <1>1
    <3>2. \A u \in Tid : status[u] = "READY" =>
            nodes'[u] = nodes[u] /\ id'[nodes[u]] = u /\ pc'[nodes[u]] # "free"
      BY <1>0 DEF IInv, NodesOfLiveThreads
    <3>3. QED
      BY <3>1, <3>2, ReadyFrame
  <2>2. WaitingMatches'
    <3>1. \A v \in WaitQ : \A n \in Range(waitq[v]) :
            n \in Node /\ n # running_q /\ id[n] \in Tid /\ id[n] # Me /\ nodes[id[n]] = n
            /\ status[id[n]] = "WAITING" /\ pc[n] # "free"
      <4>1. \A v \in WaitQ : \A n \in Range(waitq[v]) : pc[n] # "free"
        BY DEF IInv, StatusMatchesQueues, WaitingMatches, Registered
      <4>2. \A v \in WaitQ : \A n \in Range(waitq[v]) : n # running_q
        BY <1>1
      <4>3. SUFFICES ASSUME NEW v \in WaitQ, NEW n \in Range(waitq[v])
                     PROVE  n \in Node /\ id[n] \in Tid /\ id[n] # Me /\ nodes[id[n]] = n
                            /\ status[id[n]] = "WAITING"
        BY <4>1, <4>2
      <4>4. QED
        BY <1>1, WaitingNode
    <3>2. ASSUME NEW v \in WaitQ
          PROVE  IsInjective(waitq'[v]) /\ \A n \in Range(waitq'[v]) :
                   Registered(n)' /\ status'[id'[n]] = "WAITING"
      <4>1. IsInjective(waitq'[v])
        BY <1>2 DEF IInv, StatusMatchesQueues, WaitingMatches
      <4>2. \A n \in Range(waitq'[v]) : n = running_q \/ n \in Range(waitq[v])
        BY <1>2
      <4>3. ASSUME NEW n \in Range(waitq'[v])
            PROVE  nodes[id[n]] = n /\ pc'[n] # "free" /\ status'[id[n]] = "WAITING"
        <5>1. CASE n = running_q
          BY <5>1, <1>0, <1>1
        <5>2. CASE n \in Range(waitq[v])
          BY <5>2, <3>1, <1>0, <1>1
        <5>3. QED
          BY <4>2, <5>1, <5>2
      <4>4. QED
        BY <4>1, <4>3 DEF Registered
    <3>3. \A u, v \in WaitQ : u # v => Range(waitq'[u]) \cap Range(waitq'[v]) = {}
      <4>1. \A u, v \in WaitQ : u # v => Range(waitq[u]) \cap Range(waitq[v]) = {}
        BY DEF IInv, StatusMatchesQueues, WaitingMatches
      <4>2. \A v \in WaitQ : v # w => Range(waitq'[v]) \cap Range(waitq'[w]) = {}
        <5>1. SUFFICES ASSUME NEW v \in WaitQ, v # w
                       PROVE  Range(waitq[v]) \cap (Range(waitq[w]) \cup {running_q}) = {}
          BY <1>2
        <5>2. Range(waitq[v]) \cap Range(waitq[w]) = {} /\ running_q \notin Range(waitq[v])
          BY <4>1, <5>1, <1>1
        <5>3. QED
          BY <5>2
      <4>3. \A u, v \in WaitQ : u # w /\ v # w /\ u # v => Range(waitq'[u]) \cap Range(waitq'[v]) = {}
        BY <4>1, <1>2
      <4>4. QED
        BY <4>2, <4>3
    <3>4. \A u \in Tid : status'[u] = "WAITING" =>
            \E v \in WaitQ : nodes'[u] \in Range(waitq'[v])
      <4>1. SUFFICES ASSUME NEW u \in Tid, status'[u] = "WAITING"
                     PROVE  \E v \in WaitQ : nodes[u] \in Range(waitq'[v])
        OBVIOUS
      <4>2. CASE u = Me
        BY <4>2, <1>1, <1>2
      <4>3. CASE u # Me
        <5>1. PICK v \in WaitQ : nodes[u] \in Range(waitq[v])
          BY <4>1, <4>3, <1>1 DEF IInv, StatusMatchesQueues, WaitingMatches
        <5>2. nodes[u] \in Range(waitq'[v])
          BY <5>1, <1>2
        <5>3. QED
          BY <5>2
      <4>4. QED
        BY <4>2, <4>3
    <3>5. QED
      BY <3>2, <3>3, <3>4 DEF WaitingMatches
  <2>3. RunningMatches'
    BY <1>0, <1>1 DEF RunningMatches
  <2>4. QED
    BY <2>1, <2>2, <2>3 DEF StatusMatchesQueues
<1>6. NodesOfLiveThreads'
  BY <1>0, <1>1 DEF IInv, NodesOfLiveThreads
<1>7. ReapIsSafe'
  <2>1. \A n \in Range(exit_q) : n \in Node
    BY RangeOfQueue DEF IInv, TypeOK
  <2>2. QED
    BY <2>1, <1>0 DEF IInv, ReapIsSafe
<1>8. SavedContexts'
  <2>1. \A u \in Tid : status'[u] # "EMPTY" => back'[nodes'[u]] \in InPackageOrClient
    BY <1>0, <1>1 DEF IInv, SavedContexts, NodesOfLiveThreads
  <2>2. QED
    BY <2>1, <1>0 DEF IInv, SavedContexts
<1>9. WantedIsReady'
  BY <1>1, <1>3 DEF WantedIsReady
<1>10. QED
  BY <1>4, <1>5, <1>6, <1>7, <1>8, <1>9 DEF IInv

(* The first k threads of wait queue w, which are about to be woken.        *)
LEMMA WokenNodes ==
  ASSUME IInv, NEW w \in WaitQ, NEW k \in 0 .. Len(waitq[w])
  PROVE  LET a == Woken(w, k)
             b == SubSeq(waitq[w], k + 1, Len(waitq[w]))
         IN /\ a \in Seq(Node) /\ b \in Seq(Node) /\ Range(a) \cup Range(b) = Range(waitq[w])
            /\ IsInjective(a) /\ IsInjective(b) /\ Range(a) \cap Range(b) = {}
            /\ \A n \in Range(a) : n \in Node /\ id[n] \in Tid /\ status[id[n]] = "WAITING"
                                    /\ nodes[id[n]] = n /\ pc[n] # "free"
            /\ Range(ready_q) \cap Range(a) = {}
<1> DEFINE a == Woken(w, k)
           b == SubSeq(waitq[w], k + 1, Len(waitq[w]))
<1>1. /\ a \in Seq(Node) /\ b \in Seq(Node) /\ Range(a) \cup Range(b) = Range(waitq[w])
      /\ IsInjective(a) /\ IsInjective(b) /\ Range(a) \cap Range(b) = {}
  <2>1. waitq[w] \in Seq(Node) /\ IsInjective(waitq[w])
    BY DEF IInv, TypeOK, StatusMatchesQueues, WaitingMatches
  <2>2. QED
    BY <2>1, CutQueue DEF Woken
<1> HIDE DEF a, b
<1>2. \A n \in Range(a) : n \in Node /\ id[n] \in Tid /\ status[id[n]] = "WAITING"
                          /\ nodes[id[n]] = n /\ pc[n] # "free"
  <2>1. \A n \in Range(a) : n \in Range(waitq[w])
    BY <1>1
  <2>2. QED
    BY <2>1, WaitingNode
<1>3. Range(ready_q) \cap Range(a) = {}
  BY <1>2, ReadyNode
<1>4. QED
  BY <1>1, <1>2, <1>3 DEF a, b

(* They go to the tail of the ready queue.                                  *)
LEMMA WakeReady ==
  ASSUME IInv, NEW w \in WaitQ, NEW k \in 0 .. Len(waitq[w]),
         ready_q' = ready_q \o Woken(w, k),
         \A t \in IdsOf(Woken(w, k)) : status'[t] = "READY",
         \A t \in Tid \ IdsOf(Woken(w, k)) : status'[t] = "READY" <=> status[t] = "READY",
         UNCHANGED <<nodes, id>>,
         \A n \in Node : pc[n] # "free" => pc'[n] # "free"
  PROVE  /\ ready_q' \in Seq(Node)
         /\ Range(ready_q') = Range(ready_q) \cup Range(Woken(w, k))
         /\ ReadyMatches'
<1> DEFINE a == Woken(w, k)
<1>1. /\ a \in Seq(Node) /\ IsInjective(a) /\ Range(ready_q) \cap Range(a) = {}
      /\ \A n \in Range(a) : n \in Node /\ id[n] \in Tid /\ status[id[n]] = "WAITING"
                              /\ nodes[id[n]] = n /\ pc[n] # "free"
  BY WokenNodes
<1> HIDE DEF a
<1>2. /\ ready_q' \in Seq(Node) /\ IsInjective(ready_q')
      /\ Range(ready_q') = Range(ready_q) \cup Range(a)
  <2>1. ready_q' = ready_q \o a
    BY DEF a
  <2>2. ready_q \in Seq(Node) /\ IsInjective(ready_q)
    BY DEF IInv, TypeOK, StatusMatchesQueues, ReadyMatches
  <2>3. QED
    BY <2>1, <2>2, <1>1, ConcatQueue
<1>3. /\ \A n \in Range(a) : status'[id[n]] = "READY"
      /\ \A t \in Tid : status'[t] = "READY" =>
           status[t] = "READY" \/ \E n \in Range(a) : t = id[n]
      /\ \A t \in Tid : status[t] = "READY" => status'[t] = "READY"
  BY <1>1 DEF IdsOf, a
<1>4. \A n \in Range(ready_q') : Registered(n)' /\ status'[id'[n]] = "READY"
  <2>1. \A n \in Range(ready_q) : n \in Node /\ id[n] \in Tid /\ nodes[id[n]] = n
                                   /\ status[id[n]] = "READY" /\ pc[n] # "free"
    BY ReadyNode DEF IInv, StatusMatchesQueues, ReadyMatches, Registered
  <2>2. QED
    BY <2>1, <1>1, <1>2, <1>3 DEF Registered
<1>5. \A t \in Tid : status'[t] = "READY" => nodes'[t] \in Range(ready_q')
  <2>1. SUFFICES ASSUME NEW t \in Tid, status'[t] = "READY"
                 PROVE  nodes[t] \in Range(ready_q) \/ nodes[t] \in Range(a)
    BY <1>2
  <2>2. CASE status[t] = "READY"
    BY <2>2 DEF IInv, StatusMatchesQueues, ReadyMatches
  <2>3. CASE \E n \in Range(a) : t = id[n]
    BY <2>3, <1>1
  <2>4. QED
    BY <2>1, <2>2, <2>3, <1>3
<1>6. QED
  BY <1>2, <1>4, <1>5 DEF ReadyMatches, a

(* Waking the first k threads of wait queue w, in thread_wakeup or in the   *)
(* thread_exit of a running thread.                                         *)
LEMMA WakeFrame ==
  ASSUME IInv, NEW w \in WaitQ, NEW k \in 0 .. Len(waitq[w]),
         ready_q' = ready_q \o Woken(w, k),
         waitq' = [waitq EXCEPT ![w] = SubSeq(@, k + 1, Len(@))],
         \A t \in IdsOf(Woken(w, k)) : status'[t] = "READY",
         \A t \in Tid \ IdsOf(Woken(w, k)) :
           status'[t] = status[t] \/ (status[t] = "RUNNING" /\ status'[t] = "EMPTY"),
         UNCHANGED <<nodes, id>>,
         \A n \in Node : pc[n] # "free" => pc'[n] # "free"
  PROVE  /\ ready_q' \in Seq(Node) /\ waitq' \in [WaitQ -> Seq(Node)]
         /\ Range(ready_q') = Range(ready_q) \cup Range(Woken(w, k))
         /\ ReadyMatches' /\ WaitingMatches'
<1> DEFINE a == Woken(w, k)
           b == SubSeq(waitq[w], k + 1, Len(waitq[w]))
<1>1. /\ a \in Seq(Node) /\ b \in Seq(Node) /\ Range(a) \cup Range(b) = Range(waitq[w])
      /\ IsInjective(b) /\ Range(a) \cap Range(b) = {}
      /\ \A n \in Range(a) : n \in Node /\ id[n] \in Tid /\ status[id[n]] = "WAITING"
                              /\ nodes[id[n]] = n /\ pc[n] # "free"
  BY WokenNodes
<1>2. waitq'[w] = b /\ (\A v \in WaitQ : v # w => waitq'[v] = waitq[v])
      /\ waitq' \in [WaitQ -> Seq(Node)]
  BY <1>1 DEF IInv, TypeOK
<1>3. /\ ready_q' \in Seq(Node) /\ Range(ready_q') = Range(ready_q) \cup Range(a)
      /\ ReadyMatches'
  <2>1. \A t \in Tid \ IdsOf(Woken(w, k)) : status'[t] = "READY" <=> status[t] = "READY"
    OBVIOUS
  <2>2. QED
    BY <2>1, WakeReady
<1> HIDE DEF a, b
<1>4. /\ \A n \in Range(a) : status'[id[n]] = "READY"
      /\ \A t \in Tid : status'[t] = "WAITING" => status[t] = "WAITING"
      /\ \A t \in Tid : (\A n \in Range(a) : t # id[n]) /\ status[t] = "WAITING" =>
           status'[t] = "WAITING"
  <2>1. \A n \in Range(a) : id[n] \in IdsOf(Woken(w, k))
    BY DEF IdsOf, a
  <2>2. \A t \in IdsOf(Woken(w, k)) : \E n \in Range(a) : t = id[n]
    BY DEF IdsOf, a
  <2>3. \A t \in Tid : t \in IdsOf(Woken(w, k)) => status[t] = "WAITING" /\ status'[t] = "READY"
    BY <2>2, <1>1
  <2>4. QED
    BY <2>1, <2>2, <2>3
<1>5. WaitingMatches'
  <2>1. \A v \in WaitQ : Range(waitq'[v]) \subseteq Range(waitq[v])
    BY <1>1, <1>2
  <2>2. \A v \in WaitQ : IsInjective(waitq'[v])
    BY <1>1, <1>2 DEF IInv, StatusMatchesQueues, WaitingMatches
  <2>3. \A u, v \in WaitQ : u # v => Range(waitq'[u]) \cap Range(waitq'[v]) = {}
    BY <2>1 DEF IInv, StatusMatchesQueues, WaitingMatches
  <2>4. \A v \in WaitQ : Range(waitq'[v]) \cap Range(a) = {}
    <3>1. \A v \in WaitQ : v # w => Range(waitq[v]) \cap Range(waitq[w]) = {}
      BY DEF IInv, StatusMatchesQueues, WaitingMatches
    <3>2. QED
      BY <3>1, <1>1, <1>2
  <2>5. ASSUME NEW v \in WaitQ, NEW n \in Range(waitq'[v])
        PROVE  Registered(n)' /\ status'[id'[n]] = "WAITING"
    <3>1. n \in Node /\ id[n] \in Tid /\ status[id[n]] = "WAITING" /\ nodes[id[n]] = n
      BY <2>1, <2>5, WaitingNode
    <3>2. pc[n] # "free"
      BY <2>1, <2>5 DEF IInv, StatusMatchesQueues, WaitingMatches, Registered
    <3>3. \A m \in Range(a) : id[n] # id[m]
      BY <3>1, <1>1, <2>4, <2>5
    <3>4. QED
      BY <3>1, <3>2, <3>3, <1>4 DEF Registered
  <2>6. ASSUME NEW t \in Tid, status'[t] = "WAITING"
        PROVE  \E v \in WaitQ : nodes'[t] \in Range(waitq'[v])
    <3>1. status[t] = "WAITING" /\ id[nodes[t]] = t
      BY <2>6, <1>4 DEF IInv, NodesOfLiveThreads
    <3>2. PICK v \in WaitQ : nodes[t] \in Range(waitq[v])
      BY <3>1 DEF IInv, StatusMatchesQueues, WaitingMatches
    <3>3. nodes[t] \notin Range(a)
      BY <3>1, <1>4, <2>6
    <3>4. nodes[t] \in Range(waitq'[v])
      BY <3>2, <3>3, <1>1, <1>2
    <3>5. QED
      BY <3>4
  <2>7. QED
    BY <2>2, <2>3, <2>5, <2>6 DEF WaitingMatches
<1>6. QED
  BY <1>2, <1>3, <1>5 DEF a

(* thread_wakeup, of one thread or of all.                                  *)
LEMMA WakeupFirstStep ==
  ASSUME IInv, InUser, NEW w \in WaitQ, NEW k \in 0 .. Len(waitq[w]), WakeupFirst(w, k),
         UNCHANGED <<nodes, exit_q, running_q, queues, id, pc, back, yield_count,
                     want, waitFor, halted>>
  PROVE  IInv'
<1>1. /\ InUser
      /\ UNCHANGED <<nodes, exit_q, running_q, queues, id, pc, back, yield_count, want, waitFor, halted>>
  OBVIOUS
<1>2. waitq[w] \in Seq(Node)
  BY DEF IInv, TypeOK
<1>3. /\ ready_q' = ready_q \o Woken(w, k)
      /\ waitq' = [waitq EXCEPT ![w] = SubSeq(@, k + 1, Len(@))]
      /\ status' = [t \in Tid |-> IF t \in IdsOf(Woken(w, k)) THEN "READY" ELSE status[t]]
  BY DEF WakeupFirst
<1>4. /\ \A n \in Range(Woken(w, k)) : n \in Node /\ id[n] \in Tid /\ status[id[n]] = "WAITING"
  <2>1. \A n \in Range(Woken(w, k)) : n \in Range(waitq[w])
    BY <1>2, CutQueue DEF Woken
  <2>2. QED
    BY <2>1, WaitingNode
<1>5. /\ \A t \in IdsOf(Woken(w, k)) : t \in Tid /\ status[t] = "WAITING" /\ status'[t] = "READY"
      /\ \A t \in Tid \ IdsOf(Woken(w, k)) : status'[t] = status[t]
  BY <1>3, <1>4 DEF IdsOf
<1>6. /\ ready_q' \in Seq(Node) /\ waitq' \in [WaitQ -> Seq(Node)]
      /\ ReadyMatches' /\ WaitingMatches'
  BY <1>1, <1>3, <1>5, WakeFrame
<1>7. ~Leaving /\ ~Leaving' /\ Me' = Me /\ ~halted
  BY <1>1 DEF InUser, Leaving, Me
<1>8. TypeOK'
  <2>1. status' \in [Tid -> Status]
    BY <1>3 DEF IInv, TypeOK
  <2>2. QED
    BY <2>1, <1>1, <1>6 DEF IInv, TypeOK
<1>9. StatusMatchesQueues'
  <2>1. Me \in Tid /\ status[Me] = "RUNNING" /\ Registered(running_q)
    BY <1>7, RunningThread DEF Registered, Me
  <2>2. \A t \in Tid : status'[t] = "RUNNING" <=> status[t] = "RUNNING"
    BY <1>5
  <2>3. RunningMatches'
    BY <2>1, <2>2, <1>1, <1>7 DEF IInv, StatusMatchesQueues, RunningMatches, Registered
  <2>4. QED
    BY <2>3, <1>6 DEF StatusMatchesQueues
<1>10. \A t \in Tid : status'[t] # "EMPTY" => status[t] # "EMPTY"
  BY <1>5
<1>11. NodesOfLiveThreads'
  BY <1>1, <1>10 DEF IInv, NodesOfLiveThreads
<1>12. ReapIsSafe'
  BY <1>1, <1>7 DEF IInv, ReapIsSafe
<1>13. SavedContexts'
  BY <1>1, <1>10 DEF IInv, SavedContexts
<1>14. WantedIsReady'
  BY <1>7 DEF WantedIsReady
<1>15. QED
  BY <1>8, <1>9, <1>11, <1>12, <1>13, <1>14 DEF IInv

LEMMA WakeupStep ==
  ASSUME IInv, NEW w \in WaitQ, Wakeup(w)
  PROVE  IInv'
<1>1. waitq[w] \in Seq(Node) /\ Len(waitq[w]) \in Nat
  BY LenProperties DEF IInv, TypeOK
<1>2. PICK k \in 0 .. Len(waitq[w]) : WakeupFirst(w, k)
  <2>1. waitq[w] # <<>> => 1 \in 0 .. Len(waitq[w])
    BY <1>1, RangeOfQueue
  <2>2. QED
    BY <1>1, <2>1 DEF Wakeup, WakeupOne, WakeupAll
<1>3. QED
  BY <1>2, WakeupFirstStep DEF Wakeup

(* thread_exit, of a client's thread or of a killed one.                    *)
LEMMA ExitStep ==
  ASSUME IInv, ~halted, pc[running_q] \in {"user", "exit"}, ThreadExit
  PROVE  IInv'
<1> DEFINE k == Len(waitq[Me])
           woken == Woken(Me, k)
           ready == ready_q \o woken
<1>1. /\ Me \in Tid /\ status[Me] = "RUNNING" /\ nodes[Me] = running_q /\ id[running_q] = Me
      /\ running_q \in Node /\ running_q \notin Range(exit_q) /\ pc[running_q] # "free"
      /\ \A t \in Tid : status[t] = "RUNNING" => t = Me
      /\ ~Leaving /\ Me \in WaitQ
  <2>1. ~Leaving
    BY DEF Leaving
  <2>2. QED
    BY <2>1, RunningThread DEF IInv, TypeOK, Me
<1>2. waitq[Me] \in Seq(Node) /\ k \in Nat /\ k \in 0 .. Len(waitq[Me])
  BY <1>1, LenProperties DEF IInv, TypeOK
<1>3. /\ ready_q' = ready
      /\ waitq' = [waitq EXCEPT ![Me] = <<>>]
      /\ status' = [t \in Tid |-> IF t = Me THEN "EMPTY"
                                  ELSE IF t \in IdsOf(woken) THEN "READY" ELSE status[t]]
      /\ exit_q' = Append(exit_q, running_q)
      /\ waitFor' = [n \in Node |-> IF n = running_q \/ waitFor[n] = Me THEN NULL ELSE waitFor[n]]
      /\ UNCHANGED <<nodes, running_q, queues, id>>
  BY DEF ThreadExit, StatusAfterExit, Enqueue
<1>4. /\ \/ ready = <<>> /\ halted' = TRUE /\ UNCHANGED <<pc, back, yield_count, want>>
         \/ /\ ready # <<>> /\ halted' = halted /\ want' = id[Head(ready)]
            /\ yield_count' = [yield_count EXCEPT ![running_q] = 0]
            /\ pc' = [pc EXCEPT ![running_q] = "getcontext"]
            /\ back' = [back EXCEPT ![running_q] = "zombie"]
  BY DEF ThreadExit, FlagReset
<1> HIDE DEF ready
<1>5. /\ \A n \in Node : pc[n] # "free" => pc'[n] # "free"
      /\ \A n \in Node : n # running_q =>
           pc'[n] = pc[n] /\ back'[n] = back[n] /\ yield_count'[n] = yield_count[n]
      /\ pc' \in [Node -> Label] /\ back' \in [Node -> Label] /\ yield_count' \in [Node -> {0, 1}]
  BY <1>4 DEF IInv, TypeOK
<1>6. Leaving' \/ halted'
  BY <1>1, <1>3, <1>4 DEF Leaving, IInv, TypeOK
<1>7. \A n \in Range(woken) : n \in Node /\ id[n] \in Tid /\ status[id[n]] = "WAITING"
  <2>1. \A n \in Range(woken) : n \in Range(waitq[Me])
    BY <1>2, CutQueue DEF Woken
  <2>2. QED
    BY <2>1, <1>1, WaitingNode
<1>8. /\ \A t \in IdsOf(woken) : t \in Tid /\ status[t] = "WAITING" /\ t # Me /\ status'[t] = "READY"
      /\ \A t \in Tid \ IdsOf(woken) : t # Me => status'[t] = status[t]
      /\ status'[Me] = "EMPTY" /\ Me \notin IdsOf(woken)
      /\ status' \in [Tid -> Status]
  <2>1. \A t \in IdsOf(woken) : t \in Tid /\ status[t] = "WAITING" /\ t # Me
    BY <1>1, <1>7 DEF IdsOf
  <2>2. QED
    BY <2>1, <1>1, <1>3 DEF IInv, TypeOK
<1>9. /\ ready_q' \in Seq(Node) /\ waitq' \in [WaitQ -> Seq(Node)]
      /\ Range(ready_q') = Range(ready_q) \cup Range(woken)
      /\ ReadyMatches' /\ WaitingMatches'
  <2>1. SubSeq(waitq[Me], k + 1, Len(waitq[Me])) = <<>>
    BY <1>2, SubSeqEmpty
  <2>2. waitq' = [waitq EXCEPT ![Me] = SubSeq(@, k + 1, Len(@))]
    BY <2>1, <1>3
  <2>3. \A t \in Tid \ IdsOf(woken) :
          status'[t] = status[t] \/ (status[t] = "RUNNING" /\ status'[t] = "EMPTY")
    BY <1>1, <1>8
  <2>4. ready_q' = ready_q \o Woken(Me, k)
    BY <1>3 DEF ready
  <2> HIDE DEF k
  <2>5. \A t \in IdsOf(Woken(Me, k)) : status'[t] = "READY"
    BY <1>8
  <2>6. QED
    BY <1>1, <1>2, <1>3, <1>5, <2>2, <2>3, <2>4, <2>5, WakeFrame
<1>10. /\ exit_q' \in Seq(Node) /\ IsInjective(exit_q')
       /\ Range(exit_q') = Range(exit_q) \cup {running_q} /\ Range(exit_q) \subseteq Node
  BY <1>1, <1>3, AppendQueue, RangeOfQueue DEF IInv, TypeOK, ReapIsSafe
<1>11. ~halted' => want' \in Tid /\ status'[want'] = "READY"
  <2>1. SUFFICES ASSUME ~halted' PROVE want' \in Tid /\ status'[want'] = "READY"
    OBVIOUS
  <2>2. ready # <<>> /\ want' = id[Head(ready)]
    BY <2>1, <1>4
  <2>3. Head(ready_q') \in Range(ready_q')
    BY <2>2, <1>3, <1>9, RangeOfQueue
  <2>4. Range(ready_q') \subseteq Node
    BY <1>9, RangeOfQueue
  <2>5. Head(ready_q') \in Node /\ status'[id[Head(ready_q')]] = "READY"
    BY <2>3, <2>4, <1>3, <1>9 DEF ReadyMatches
  <2>6. QED
    BY <2>2, <2>5, <1>3 DEF IInv, TypeOK
<1>12. TypeOK'
  <2>1. want' \in Tid \cup {NULL} /\ halted' \in BOOLEAN
    <3>1. halted' = TRUE \/ halted' = halted
      BY <1>4
    <3>2. want' = want \/ want' \in Tid
      BY <1>4, <1>11
    <3>3. QED
      BY <3>1, <3>2 DEF IInv, TypeOK
  <2>2. waitFor' \in [Node -> Tid \cup {NULL}]
    BY <1>3 DEF IInv, TypeOK
  <2>3. QED
    BY <2>1, <2>2, <1>3, <1>5, <1>8, <1>9, <1>10 DEF IInv, TypeOK
<1>13. StatusMatchesQueues'
  <2>1. \A t \in Tid : status'[t] # "RUNNING"
    BY <1>1, <1>8
  <2>2. RunningMatches'
    BY <2>1, <1>6 DEF RunningMatches
  <2>3. QED
    BY <2>2, <1>9 DEF StatusMatchesQueues
<1>14. \A t \in Tid : status'[t] # "EMPTY" =>
         status[t] # "EMPTY" /\ t # Me /\ nodes[t] \in Node /\ nodes[t] # running_q
  BY <1>1, <1>8 DEF IInv, NodesOfLiveThreads
<1>15. NodesOfLiveThreads'
  BY <1>3, <1>5, <1>10, <1>14 DEF IInv, NodesOfLiveThreads
<1>16. ReapIsSafe'
  BY <1>1, <1>3, <1>5, <1>6, <1>10 DEF IInv, ReapIsSafe
<1>17. SavedContexts'
  <2>1. \A t \in Tid : status'[t] # "EMPTY" => back'[nodes'[t]] \in InPackageOrClient
    BY <1>3, <1>5, <1>14 DEF IInv, SavedContexts
  <2>2. pc'[running_q] = "getcontext" \/ UNCHANGED <<pc, yield_count>>
    BY <1>1, <1>4 DEF IInv, TypeOK
  <2>3. QED
    BY <2>1, <2>2, <1>3, <1>5 DEF IInv, SavedContexts
<1>18. WantedIsReady'
  BY <1>11 DEF WantedIsReady
<1>19. QED
  BY <1>12, <1>13, <1>15, <1>16, <1>17, <1>18 DEF IInv

(* thread_kill redirects a saved context; the thread stays where it is.     *)
LEMMA KillStep ==
  ASSUME IInv, NEW t \in Tid, Kill(t)
  PROVE  IInv'
<1>1. /\ InUser /\ t # Me /\ status[t] # "EMPTY"
      /\ pc' = [pc EXCEPT ![nodes[t]] = "exit"]
      /\ UNCHANGED <<status, nodes, ready_q, exit_q, running_q, waitq, queues, id,
                     back, yield_count, want, waitFor, halted>>
  BY DEF Kill
<1>2. /\ nodes[t] \in Node /\ id[nodes[t]] = t /\ nodes[t] # running_q
      /\ pc'[nodes[t]] = "exit" /\ pc' \in [Node -> Label]
      /\ \A n \in Node : n # nodes[t] => pc'[n] = pc[n]
  BY <1>1 DEF IInv, TypeOK, NodesOfLiveThreads, Me
<1>3. ~Leaving /\ ~Leaving' /\ Me' = Me /\ ~halted /\ running_q \in Node /\ pc'[running_q] = pc[running_q]
  BY <1>1, <1>2 DEF InUser, Leaving, Me, IInv, TypeOK
<1>4. TypeOK'
  BY <1>1, <1>2 DEF IInv, TypeOK
<1>5. StatusMatchesQueues'
  <2>1. ReadyMatches' /\ WaitingMatches'
    BY <1>1, <1>2, LabelFrame
  <2>2. RunningMatches'
    BY <1>1, <1>2, <1>3 DEF IInv, StatusMatchesQueues, RunningMatches, Registered
  <2>3. QED
    BY <2>1, <2>2 DEF StatusMatchesQueues
<1>6. NodesOfLiveThreads'
  BY <1>1, <1>2 DEF IInv, NodesOfLiveThreads
<1>7. ReapIsSafe'
  <2>1. Range(exit_q) \subseteq Node
    BY RangeOfQueue DEF IInv, TypeOK
  <2>2. QED
    BY <2>1, <1>1, <1>2, <1>3 DEF IInv, ReapIsSafe
<1>8. SavedContexts'
  BY <1>1, <1>2 DEF IInv, SavedContexts
<1>9. WantedIsReady'
  BY <1>3 DEF WantedIsReady
<1>10. QED
  BY <1>4, <1>5, <1>6, <1>7, <1>8, <1>9 DEF IInv
LEMMA WaitStep ==
  ASSUME IInv, NEW t \in Tid, Wait(t)
  PROVE  IInv'
<1>1. InUser /\ waitFor' = [waitFor EXCEPT ![running_q] = t]
  BY DEF Wait
<1>2. waitFor' \in [Node -> Tid \cup {NULL}]
  BY <1>1 DEF IInv, TypeOK
<1>3. CASE SleepOn(t, "waited")
  BY <1>1, <1>2, <1>3, SleepStep DEF InUser
<1>4. CASE /\ pc' = [pc EXCEPT ![running_q] = "waited"]
           /\ UNCHANGED <<status, nodes, ready_q, exit_q, running_q, waitq, queues,
                          id, back, yield_count, want, halted>>
  BY <1>1, <1>2, <1>4, MoveOnStep DEF InUser
<1>5. QED
  BY <1>3, <1>4 DEF Wait

(* Steps that change nothing the invariant speaks of but queues.            *)
LEMMA UnchangedStep ==
  ASSUME IInv, queues' \in SUBSET UserQ,
         UNCHANGED <<status, nodes, ready_q, exit_q, running_q, waitq, id, pc, back,
                     yield_count, want, waitFor, halted>>
  PROVE  IInv'
<1> USE DEF IInv
<1>1. TypeOK'
  BY DEF TypeOK
<1>2. StatusMatchesQueues'
  BY DEF StatusMatchesQueues, ReadyMatches, WaitingMatches, RunningMatches, Registered, Leaving, Me
<1>3. NodesOfLiveThreads'
  BY DEF NodesOfLiveThreads
<1>4. ReapIsSafe'
  BY DEF ReapIsSafe, Leaving
<1>5. SavedContexts'
  BY DEF SavedContexts
<1>6. WantedIsReady'
  BY DEF WantedIsReady, Leaving
<1>7. QED
  BY <1>1, <1>2, <1>3, <1>4, <1>5, <1>6

(* wait_queue_destroy of a queue in which nobody waits frees no node.       *)
LEMMA DestroyEmpty ==
  ASSUME IInv, NEW w \in UserQ, waitq[w] = <<>>, WaitQueueDestroy(w)
  PROVE  /\ queues' = queues \ {w}
         /\ UNCHANGED <<status, nodes, ready_q, exit_q, running_q, waitq, id, pc, back,
                        yield_count, want, waitFor, halted>>
<1>1. Range(waitq[w]) = {} /\ w \in WaitQ
  BY EmptyQueue
<1>2. /\ waitq' = [waitq EXCEPT ![w] = <<>>]
      /\ pc' = [n \in Node |-> pc[n]] /\ yield_count' = [n \in Node |-> yield_count[n]]
      /\ back' = [n \in Node |-> back[n]] /\ id' = [n \in Node |-> id[n]]
      /\ queues' = queues \ {w}
      /\ UNCHANGED <<status, nodes, ready_q, exit_q, running_q, want, waitFor, halted>>
  BY <1>1 DEF WaitQueueDestroy, Freed
<1>3. UNCHANGED <<waitq, pc, yield_count, back, id>>
  BY <1>1, <1>2 DEF IInv, TypeOK
<1>4. QED
  BY <1>2, <1>3

LEMMA WaitQueueDestroyStep ==
  ASSUME IInv, NEW w \in UserQ, waitq[w] = <<>>, WaitQueueDestroy(w)
  PROVE  IInv'
<1>1. queues' \in SUBSET UserQ
  BY DestroyEmpty DEF IInv, TypeOK
<1>2. QED
  BY <1>1, DestroyEmpty, UnchangedStep

-----------------------------------------------------------------------------
LEMMA NextIInv == IInv /\ [Next]_vars => IInv'
<1> SUFFICES ASSUME IInv, [Next]_vars PROVE IInv'
  OBVIOUS
<1>1. CASE Start \/ WaitReturn
  BY <1>1, StartStep
<1>2. CASE Create
  BY <1>2, CreateStep
<1>3. CASE YieldAny \/ TimerInterrupt
  BY <1>3, ReadyHead, YieldStep DEF YieldAny, TimerInterrupt
<1>4. CASE Switch
  BY <1>4, SwitchStep
<1>5. CASE Resume
  BY <1>5, ResumeStep
<1>6. CASE Exit \/ KilledExit
  BY <1>6, ExitStep DEF Exit, KilledExit, InUser
<1>7. ASSUME NEW t \in Tid, YieldTo(t) PROVE IInv'
  BY <1>7, YieldStep DEF YieldTo
<1>8. ASSUME NEW t \in Tid, Wait(t) PROVE IInv'
  BY <1>8, WaitStep
<1>9. ASSUME NEW t \in Tid, Kill(t) PROVE IInv'
  BY <1>9, KillStep
<1>10. ASSUME NEW w \in UserQ, WaitQueueCreate(w) PROVE IInv'
  <2>1. queues' \in SUBSET UserQ
    BY <1>10 DEF WaitQueueCreate, IInv, TypeOK
  <2>2. QED
    BY <2>1, <1>10, UnchangedStep DEF WaitQueueCreate
<1>11. ASSUME NEW w \in UserQ, Sleep(w) PROVE IInv'
  <2>1. waitFor' \in [Node -> Tid \cup {NULL}]
    BY <1>11 DEF Sleep, IInv, TypeOK
  <2>2. QED
    BY <2>1, <1>11, SleepStep DEF Sleep, InUser
<1>12. ASSUME NEW w \in UserQ, Wakeup(w) PROVE IInv'
  BY <1>12, WakeupStep
<1>13. ASSUME NEW w \in UserQ, waitq[w] = <<>>, WaitQueueDestroy(w) PROVE IInv'
  BY <1>13, WaitQueueDestroyStep
<1>14. CASE UNCHANGED vars
  <2>1. queues' \in SUBSET UserQ
    BY <1>14 DEF vars, IInv, TypeOK
  <2>2. QED
    BY <2>1, <1>14, UnchangedStep DEF vars
<1>15. QED
  BY <1>1, <1>2, <1>3, <1>4, <1>5, <1>6, <1>7, <1>8, <1>9, <1>10, <1>11, <1>12, <1>13, <1>14
     DEF Next, Halted

(* IInv holds in every reachable state.                                     *)
THEOREM Invariance == Spec => []IInv
<1>1. QED
  BY InitIInv, NextIInv, PTL DEF Spec

(* Every state of the package is well typed: in particular the switch       *)
(* always hands the processor to a node of the ready queue.                 *)
THEOREM TypeCorrect == Spec => []TypeOK
<1>1. IInv => TypeOK
  BY DEF IInv
<1>2. QED
  BY <1>1, Invariance, PTL

(* The status table and the queues always agree: no thread is queued twice, *)
(* lost, or run while it is queued.                                         *)
THEOREM QueuesAgree == Spec => []StatusMatchesQueues
<1>1. IInv => StatusMatchesQueues
  BY DEF IInv
<1>2. QED
  BY <1>1, Invariance, PTL

(* Both: no variable contradicts another.                                   *)
THEOREM AlwaysConsistent == Spec => []Consistent
<1>1. TypeOK /\ StatusMatchesQueues => Consistent
  BY DEF Consistent
<1>2. QED
  BY <1>1, TypeCorrect, QueuesAgree, PTL

(* nodes[tid] of a live thread is its allocated node, and deleteAll(exit_q) *)
(* never frees a live thread's node, a queued one or the running stack.     *)
THEOREM NoDanglingNode == Spec => [](NodesOfLiveThreads /\ ReapIsSafe)
<1>1. IInv => NodesOfLiveThreads /\ ReapIsSafe
  BY DEF IInv
<1>2. QED
  BY <1>1, Invariance, PTL

(* yield_count tells the two returns of getcontext apart in every state,    *)
(* and the thread a yield chose can still be found when it switches.        *)
THEOREM ContextsResumeOnce == Spec => [](SavedContexts /\ WantedIsReady)
<1>1. IInv => SavedContexts /\ WantedIsReady
  BY DEF IInv
<1>2. QED
  BY <1>1, Invariance, PTL
-----------------------------------------------------------------------------
(* thread_wait.  A thread that waits for another is in its target's queue,  *)
(* or has just been refused by thread_sleep and goes on.                    *)
WaitersAreQueued ==
  \A n \in Node : waitFor[n] # NULL =>
    n \in Range(waitq[waitFor[n]]) \/ (n = running_q /\ pc[n] = "waited")

WaitersInv == WaitersAwaitLiveThreads /\ WaitersAreQueued

(* What WaitersInv makes of the running thread and of a wait queue's nodes. *)
LEMMA RunningDoesNotWait ==
  ASSUME IInv, WaitersInv, ~halted, ~Leaving, pc[running_q] # "waited"
  PROVE  waitFor[running_q] = NULL
BY RunningThread DEF IInv, TypeOK, WaitersInv, WaitersAreQueued

LEMMA SleeperDoesNotWait ==
  ASSUME IInv, WaitersInv, NEW w \in UserQ, NEW n \in Range(waitq[w]), ~halted, ~Leaving
  PROVE  waitFor[n] = NULL
<1>1. n \in Node /\ n # running_q /\ w \in WaitQ /\ w \notin Tid
  <2>1. w \in WaitQ /\ w \notin Tid
    BY ThreadsAssumption
  <2>2. QED
    BY <2>1, WaitingNode, RunningThread
<1>2. \A t \in Tid : n \notin Range(waitq[t])
  BY <1>1 DEF IInv, StatusMatchesQueues, WaitingMatches
<1>3. QED
  BY <1>1, <1>2 DEF IInv, TypeOK, WaitersInv, WaitersAreQueued

(* A step that leaves the queues of waiting threads alone, and ready_q but  *)
(* for nodes of threads that wait for nobody.                               *)
LEMMA WaitersFrame ==
  ASSUME IInv, WaitersInv,
         \A t \in Tid : waitq'[t] = waitq[t] /\ (status[t] # "EMPTY" => status'[t] # "EMPTY"),
         \A t \in Tid : \A n \in Range(waitq[t]) : id'[n] = id[n],
         \A n \in Range(ready_q') : waitFor'[n] = NULL,
         \A n \in Node : waitFor'[n] = waitFor[n]
                         \/ (waitFor'[n] = NULL /\ \A t \in Tid : n \notin Range(waitq[t])),
         \A n \in Node : waitFor'[n] # NULL /\ n = running_q /\ pc[n] = "waited" =>
                           n = running_q' /\ pc'[n] = "waited"
  PROVE  WaitersInv'
<1>1. \A t \in Tid : \A n \in Range(waitq[t]) : n \in Node /\ waitFor'[n] = waitFor[n]
  BY WaitingNode
<1>2. WaitersAwaitLiveThreads'
  BY <1>1 DEF WaitersInv, WaitersAwaitLiveThreads
<1>3. WaitersAreQueued'
  <2>1. SUFFICES ASSUME NEW n \in Node, waitFor'[n] # NULL
                 PROVE  n \in Range(waitq'[waitFor'[n]]) \/ (n = running_q' /\ pc'[n] = "waited")
    BY DEF WaitersAreQueued
  <2>2. waitFor'[n] = waitFor[n] /\ waitFor[n] \in Tid
    BY <2>1 DEF IInv, TypeOK
  <2>3. QED
    BY <2>1, <2>2 DEF WaitersInv, WaitersAreQueued
<1>4. QED
  BY <1>2, <1>3 DEF WaitersInv

LEMMA InitWaiters == Init => WaitersInv
<1> SUFFICES ASSUME Init PROVE WaitersInv
  OBVIOUS
<1>1. Range(<<>>) = {}
  BY EmptyQueue
<1>2. QED
  BY <1>1 DEF Init, WaitersInv, WaitersAwaitLiveThreads, WaitersAreQueued

(* thread_wait puts the caller in the queue of a thread that is not EMPTY.  *)
LEMMA WaitWaiters ==
  ASSUME IInv, WaitersInv, NEW t \in Tid, Wait(t)
  PROVE  WaitersInv'
<1>1. /\ InUser /\ ~halted /\ ~Leaving /\ pc[running_q] = "user" /\ t # Me /\ status[t] # "EMPTY"
      /\ waitFor' = [waitFor EXCEPT ![running_q] = t]
      /\ UNCHANGED <<ready_q, running_q, id>>
  BY DEF Wait, Waitable, InUser, Leaving, SleepOn
<1>2. /\ running_q \in Node /\ Me \in Tid /\ id[running_q] = Me
      /\ running_q \notin Range(ready_q)
      /\ \A w \in WaitQ : running_q \notin Range(waitq[w])
  BY <1>1, RunningThread DEF IInv, TypeOK, Me
<1>3. /\ waitFor'[running_q] = t /\ \A n \in Node : n # running_q => waitFor'[n] = waitFor[n]
      /\ waitq \in [WaitQ -> Seq(Node)] /\ pc \in [Node -> Label] /\ status \in [Tid -> Status]
  BY <1>1, <1>2 DEF IInv, TypeOK
<1>4. \A n \in Range(ready_q') : waitFor'[n] = NULL
  BY <1>1, <1>2, <1>3, ReadyNode DEF WaitersInv, WaitersAwaitLiveThreads
<1>5. /\ \A u \in Tid : u # t => waitq'[u] = waitq[u]
      /\ \A u \in Tid : status[u] # "EMPTY" => status'[u] # "EMPTY"
      /\ \/ waitq'[t] = waitq[t] /\ pc'[running_q] = "waited"
         \/ Range(waitq'[t]) = Range(waitq[t]) \cup {running_q}
  <2>1. CASE SleepOn(t, "waited")
    <3>1. waitq' = [waitq EXCEPT ![t] = Append(@, running_q)]
          /\ status' = [status EXCEPT ![Me] = "WAITING"]
      BY <2>1 DEF SleepOn, Enqueue
    <3>2. Range(Append(waitq[t], running_q)) = Range(waitq[t]) \cup {running_q}
      BY <1>2, <1>3, AppendQueue
    <3>3. QED
      BY <3>1, <3>2, <1>2, <1>3
  <2>2. CASE ~SleepOn(t, "waited")
    BY <2>2, <1>2, <1>3 DEF Wait
  <2>3. QED
    BY <2>1, <2>2
<1>6. \A u \in Tid : \A n \in Range(waitq[u]) : n \in Node /\ n # running_q /\ waitFor[n] = u
                                               /\ status[u] # "EMPTY" /\ id[n] # u
  BY <1>2, WaitingNode DEF WaitersInv, WaitersAwaitLiveThreads
<1>7. WaitersAwaitLiveThreads'
  <2>1. SUFFICES ASSUME NEW u \in Tid, NEW n \in Range(waitq'[u])
                 PROVE  waitFor'[n] = u /\ status'[u] # "EMPTY" /\ id'[n] # u
    BY <1>4 DEF WaitersAwaitLiveThreads
  <2>2. CASE n \in Range(waitq[u])
    BY <2>2, <1>1, <1>3, <1>5, <1>6
  <2>3. CASE n \notin Range(waitq[u])
    <3>1. u = t /\ n = running_q
      BY <2>1, <2>3, <1>5
    <3>2. QED
      BY <3>1, <1>1, <1>2, <1>3, <1>5
  <2>4. QED
    BY <2>2, <2>3
<1>8. WaitersAreQueued'
  <2>1. SUFFICES ASSUME NEW n \in Node, waitFor'[n] # NULL
                 PROVE  n \in Range(waitq'[waitFor'[n]]) \/ (n = running_q /\ pc'[n] = "waited")
    BY <1>1 DEF WaitersAreQueued
  <2>2. CASE n = running_q
    BY <2>2, <1>3, <1>5
  <2>3. CASE n # running_q
    <3>1. waitFor'[n] = waitFor[n] /\ waitFor[n] \in Tid
      BY <2>1, <2>3, <1>3 DEF IInv, TypeOK
    <3>2. n \in Range(waitq[waitFor[n]])
      BY <2>1, <2>3, <3>1 DEF WaitersInv, WaitersAreQueued
    <3>3. QED
      BY <3>1, <3>2, <1>5
  <2>4. QED
    BY <2>2, <2>3
<1>9. QED
  BY <1>7, <1>8 DEF WaitersInv

(* thread_exit makes ready exactly those who wait for the thread that exits. *)
LEMMA ExitWaiters ==
  ASSUME IInv, WaitersInv, ~halted, pc[running_q] \in {"user", "exit"}, ThreadExit
  PROVE  WaitersInv'
<1> DEFINE woken == Woken(Me, Len(waitq[Me]))
<1>1. /\ ready_q' = ready_q \o woken
      /\ waitq' = [waitq EXCEPT ![Me] = <<>>]
      /\ \A t \in Tid : t # Me => status'[t] = "READY" \/ status'[t] = status[t]
      /\ waitFor' = [n \in Node |-> IF n = running_q \/ waitFor[n] = Me THEN NULL ELSE waitFor[n]]
      /\ UNCHANGED <<running_q, id>>
  BY DEF ThreadExit, StatusAfterExit
<1>2. ~Leaving /\ Me \in Tid /\ running_q \in Node /\ \A w \in WaitQ : running_q \notin Range(waitq[w])
  <2>1. ~Leaving
    BY DEF Leaving
  <2>2. QED
    BY <2>1, RunningThread DEF IInv, TypeOK
<1>3. /\ waitq[Me] \in Seq(Node) /\ waitq \in [WaitQ -> Seq(Node)]
      /\ waitq'[Me] = <<>> /\ Range(waitq'[Me]) = {}
      /\ \A u \in Tid : u # Me => waitq'[u] = waitq[u]
  BY <1>1, <1>2, EmptyQueue DEF IInv, TypeOK
<1>4. \A n \in Range(ready_q') : waitFor'[n] = NULL
  <2>1. Range(woken) \subseteq Range(waitq[Me])
    <3>1. Len(waitq[Me]) \in 0 .. Len(waitq[Me])
      BY <1>3, LenProperties
    <3>2. QED
      BY <1>3, <3>1, CutQueue DEF Woken
  <2>2. woken \in Seq(Node) /\ ready_q \in Seq(Node)
    <3>1. Len(waitq[Me]) \in 0 .. Len(waitq[Me])
      BY <1>3, LenProperties
    <3>2. QED
      BY <1>3, <3>1, CutQueue DEF Woken, IInv, TypeOK
  <2> HIDE DEF woken
  <2>3. Range(ready_q') = Range(ready_q) \cup Range(woken)
    BY <2>2, <1>1, ConcatQueue
  <2>4. \A n \in Range(ready_q) : n \in Node /\ waitFor[n] = NULL
    BY ReadyNode DEF WaitersInv, WaitersAwaitLiveThreads
  <2>5. \A n \in Range(waitq[Me]) : n \in Node /\ waitFor[n] = Me
    BY <1>2, WaitingNode DEF WaitersInv, WaitersAwaitLiveThreads
  <2>6. QED
    BY <2>1, <2>3, <2>4, <2>5, <1>1
<1> HIDE DEF woken
<1>5. \A u \in Tid : \A n \in Range(waitq[u]) : n \in Node /\ n # running_q /\ waitFor[n] = u
                                               /\ status[u] # "EMPTY" /\ id[n] # u
  BY <1>2, WaitingNode DEF WaitersInv, WaitersAwaitLiveThreads
<1>6. WaitersAwaitLiveThreads'
  <2>1. SUFFICES ASSUME NEW u \in Tid, u # Me, NEW n \in Range(waitq[u])
                 PROVE  waitFor'[n] = u /\ status'[u] # "EMPTY" /\ id'[n] # u
    BY <1>3, <1>4 DEF WaitersAwaitLiveThreads
  <2>2. QED
    BY <2>1, <1>1, <1>5
<1>7. WaitersAreQueued'
  <2>1. SUFFICES ASSUME NEW n \in Node, waitFor'[n] # NULL
                 PROVE  n \in Range(waitq'[waitFor'[n]])
    BY <1>1 DEF WaitersAreQueued
  <2>2. n # running_q /\ waitFor'[n] = waitFor[n] /\ waitFor[n] \in Tid /\ waitFor[n] # Me
    BY <2>1, <1>1 DEF IInv, TypeOK
  <2>3. n \in Range(waitq[waitFor[n]])
    BY <2>1, <2>2 DEF WaitersInv, WaitersAreQueued
  <2>4. QED
    BY <2>2, <2>3, <1>3
<1>8. QED
  BY <1>6, <1>7 DEF WaitersInv

(* thread_wakeup on a client's queue wakes no thread that thread_wait put   *)
(* to sleep.                                                                *)
LEMMA WakeWaiters ==
  ASSUME IInv, WaitersInv, NEW w \in UserQ, Wakeup(w)
  PROVE  WaitersInv'
<1>1. /\ waitq \in [WaitQ -> Seq(Node)] /\ status \in [Tid -> Status]
      /\ ready_q \in Seq(Node) /\ w \in WaitQ /\ w \notin Tid
      /\ waitq[w] \in Seq(Node) /\ Len(waitq[w]) \in Nat
  <2>1. w \in WaitQ /\ w \notin Tid
    BY ThreadsAssumption DEF WaitQ
  <2>2. QED
    BY <2>1, LenProperties DEF IInv, TypeOK
<1>2. PICK k \in 0 .. Len(waitq[w]) : WakeupFirst(w, k)
  <2>1. waitq[w] # <<>> => 1 \in 0 .. Len(waitq[w])
    BY <1>1, RangeOfQueue
  <2>2. QED
    BY <1>1, <2>1 DEF Wakeup, WakeupOne, WakeupAll
<1>3. /\ UNCHANGED <<id, pc, running_q, waitFor>> /\ ~halted /\ ~Leaving
      /\ pc[running_q] # "waited"
  BY DEF Wakeup, InUser, Leaving
<1> DEFINE a == Woken(w, k)
<1>4. /\ ready_q' = ready_q \o a
      /\ \A t \in Tid : status'[t] = "READY" \/ status'[t] = status[t]
      /\ \A t \in Tid : waitq'[t] = waitq[t]
  BY <1>1, <1>2 DEF WakeupFirst
<1>5. a \in Seq(Node) /\ Range(a) \subseteq Range(waitq[w])
  BY <1>1, CutQueue DEF Woken
<1> HIDE DEF a
<1>6. \A n \in Range(ready_q') : waitFor'[n] = NULL
  <2>1. Range(ready_q') = Range(ready_q) \cup Range(a)
    BY <1>1, <1>4, <1>5, ConcatQueue
  <2>2. \A n \in Range(a) : waitFor[n] = NULL
    BY <1>3, <1>5, SleeperDoesNotWait
  <2>3. QED
    BY <2>1, <2>2, <1>3 DEF WaitersInv, WaitersAwaitLiveThreads
<1>7. QED
  BY <1>3, <1>4, <1>6, WaitersFrame

LEMMA NextWaiters == IInv /\ WaitersInv /\ [Next]_vars => WaitersInv'
<1> SUFFICES ASSUME IInv, WaitersInv, [Next]_vars PROVE WaitersInv'
  OBVIOUS
<1>1. /\ waitq \in [WaitQ -> Seq(Node)] /\ status \in [Tid -> Status] /\ pc \in [Node -> Label]
      /\ id \in [Node -> Tid] /\ waitFor \in [Node -> Tid \cup {NULL}] /\ running_q \in Node
      /\ ready_q \in Seq(Node)
  BY DEF IInv, TypeOK
<1>2. /\ \A n \in Range(ready_q) : n \in Node /\ waitFor[n] = NULL
      /\ \A t \in Tid : \A n \in Range(waitq[t]) : n \in Node /\ pc[n] # "free" /\ n \notin Range(exit_q)
  <2>1. \A t \in Tid : \A n \in Range(waitq[t]) : n \in Node /\ pc[n] # "free"
                        /\ nodes[id[n]] = n /\ id[n] \in Tid /\ status[id[n]] = "WAITING"
    BY WaitingNode
  <2>2. \A t \in Tid : \A n \in Range(waitq[t]) : n \notin Range(exit_q)
    BY <2>1 DEF IInv, NodesOfLiveThreads
  <2>3. QED
    BY <2>1, <2>2, ReadyNode DEF WaitersInv, WaitersAwaitLiveThreads
<1>3. CASE Start \/ \E t \in Tid : Kill(t)
  <2>1. UNCHANGED <<waitq, status, id, waitFor, ready_q, running_q>> /\ pc[running_q] # "waited"
    BY <1>3 DEF Start, Kill, InUser
  <2>2. QED
    BY <2>1, <1>2, WaitersFrame
<1>4. CASE WaitReturn
  <2>1. UNCHANGED <<waitq, status, id, ready_q, running_q>>
        /\ waitFor' = [waitFor EXCEPT ![running_q] = NULL]
    BY <1>4 DEF WaitReturn
  <2>2. \A w \in WaitQ : running_q \notin Range(waitq[w])
    <3>1. ~halted /\ ~Leaving
      BY <1>4 DEF WaitReturn, Leaving
    <3>2. QED
      BY <3>1, RunningThread
  <2>3. QED
    BY <2>1, <2>2, <1>1, <1>2, WaitersFrame
<1>5. CASE Create
  <2>1. PICK t \in Tid, m \in Node :
          /\ pc[m] = "free" /\ id' = [id EXCEPT ![m] = t]
          /\ status' = [status EXCEPT ![t] = "READY"]
          /\ ready_q' = Append(ready_q, m)
          /\ waitFor' = [waitFor EXCEPT ![m] = NULL]
          /\ UNCHANGED <<running_q, waitq>> /\ pc[running_q] = "user"
    BY <1>5 DEF Create, Enqueue, InUser
  <2>2. Range(ready_q') = Range(ready_q) \cup {m}
    BY <2>1, <1>1, AppendQueue
  <2>3. \A n \in Range(ready_q') : waitFor'[n] = NULL
    BY <2>1, <2>2, <1>1, <1>2
  <2>4. \A t1 \in Tid : m \notin Range(waitq[t1])
    BY <2>1, <1>2
  <2>5. QED
    BY <2>1, <2>3, <2>4, <1>1, <1>2, WaitersFrame
<1>6. ASSUME NEW t \in Tid, InUser, Yield(t) PROVE WaitersInv'
  <2>1. /\ ready_q' = Append(ready_q, running_q) /\ UNCHANGED <<waitq, id, waitFor, running_q>>
        /\ status' = [status EXCEPT ![Me] = "READY"] /\ pc[running_q] # "waited"
        /\ ~halted /\ ~Leaving
    BY <1>6 DEF Yield, Enqueue, InUser, Leaving
  <2>2. Range(ready_q') = Range(ready_q) \cup {running_q} /\ waitFor[running_q] = NULL
    BY <2>1, <1>1, AppendQueue, RunningDoesNotWait
  <2>3. QED
    BY <2>1, <2>2, <1>1, <1>2, WaitersFrame
<1>7. CASE Switch
  <2>1. /\ ready_q' = RemoveAt(ready_q, PositionOf(ready_q, want)) /\ UNCHANGED <<waitq, id, waitFor>>
        /\ status' = [status EXCEPT ![want] = "RUNNING"] /\ pc[running_q] # "waited"
    BY <1>7 DEF Switch
  <2>2. Range(ready_q') \subseteq Range(ready_q) /\ want \in Tid
    <3>1. Leaving /\ ~halted
      BY <1>7 DEF Switch, Leaving
    <3>2. QED
      BY <3>1, <2>1, WantedIsFound, RemoveQueue
         DEF IInv, TypeOK, StatusMatchesQueues, ReadyMatches
  <2>3. QED
    BY <2>1, <2>2, <1>1, <1>2, WaitersFrame
<1>8. CASE Resume
  <2>1. UNCHANGED <<waitq, status, waitFor, ready_q, running_q>> /\ pc[running_q] # "waited"
    BY <1>8 DEF Resume
  <2>2. \A n \in Node \ Range(exit_q) : id'[n] = id[n]
    BY <1>1, <1>8 DEF Resume, Freed
  <2>3. QED
    BY <2>1, <2>2, <1>2, WaitersFrame
<1>9. CASE Exit \/ KilledExit
  BY <1>9, ExitWaiters DEF Exit, KilledExit, InUser
<1>10. ASSUME NEW t \in Tid, Wait(t) PROVE WaitersInv'
  BY <1>10, WaitWaiters
<1>11. ASSUME NEW w \in UserQ, WaitQueueCreate(w) \/ (waitq[w] = <<>> /\ WaitQueueDestroy(w))
       PROVE  WaitersInv'
  <2>1. UNCHANGED <<waitq, status, id, waitFor, ready_q, running_q, pc>>
    BY <1>11, DestroyEmpty DEF WaitQueueCreate
  <2>2. QED
    BY <2>1, <1>2, WaitersFrame
<1>12. ASSUME NEW w \in UserQ, Sleep(w) PROVE WaitersInv'
  <2>1. /\ waitq' = [waitq EXCEPT ![w] = Append(@, running_q)]
        /\ status' = [status EXCEPT ![Me] = "WAITING"] /\ pc[running_q] # "waited"
        /\ UNCHANGED <<id, waitFor, ready_q, running_q>>
    BY <1>12 DEF Sleep, SleepOn, Enqueue, InUser
  <2>2. \A t \in Tid : t # w
    BY ThreadsAssumption
  <2>3. QED
    BY <2>1, <2>2, <1>1, <1>2, WaitersFrame
<1>13. ASSUME NEW w \in UserQ, Wakeup(w) PROVE WaitersInv'
  BY <1>13, WakeWaiters
<1>14. CASE UNCHANGED vars
  BY <1>14, <1>2, WaitersFrame DEF vars
<1>15. QED
  BY <1>3, <1>4, <1>5, <1>6, <1>7, <1>8, <1>9, <1>10, <1>11, <1>12, <1>13, <1>14, ReadyHead
     DEF Next, Halted, YieldAny, TimerInterrupt, YieldTo

(* Whoever sleeps in thread_wait sleeps on a thread that has not exited:    *)
(* nothing but that thread's exit makes it ready, and the exit of a thread  *)
(* leaves nobody waiting for it, whatever is killed, woken or created       *)
(* meanwhile.                                                               *)
THEOREM NobodyWaitsForTheGone == Spec => []WaitersAwaitLiveThreads
<1>1. WaitersInv => WaitersAwaitLiveThreads
  BY DEF WaitersInv
<1>2. QED
  BY <1>1, InitWaiters, NextWaiters, Invariance, PTL DEF Spec

(* Nothing that names a thread outlives it, although identifiers and nodes  *)
(* are reused.                                                              *)
THEOREM NamesOfTheLiving == Spec => []NothingStale
<1>1. NodesOfLiveThreads /\ WaitersAwaitLiveThreads => NothingStale
  BY DEF NothingStale
<1>2. QED
  BY <1>1, NoDanglingNode, NobodyWaitsForTheGone, PTL
-----------------------------------------------------------------------------
(* First come, first served.  The step WakeupInOrder asks for.              *)
WokenInOrder ==
  \A w \in WaitQ : \A i, j \in DOMAIN waitq[w] :
    i < j /\ waitq[w][j] \notin Range(waitq'[w])
      => /\ waitq[w][i] \notin Range(waitq'[w])
         /\ Before(ready_q', waitq[w][i], waitq[w][j])

(* A step that takes nobody out of a wait queue.                            *)
LEMMA NobodyWoken ==
  ASSUME IInv, \A w \in WaitQ : waitq'[w] = waitq[w] \/ waitq'[w] = Append(waitq[w], running_q)
  PROVE  WokenInOrder
<1>1. SUFFICES ASSUME NEW w \in WaitQ, NEW j \in DOMAIN waitq[w]
               PROVE  waitq[w][j] \in Range(waitq'[w])
  BY DEF WokenInOrder
<1>2. waitq[w] \in Seq(Node) /\ running_q \in Node
  BY DEF IInv, TypeOK
<1>3. Range(Append(waitq[w], running_q)) = Range(waitq[w]) \cup {running_q}
  BY <1>2, AppendQueue
<1>4. waitq[w][j] \in Range(waitq[w])
  BY DEF Range
<1>5. QED
  BY <1>3, <1>4

(* A step that wakes the first k threads of w and nobody else.              *)
LEMMA FirstWoken ==
  ASSUME IInv, NEW w \in WaitQ, NEW k \in 0 .. Len(waitq[w]),
         ready_q' = ready_q \o Woken(w, k),
         \A v \in WaitQ : v # w => waitq'[v] = waitq[v],
         Range(waitq'[w]) = Range(SubSeq(waitq[w], k + 1, Len(waitq[w])))
  PROVE  WokenInOrder
<1>1. SUFFICES ASSUME NEW v \in WaitQ, NEW i \in DOMAIN waitq[v], NEW j \in DOMAIN waitq[v],
                      i < j, waitq[v][j] \notin Range(waitq'[v])
               PROVE  /\ waitq[v][i] \notin Range(waitq'[v])
                      /\ Before(ready_q', waitq[v][i], waitq[v][j])
  BY DEF WokenInOrder
<1>2. /\ waitq[w] \in Seq(Node) /\ IsInjective(waitq[w]) /\ ready_q \in Seq(Node)
      /\ DOMAIN waitq[w] = 1 .. Len(waitq[w]) /\ Len(waitq[w]) \in Nat
  <2>1. waitq[w] \in Seq(Node) /\ IsInjective(waitq[w]) /\ ready_q \in Seq(Node)
    BY DEF IInv, TypeOK, StatusMatchesQueues, WaitingMatches
  <2>2. QED
    BY <2>1, LenProperties
<1>3. v = w
  <2>1. waitq[v][j] \in Range(waitq[v])
    BY DEF Range
  <2>2. QED
    BY <2>1, <1>1
<1>4. \A l \in DOMAIN waitq[w] : waitq[w][l] \in Range(waitq'[w]) <=> l > k
  BY <1>2, CutPositions
<1>5. i \in 1 .. k /\ j \in 1 .. k /\ ~(i > k)
  <2>1. ~(j > k)
    BY <1>1, <1>3, <1>4
  <2>2. QED
    BY <2>1, <1>1, <1>2, <1>3
<1>6. waitq[v][i] \notin Range(waitq'[v])
  BY <1>3, <1>4, <1>5
<1>7. Before(ready_q', waitq[v][i], waitq[v][j])
  <2> DEFINE q == waitq[w]
             c == ready_q \o SubSeq(q, 1, k)
  <2>1. q \in Seq(Node) /\ ready_q \in Seq(Node) /\ k \in 0 .. Len(q)
    BY <1>2
  <2> HIDE DEF q
  <2>2. i \in 1 .. k /\ j \in 1 .. k /\ i < j
    BY <1>1, <1>5
  <2>3. /\ Len(ready_q) + i \in DOMAIN c /\ c[Len(ready_q) + i] = q[i]
        /\ Len(ready_q) + j \in DOMAIN c /\ c[Len(ready_q) + j] = q[j]
    BY <2>1, <2>2, PrefixMoved
  <2>4. ready_q' = c
    BY DEF Woken, q
  <2>5. Len(ready_q) \in Nat /\ Len(ready_q) + i < Len(ready_q) + j
    BY <2>1, <2>2, LenProperties
  <2> HIDE DEF c
  <2>6. QED
    BY <2>3, <2>4, <2>5, <1>3 DEF Before, q
<1>8. QED
  BY <1>6, <1>7

LEMMA NextInOrder == IInv /\ [Next]_vars => WokenInOrder
<1> SUFFICES ASSUME IInv, [Next]_vars PROVE WokenInOrder
  OBVIOUS
<1>1. waitq \in [WaitQ -> Seq(Node)]
  BY DEF IInv, TypeOK
<1>2. CASE UNCHANGED waitq
  BY <1>2, NobodyWoken
<1>3. ASSUME NEW w \in WaitQ, NEW cont, SleepOn(w, cont) PROVE WokenInOrder
  BY <1>1, <1>3, NobodyWoken DEF SleepOn, Enqueue
<1>4. ASSUME NEW w \in UserQ, Wakeup(w) PROVE WokenInOrder
  <2>1. w \in WaitQ /\ waitq[w] \in Seq(Node) /\ Len(waitq[w]) \in Nat
    <3>1. w \in WaitQ
      BY DEF WaitQ
    <3>2. QED
      BY <3>1, <1>1, LenProperties
  <2>2. PICK k \in 0 .. Len(waitq[w]) : WakeupFirst(w, k)
    <3>1. waitq[w] # <<>> => 1 \in 0 .. Len(waitq[w])
      BY <2>1, RangeOfQueue
    <3>2. QED
      BY <2>1, <3>1, <1>4 DEF Wakeup, WakeupOne, WakeupAll
  <2>3. /\ ready_q' = ready_q \o Woken(w, k)
        /\ waitq' = [waitq EXCEPT ![w] = SubSeq(@, k + 1, Len(@))]
    BY <2>2 DEF WakeupFirst
  <2>4. QED
    BY <2>1, <2>3, <1>1, FirstWoken
<1>5. ASSUME ThreadExit PROVE WokenInOrder
  <2>1. Me \in Tid /\ Me \in WaitQ /\ waitq[Me] \in Seq(Node)
    BY <1>1 DEF IInv, TypeOK, Me, WaitQ
  <2>2. Len(waitq[Me]) \in 0 .. Len(waitq[Me])
    BY <2>1, LenProperties
  <2>3. /\ ready_q' = ready_q \o Woken(Me, Len(waitq[Me]))
        /\ waitq' = [waitq EXCEPT ![Me] = <<>>]
    BY <1>5 DEF ThreadExit
  <2>4. Range(SubSeq(waitq[Me], Len(waitq[Me]) + 1, Len(waitq[Me]))) = {}
    <3> DEFINE b == SubSeq(waitq[Me], Len(waitq[Me]) + 1, Len(waitq[Me]))
               l == Len(waitq[Me])
    <3>1. b \in Seq(Node) /\ Len(b) = IF l + 1 <= l THEN l - (l + 1) + 1 ELSE 0
      <4>1. \A m \in l + 1 .. l : waitq[Me][m] \in Node
        BY <2>2
      <4>2. QED
        BY <4>1, <2>1, <2>2, SubSeqProperties
    <3> HIDE DEF b, l
    <3>2. l \in Nat
      BY <2>1, LenProperties DEF l
    <3>3. b = <<>>
      BY <3>1, <3>2, EmptySeq
    <3>4. QED
      BY <3>3, EmptyQueue DEF b, l
  <2>5. QED
    BY <2>1, <2>2, <2>3, <2>4, <1>1, EmptyQueue, FirstWoken
<1>6. ASSUME NEW t \in Tid, Wait(t) PROVE WokenInOrder
  <2>1. t \in WaitQ
    BY DEF WaitQ
  <2>2. QED
    BY <1>2, <1>3, <1>6, <2>1 DEF Wait
<1>7. ASSUME NEW w \in UserQ, WaitQueueCreate(w) \/ Sleep(w)
                              \/ (waitq[w] = <<>> /\ WaitQueueDestroy(w))
      PROVE  WokenInOrder
  <2>1. w \in WaitQ
    BY DEF WaitQ
  <2>2. WaitQueueDestroy(w) /\ waitq[w] = <<>> => UNCHANGED waitq
    BY <2>1, <1>1 DEF WaitQueueDestroy
  <2>3. QED
    BY <1>2, <1>3, <1>7, <2>1, <2>2 DEF WaitQueueCreate, Sleep
<1>8. QED
  BY <1>2, <1>4, <1>5, <1>6, <1>7
     DEF Next, vars, Start, Create, YieldAny, TimerInterrupt, YieldTo, Yield, Switch, Resume,
         WaitReturn, Exit, KilledExit, Halted, Kill

(* thread_wakeup and thread_exit serve a wait queue first come, first       *)
(* served: whoever is woken, all who came before are woken with it and      *)
(* enter the ready queue before it.                                         *)
THEOREM FirstComeFirstServed == Spec => WakeupInOrder
<1>1. IInv /\ [Next]_vars => [WokenInOrder]_vars
  BY NextInOrder
<1>2. QED
  BY <1>1, Invariance, PTL DEF Spec, WakeupInOrder, WokenInOrder
=============================================================================
