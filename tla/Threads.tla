------------------------------ MODULE Threads ------------------------------
(***************************************************************************)
(* The user-level thread package of threads/thread.c: thread creation,     *)
(* switching, exit, kill, wait queues and thread_wait, preempted by the    *)
(* interrupt handler of threads/interrupt.c.                               *)
(*                                                                         *)
(* One thread runs at a time and the package runs with the timer signal    *)
(* blocked, so a call is one action up to the getcontext of thread_yield   *)
(* (label "getcontext"), where a context is saved and where setcontext     *)
(* later resumes it.  The running thread is at label "user" when it        *)
(* executes client code with the signal unblocked; only there can the      *)
(* timer fire.  A call that is refused (an invalid tid, an empty ready     *)
(* queue, no memory) changes nothing and is a stuttering step.             *)
(***************************************************************************)
EXTENDS Integers, Sequences, FiniteSets, SequencesExt

CONSTANTS MaxThreads,   \* THREAD_MAX_THREADS
          Node,         \* the heap blocks a queue_node can be allocated from
          UserQ,        \* the blocks of wait queues clients create
          NULL

Tid == 0 .. MaxThreads - 1
WaitQ == Tid \cup UserQ

ASSUME ThreadsAssumption ==
  /\ MaxThreads \in Nat \ {0}
  /\ Node # {}
  /\ UserQ \cap Tid = {}
  /\ NULL \notin Tid

VARIABLES
  status,      \* status[t]: what the package knows of thread t
  nodes,       \* nodes[t]: the node of thread t, stale once t is EMPTY
  ready_q,     \* the ready queue, a sequence of nodes
  exit_q,      \* exited threads whose node and stack are not freed yet
  running_q,   \* the node at the head of the running queue
  waitq,       \* waitq[w]: w in Tid is thread_wait_queues[w], else a client's
  queues,      \* the client wait queues that exist
  id,          \* id[n]: thread_block.id of node n
  pc,          \* pc[n]: where the saved (or running) context of n continues
  back,        \* back[n]: where the caller of thread_yield continues
  yield_count, \* yield_count[n]: 1 while n waits to be resumed by setcontext
  want,        \* the local id of a thread_yield that has yet to switch
  waitFor,     \* waitFor[n]: the thread n called thread_wait on, until it exits
  halted       \* exit(0) was called

vars == <<status, nodes, ready_q, exit_q, running_q, waitq, queues, id, pc,
          back, yield_count, want, waitFor, halted>>

Status == {"READY", "RUNNING", "EMPTY", "WAITING"}
(* "free": not allocated; "stub": at the start of thread_stub; "exit": at   *)
(* the start of thread_exit; "waited": after the thread_sleep of            *)
(* thread_wait; "zombie": after the thread_yield of thread_exit; "lock":    *)
(* in the loop of lock_acquire (module Monitors).                           *)
Label == {"free", "stub", "user", "getcontext", "exit", "waited", "zombie", "lock"}

Me == id[running_q]                                  \* thread_id()
IdsOf(q) == {id[n] : n \in Range(q)}

EnqueueFirst(q, n) == <<n>> \o q      \* mutant: a stack, not a queue
Enqueue(q, n) == Append(q, n)

(* deque(q, t) takes the first node that carries the id t out of q.         *)
PositionOf(q, t) == CHOOSE i \in DOMAIN q :
  id[q[i]] = t /\ \A j \in 1 .. i - 1 : id[q[j]] # t

(* deleteAll(q) leaves q empty; what it frees is Range(q).                  *)
DeleteAll(q) == <<>>

(* What free() of the nodes S makes of a field: its content is gone.        *)
Freed(field, S, none) == [n \in Node |-> IF n \in S THEN none ELSE field[n]]

(* thread_init: thread 0 runs the code that called it.                      *)
Init ==
  /\ \E first \in Node :
       /\ running_q = first
       /\ nodes = [t \in Tid |-> IF t = 0 THEN first ELSE NULL]
       /\ pc = [n \in Node |-> IF n = first THEN "user" ELSE "free"]
  /\ status = [t \in Tid |-> IF t = 0 THEN "RUNNING" ELSE "EMPTY"]
  /\ ready_q = <<>>
  /\ exit_q = <<>>
  /\ waitq = [w \in WaitQ |-> <<>>]
  /\ queues = {}
  /\ id = [n \in Node |-> 0]
  /\ back = [n \in Node |-> "user"]
  /\ yield_count = [n \in Node |-> 0]
  /\ want = NULL
  /\ waitFor = [n \in Node |-> NULL]
  /\ halted = FALSE

InUser == ~halted /\ pc[running_q] = "user"

-----------------------------------------------------------------------------
(* thread_stub: interrupts_on, then the client's function runs.             *)
Start ==
  /\ ~halted /\ pc[running_q] = "stub"
  /\ pc' = [pc EXCEPT ![running_q] = "user"]
  /\ UNCHANGED <<status, nodes, ready_q, exit_q, running_q, waitq, queues, id,
                 back, yield_count, want, waitFor, halted>>

NotScheduled(t) == status[t] \notin {"READY", "RUNNING"}  \* mutant: a sleeper's id
LowestEmpty(t) ==
  /\ status[t] = "EMPTY"
  /\ \A u \in Tid : u < t => status[u] # "EMPTY"

(* thread_create: the lowest unused tid, a new node at the tail of ready_q. *)
Create ==
  /\ InUser
  /\ \E t \in Tid, n \in Node :
       /\ LowestEmpty(t)
       /\ pc[n] = "free"
       /\ id' = [id EXCEPT ![n] = t]
       /\ pc' = [pc EXCEPT ![n] = "stub"]
       /\ status' = [status EXCEPT ![t] = "READY"]
       /\ nodes' = [nodes EXCEPT ![t] = n]
       /\ ready_q' = Enqueue(ready_q, n)
       /\ yield_count' = [yield_count EXCEPT ![n] = 0]
       /\ back' = [back EXCEPT ![n] = "user"]
       /\ waitFor' = [waitFor EXCEPT ![n] = NULL]
  /\ UNCHANGED <<exit_q, running_q, waitq, queues, want, halted>>

(* thread_yield, up to getcontext, of a running thread that stays ready.    *)
Yield(t) ==
  /\ want' = t
  /\ status' = [status EXCEPT ![Me] = "READY"]
  /\ ready_q' = Enqueue(ready_q, running_q)
  /\ pc' = [pc EXCEPT ![running_q] = "getcontext"]
  /\ back' = [back EXCEPT ![running_q] = "user"]
  /\ UNCHANGED <<nodes, exit_q, running_q, waitq, queues, id, yield_count,
                 waitFor, halted>>

YieldTo(t) == InUser /\ t # Me /\ status[t] = "READY" /\ Yield(t)

YieldAnyUnresolved == InUser /\ ready_q # <<>> /\ Yield(-1)  \* mutant
YieldAny == InUser /\ ready_q # <<>> /\ Yield(id[Head(ready_q)])

(* interrupt_handler: SIGALRM in client code yields to any thread.          *)
TimerInterrupt == YieldAny

FlagKept == yield_count               \* mutant: the flag of the last switch stays
(* Once resumed, and when an exiting thread (killed, perhaps, in a yield    *)
(* that will never return) is about to switch.                              *)
FlagReset == [yield_count EXCEPT ![running_q] = 0]

(* thread_yield from getcontext on, which returns a first time to save the  *)
(* context (yield_count 0: switch to the thread chosen) and a second time   *)
(* when another thread's setcontext resumes it (yield_count 1: reap the     *)
(* exited threads and return).                                              *)
Switch ==
  LET k == PositionOf(ready_q, want)
  IN /\ ~halted /\ pc[running_q] = "getcontext" /\ yield_count[running_q] = 0
     /\ yield_count' = [yield_count EXCEPT ![running_q] = 1]
     /\ status' = [status EXCEPT ![want] = "RUNNING"]
     /\ running_q' = ready_q[k]
     /\ ready_q' = RemoveAt(ready_q, k)
     /\ want' = NULL
     /\ UNCHANGED <<nodes, exit_q, waitq, queues, id, pc, back, waitFor, halted>>

Resume ==
  LET dead == Range(exit_q)
  IN /\ ~halted /\ pc[running_q] = "getcontext" /\ yield_count[running_q] # 0
     /\ pc' = Freed([pc EXCEPT ![running_q] = back[running_q]], dead, "free")
     /\ yield_count' = Freed(FlagReset, dead, 0)
     /\ back' = Freed([back EXCEPT ![running_q] = "user"], dead, "user")
     /\ id' = Freed(id, dead, 0)
     /\ exit_q' = DeleteAll(exit_q)
     /\ UNCHANGED <<status, nodes, ready_q, running_q, waitq, queues, want,
                    waitFor, halted>>

-----------------------------------------------------------------------------
(* What thread_sleep on w changes before its thread_yield switches.  The    *)
(* caller continues at label cont.                                          *)
SleepOn(w, cont) ==
  /\ ready_q # <<>>
  /\ waitq' = [waitq EXCEPT ![w] = Enqueue(@, running_q)]
  /\ status' = [status EXCEPT ![Me] = "WAITING"]
  /\ want' = id[Head(ready_q)]
  /\ pc' = [pc EXCEPT ![running_q] = "getcontext"]
  /\ back' = [back EXCEPT ![running_q] = cont]
  /\ UNCHANGED <<nodes, ready_q, exit_q, running_q, queues, id, yield_count, halted>>

Sleep(w) == InUser /\ w \in queues /\ SleepOn(w, "user") /\ UNCHANGED waitFor

WokenBackwards(w, k) == Reverse(SubSeq(waitq[w], 1, k))  \* mutant
Woken(w, k) == SubSeq(waitq[w], 1, k)

(* thread_wakeup of the first k threads of waitq[w].                        *)
WakeupFirst(w, k) ==
  LET woken == Woken(w, k)
  IN /\ status' = [t \in Tid |-> IF t \in IdsOf(woken) THEN "READY" ELSE status[t]]
     /\ ready_q' = ready_q \o woken
     /\ waitq' = [waitq EXCEPT ![w] = SubSeq(@, k + 1, Len(@))]

WakeupOne(w) == waitq[w] # <<>> /\ WakeupFirst(w, 1)
WakeupAll(w) == WakeupFirst(w, Len(waitq[w]))

Wakeup(w) ==
  /\ InUser /\ w \in queues
  /\ WakeupOne(w) \/ WakeupAll(w)
  /\ UNCHANGED <<nodes, exit_q, running_q, queues, id, pc, back, yield_count,
                 want, waitFor, halted>>

WaitableIfOther(t) == t # Me          \* mutant
Waitable(t) == t # Me /\ status[t] # "EMPTY"

(* thread_wait: sleep on the target's queue.  When thread_sleep refuses,    *)
(* because no other thread is ready, thread_wait goes on all the same.      *)
Wait(t) ==
  /\ InUser /\ Waitable(t)
  /\ waitFor' = [waitFor EXCEPT ![running_q] = t]
  /\ \/ SleepOn(t, "waited")
     \/ /\ ready_q = <<>>
        /\ pc' = [pc EXCEPT ![running_q] = "waited"]
        /\ UNCHANGED <<status, nodes, ready_q, exit_q, running_q, waitq, queues,
                       id, back, yield_count, want, halted>>

WaitReturn ==
  /\ ~halted /\ pc[running_q] = "waited"
  /\ pc' = [pc EXCEPT ![running_q] = "user"]
  /\ waitFor' = [waitFor EXCEPT ![running_q] = NULL]
  /\ UNCHANGED <<status, nodes, ready_q, exit_q, running_q, waitq, queues, id,
                 back, yield_count, want, halted>>

StillRunning(woken) ==                \* mutant: the exiting thread keeps its status
  [t \in Tid |-> IF t \in IdsOf(woken) THEN "READY" ELSE status[t]]
StatusAfterExit(woken) ==
  [t \in Tid |-> IF t = Me THEN "EMPTY"
                 ELSE IF t \in IdsOf(woken) THEN "READY"
                 ELSE status[t]]

(* thread_exit: called by the client, by thread_stub when the client's      *)
(* function returns, or because thread_kill made the context continue here. *)
(* It wakes the threads waiting for this one and yields to any thread; with *)
(* none ready the process exits.                                            *)
ThreadExit ==
  LET woken == Woken(Me, Len(waitq[Me]))
      ready == ready_q \o woken
  IN /\ ready_q' = ready
     /\ waitq' = [waitq EXCEPT ![Me] = <<>>]
     /\ status' = StatusAfterExit(woken)
     /\ waitFor' = [n \in Node |-> IF n = running_q \/ waitFor[n] = Me
                                   THEN NULL ELSE waitFor[n]]
     /\ exit_q' = Enqueue(exit_q, running_q)
     /\ IF ready = <<>>
        THEN halted' = TRUE /\ UNCHANGED <<pc, back, yield_count, want>>
        ELSE /\ yield_count' = FlagReset
             /\ want' = id[Head(ready)]
             /\ pc' = [pc EXCEPT ![running_q] = "getcontext"]
             /\ back' = [back EXCEPT ![running_q] = "zombie"]
             /\ UNCHANGED halted
     /\ UNCHANGED <<nodes, running_q, queues, id>>

Exit == InUser /\ ThreadExit
KilledExit == ~halted /\ pc[running_q] = "exit" /\ ThreadExit

(* thread_kill: the saved context of thread t continues in thread_exit.     *)
Kill(t) ==
  /\ InUser /\ t # Me /\ status[t] # "EMPTY"
  /\ pc' = [pc EXCEPT ![nodes[t]] = "exit"]
  /\ UNCHANGED <<status, nodes, ready_q, exit_q, running_q, waitq, queues, id,
                 back, yield_count, want, waitFor, halted>>

WaitQueueCreate(w) ==
  /\ InUser /\ w \notin queues
  /\ queues' = queues \cup {w}
  /\ UNCHANGED <<status, nodes, ready_q, exit_q, running_q, waitq, id, pc, back,
                 yield_count, want, waitFor, halted>>

(* wait_queue_destroy frees the nodes still in the queue with the queue.    *)
WaitQueueDestroy(w) ==
  LET dead == Range(waitq[w])
  IN /\ InUser /\ w \in queues
     /\ queues' = queues \ {w}
     /\ waitq' = [waitq EXCEPT ![w] = <<>>]
     /\ pc' = Freed(pc, dead, "free")
     /\ yield_count' = Freed(yield_count, dead, 0)
     /\ back' = Freed(back, dead, "user")
     /\ id' = Freed(id, dead, 0)
     /\ UNCHANGED <<status, nodes, ready_q, exit_q, running_q, want, waitFor, halted>>

Halted == halted /\ UNCHANGED vars

-----------------------------------------------------------------------------
(* The calls of any client that destroys a wait queue only when it is empty. *)
Next ==
  \/ Start \/ Create \/ YieldAny \/ TimerInterrupt \/ Switch \/ Resume
  \/ WaitReturn \/ Exit \/ KilledExit \/ Halted
  \/ \E t \in Tid : YieldTo(t) \/ Wait(t) \/ Kill(t)
  \/ \E w \in UserQ : \/ WaitQueueCreate(w) \/ Sleep(w) \/ Wakeup(w)
                      \/ waitq[w] = <<>> /\ WaitQueueDestroy(w)

Spec == Init /\ [][Next]_vars

(* The package's own code runs to its end.  The interval timer is one-shot  *)
(* but its handler re-arms it before yielding, and a signal that arrives    *)
(* while it is blocked is delivered when it is unblocked: a process that    *)
(* is in client code again and again is interrupted again and again.        *)
Fairness ==
  /\ WF_vars(Start) /\ WF_vars(Switch) /\ WF_vars(Resume)
  /\ WF_vars(WaitReturn) /\ WF_vars(KilledExit)
  /\ SF_vars(TimerInterrupt)

FairSpec == Spec /\ Fairness
-----------------------------------------------------------------------------
(* What the package relies on.                                              *)

TypeOK ==
  /\ status \in [Tid -> Status]
  /\ nodes \in [Tid -> Node \cup {NULL}]
  /\ ready_q \in Seq(Node)
  /\ exit_q \in Seq(Node)
  /\ running_q \in Node
  /\ waitq \in [WaitQ -> Seq(Node)]
  /\ queues \in SUBSET UserQ
  /\ id \in [Node -> Tid]
  /\ pc \in [Node -> Label]
  /\ back \in [Node -> Label]
  /\ yield_count \in [Node -> {0, 1}]
  /\ want \in Tid \cup {NULL}
  /\ waitFor \in [Node -> Tid \cup {NULL}]
  /\ halted \in BOOLEAN

(* The node that nodes[] names for the thread whose id n carries.           *)
Registered(n) == nodes[id[n]] = n /\ pc[n] # "free"

(* Between the statements of thread_yield that choose the next thread and   *)
(* its setcontext, the running node is already where its status says.       *)
Leaving == pc[running_q] = "getcontext" /\ yield_count[running_q] = 0

ReadyMatches ==
  /\ IsInjective(ready_q)
  /\ \A n \in Range(ready_q) : Registered(n) /\ status[id[n]] = "READY"
  /\ \A t \in Tid : status[t] = "READY" => nodes[t] \in Range(ready_q)

WaitingMatches ==
  /\ \A w \in WaitQ :
       /\ IsInjective(waitq[w])
       /\ \A n \in Range(waitq[w]) : Registered(n) /\ status[id[n]] = "WAITING"
  /\ \A v, w \in WaitQ : v # w => Range(waitq[v]) \cap Range(waitq[w]) = {}
  /\ \A t \in Tid : status[t] = "WAITING" => \E w \in WaitQ : nodes[t] \in Range(waitq[w])

RunningMatches ==
  /\ \A t \in Tid : status[t] = "RUNNING" => nodes[t] = running_q /\ ~Leaving
  /\ Leaving \/ halted \/ (status[Me] = "RUNNING" /\ Registered(running_q))

(* status[] and the queues tell the same story: a thread is READY exactly   *)
(* when its node is in the ready queue, WAITING exactly when it is in a     *)
(* wait queue, RUNNING exactly when it is the one on the processor, in one  *)
(* place only and once, however creations, switches, wakeups, kills and     *)
(* exits interleave (the status assignments and the enqueue and deque calls *)
(* of thread.c are separate statements).                                    *)
StatusMatchesQueues == ReadyMatches /\ WaitingMatches /\ RunningMatches

(* The state of the package in every step: each variable has a value it can *)
(* have, and none contradicts another.                                      *)
Consistent == TypeOK /\ StatusMatchesQueues

(* thread_kill writes through nodes[tid] of any thread that is not EMPTY:   *)
(* that node is allocated, is this thread's and was not handed to exit_q,   *)
(* whatever was freed and reused before.                                    *)
NodesOfLiveThreads ==
  \A t \in Tid : status[t] # "EMPTY" =>
    /\ nodes[t] \in Node
    /\ id[nodes[t]] = t
    /\ pc[nodes[t]] # "free"
    /\ nodes[t] \notin Range(exit_q)

(* deleteAll(exit_q) frees each exited node once, and the stack the         *)
(* processor is running on is never freed, by it or before.                 *)
ReapIsSafe ==
  /\ IsInjective(exit_q)
  /\ \A n \in Range(exit_q) : pc[n] # "free"
  /\ running_q \in Range(exit_q) => Leaving \/ halted
  /\ pc[running_q] # "free"

InPackageOrClient == {"user", "waited", "lock"}

(* The yield_count flag tells the two returns of getcontext apart: 0 in     *)
(* every running thread that can call thread_yield, 1 in every context that *)
(* setcontext can resume there; and no context continues in a thread_exit   *)
(* that has already exited.  A killed thread enters thread_exit with the    *)
(* flag of its abandoned call still set.                                    *)
SavedContexts ==
  /\ \A n \in Node :
       /\ pc[n] \in InPackageOrClient => n = running_q /\ yield_count[n] = 0
       /\ pc[n] = "getcontext" /\ n # running_q => yield_count[n] = 1
       /\ pc[n] = "stub" => yield_count[n] = 0
       /\ pc[n] # "zombie"
  /\ \A t \in Tid : status[t] # "EMPTY" => back[nodes[t]] \in InPackageOrClient

(* The thread a yield decided to run is still in the ready queue when the   *)
(* switch looks it up by id.                                                *)
WantedIsReady == ~halted /\ Leaving => want \in Tid /\ status[want] = "READY"

(* thread_wait: a waiter sits in its target's queue until the target exits, *)
(* so nobody waits for a thread that is gone, and no waiter is made ready   *)
(* by anything but that exit.                                               *)
WaitersAwaitLiveThreads ==
  /\ \A t \in Tid : \A n \in Range(waitq[t]) :
       waitFor[n] = t /\ status[t] # "EMPTY" /\ id[n] # t
  /\ \A n \in Range(ready_q) : waitFor[n] = NULL

(* Identifiers, nodes and queues are reused: whatever names a thread, the   *)
(* table thread_kill writes through and the queue of those who wait for it, *)
(* names one that is alive and the right one.                               *)
NothingStale == NodesOfLiveThreads /\ WaitersAwaitLiveThreads

Before(q, a, b) == \E i, j \in DOMAIN q : i < j /\ q[i] = a /\ q[j] = b

(* Threads are woken first come, first served, and enter the ready queue in *)
(* the order in which they went to sleep.                                   *)
WakeupInOrder ==
  [][\A w \in WaitQ : \A i, j \in DOMAIN waitq[w] :
       i < j /\ waitq[w][j] \notin Range(waitq'[w])
         => /\ waitq[w][i] \notin Range(waitq'[w])
            /\ Before(ready_q', waitq[w][i], waitq[w][j])]_vars

(* No ready thread starves, whatever the others do with thread_yield(tid).  *)
ReadyRuns == \A t \in Tid : status[t] = "READY" ~> status[t] # "READY"

(* A thread whose thread_wait target exited returns from thread_wait, or    *)
(* was killed meanwhile.                                                    *)
WaitEnds ==
  \A n \in Node :
    (pc[n] = "getcontext" /\ back[n] = "waited" /\ waitFor[n] = NULL)
      ~> pc[n] # "getcontext"

-----------------------------------------------------------------------------
(* What the documentation says and the code does not do.                    *)

(* thread.h on thread_wait: "suspend current thread until the thread whose  *)
(* identifier is tid exits"; thread_wait ignores that thread_sleep refused. *)
WaitedMeansExited == pc[running_q] = "waited" => waitFor[running_q] = NULL
=============================================================================
