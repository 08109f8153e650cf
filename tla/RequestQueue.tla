---------------------------- MODULE RequestQueue ----------------------------
(***************************************************************************)
(* The request buffer of webserver/server_thread.c: the listening thread   *)
(* (main of server.c, in server_request and server_exit) fills a ring, the *)
(* worker threads (ReceiveRequest) empty it, under buffer_lock and with    *)
(* the condition variables full and empty.                                 *)
(*                                                                         *)
(* in, out and request_queue are used with buffer_lock held and nowhere    *)
(* else, so what a thread does between two labels is one step.  exiting is *)
(* read and written without the lock: each access is a step.  A signalled  *)
(* thread re-acquires the lock and re-evaluates its loop condition, which  *)
(* is where it also arrives the first time (label "lock").                 *)
(***************************************************************************)
EXTENDS Integers, Sequences, FiniteSets

CONSTANTS Worker,       \* the nr_threads worker threads
          Main,         \* the listening thread
          Conn,         \* connection descriptors
          MaxRequests,  \* max_requests
          NULL

ASSUME QueueAssumption ==
  /\ IsFiniteSet(Worker)
  /\ Main \notin Worker
  /\ MaxRequests \in Nat \ {0}
  /\ NULL \notin Conn /\ NULL \notin Worker /\ NULL # Main

Thread == Worker \cup {Main}

VARIABLES
  in, out,        \* the ring positions to write and to read next
  request_queue,  \* the ring, one slot longer than the buffer
  exiting,        \* sv->exiting
  buffer_lock,    \* the thread that holds the mutex, or NULL
  full, empty,    \* the threads blocked in pthread_cond_wait on each
  pc,             \* pc[p]: where thread p is
  connfd          \* connfd[p]: the request thread p has in hand, or NULL

vars == <<in, out, request_queue, exiting, buffer_lock, full, empty, pc, connfd>>
ring == <<in, out, request_queue>>

Slots == 0 .. MaxRequests

(* "loop": at the head of ReceiveRequest's outer loop; "poll": in main's    *)
(* loop; "lock": about to lock buffer_lock; "check": holds it, at the inner *)
(* loop's condition; "wait": found the buffer empty and exiting 0, about to *)
(* call pthread_cond_wait; "asleep": in pthread_cond_wait.                  *)
Label == {"loop", "poll", "lock", "check", "wait", "asleep", "serve",
          "broadcast", "join", "returned"}

Init ==
  /\ in = 0 /\ out = 0
  /\ request_queue = [i \in Slots |-> NULL]
  /\ exiting = 0
  /\ buffer_lock = NULL
  /\ full = {} /\ empty = {}
  /\ pc = [p \in Thread |-> IF p = Main THEN "poll" ELSE "loop"]
  /\ connfd = [p \in Thread |-> NULL]

Goto(p, label) == pc' = [pc EXCEPT ![p] = label]

NextOverrun(i) == (i + 1) % (MaxRequests + 2)   \* mutant: the ring is longer
NextSlot(i) == (i + 1) % (MaxRequests + 1)

(* The number of slots from o to i, round the ring.                         *)
Ahead(i, o) == (i - o + MaxRequests + 1) % (MaxRequests + 1)
Count == Ahead(in, out)
IsEmpty == in = out

FullLate == Count = MaxRequests + 1             \* mutant: off by one
IsFull == Count = MaxRequests

Queued == {request_queue[i] : i \in {j \in Slots : Ahead(j, out) < Count}}
Open == Queued \cup {connfd[p] : p \in Thread}

(* pthread_mutex_lock, and the way back into it from pthread_cond_wait.     *)
Lock(p) ==
  /\ pc[p] = "lock" /\ buffer_lock = NULL
  /\ buffer_lock' = p
  /\ Goto(p, "check")
  /\ UNCHANGED <<ring, exiting, full, empty, connfd>>

-----------------------------------------------------------------------------
(* main: poll and accept, then server_request, which serves the request     *)
(* itself when there are no workers.  An accepted descriptor is not in use. *)
Accept(c) ==
  /\ pc[Main] = "poll" /\ c \notin Open
  /\ connfd' = [connfd EXCEPT ![Main] = c]
  /\ Goto(Main, IF Worker = {} THEN "serve" ELSE "lock")
  /\ UNCHANGED <<ring, exiting, buffer_lock, full, empty>>

WaitFull ==
  /\ pc[Main] = "check" /\ IsFull
  /\ buffer_lock' = NULL
  /\ full' = full \cup {Main}
  /\ Goto(Main, "asleep")
  /\ UNCHANGED <<ring, exiting, empty, connfd>>

(* pthread_cond_signal(&empty) unblocks one of the workers, if any.         *)
SignalsNobody == Goto(Main, "poll") /\ UNCHANGED empty   \* mutant: no signal
SignalEmpty ==
  \/ /\ empty = {}
     /\ Goto(Main, "poll")
     /\ UNCHANGED empty
  \/ \E w \in empty :
       /\ empty' = empty \ {w}
       /\ pc' = [pc EXCEPT ![w] = "lock", ![Main] = "poll"]

Put ==
  /\ pc[Main] = "check" /\ ~IsFull
  /\ request_queue' = [request_queue EXCEPT ![in] = connfd[Main]]
  /\ in' = NextSlot(in)
  /\ SignalEmpty
  /\ buffer_lock' = NULL
  /\ connfd' = [connfd EXCEPT ![Main] = NULL]
  /\ UNCHANGED <<out, exiting, full>>

-----------------------------------------------------------------------------
(* ReceiveRequest.                                                          *)
Loop(w) ==
  /\ pc[w] = "loop"
  /\ Goto(w, IF exiting = 1 THEN "returned" ELSE "lock")
  /\ UNCHANGED <<ring, exiting, buffer_lock, full, empty, connfd>>

CheckOnce(w) ==                       \* mutant: exiting not looked at again
  /\ pc[w] = "check" /\ IsEmpty
  /\ Goto(w, "wait")
  /\ UNCHANGED <<ring, exiting, buffer_lock, full, empty, connfd>>
LeaveLocked(w) ==                     \* mutant: leaves with the lock held
  /\ pc[w] = "check" /\ IsEmpty
  /\ Goto(w, IF exiting = 1 THEN "returned" ELSE "wait")
  /\ UNCHANGED <<ring, exiting, buffer_lock, full, empty, connfd>>
(* The buffer is empty: leave if the server is exiting.                     *)
CheckExiting(w) ==
  /\ pc[w] = "check" /\ IsEmpty
  /\ \/ /\ exiting = 1
        /\ buffer_lock' = NULL
        /\ Goto(w, "returned")
     \/ /\ exiting # 1
        /\ Goto(w, "wait")
        /\ UNCHANGED buffer_lock
  /\ UNCHANGED <<ring, exiting, full, empty, connfd>>

WaitEmpty(w) ==
  /\ pc[w] = "wait"
  /\ buffer_lock' = NULL
  /\ empty' = empty \cup {w}
  /\ Goto(w, "asleep")
  /\ UNCHANGED <<ring, exiting, full, connfd>>

NewestSlot == (in + MaxRequests) % (MaxRequests + 1)   \* mutant: a stack
OldestSlot == out

NobodyWoken == {}                     \* mutant: full is not signalled
(* pthread_cond_signal(&full): only main ever waits on it.                  *)
WokenByTake == full

Take(w) ==
  /\ pc[w] = "check" /\ ~IsEmpty
  /\ connfd' = [connfd EXCEPT ![w] = request_queue[OldestSlot]]
  /\ out' = NextSlot(out)
  /\ full' = full \ WokenByTake
  /\ pc' = [p \in Thread |-> IF p = w THEN "serve" ELSE IF p \in WokenByTake THEN "lock" ELSE pc[p]]
  /\ buffer_lock' = NULL
  /\ UNCHANGED <<in, request_queue, exiting, empty>>

(* do_server_request, which closes the descriptor on every path.            *)
Serve(p) ==
  /\ pc[p] = "serve"
  /\ connfd' = [connfd EXCEPT ![p] = NULL]
  /\ Goto(p, IF p = Main THEN "poll" ELSE "loop")
  /\ UNCHANGED <<ring, exiting, buffer_lock, full, empty>>

(* pthread_cond_wait may return without a signal.                           *)
Spurious(p) ==
  /\ pc[p] = "asleep"
  /\ full' = full \ {p} /\ empty' = empty \ {p}
  /\ Goto(p, "lock")
  /\ UNCHANGED <<ring, exiting, buffer_lock, connfd>>

-----------------------------------------------------------------------------
(* server_exit, when main's poll sees the exit fifo: neither the assignment *)
(* nor the broadcasts are made with buffer_lock held.                       *)
Exit ==
  /\ pc[Main] = "poll"
  /\ exiting' = 1
  /\ Goto(Main, "broadcast")
  /\ UNCHANGED <<ring, buffer_lock, full, empty, connfd>>

Broadcast ==
  /\ pc[Main] = "broadcast"
  /\ full' = {} /\ empty' = {}
  /\ pc' = [p \in Thread |-> IF p = Main THEN "join"
                             ELSE IF p \in full \cup empty THEN "lock" ELSE pc[p]]
  /\ UNCHANGED <<ring, exiting, buffer_lock, connfd>>

Join ==
  /\ pc[Main] = "join"
  /\ \A w \in Worker : pc[w] = "returned"
  /\ Goto(Main, "returned")
  /\ UNCHANGED <<ring, exiting, buffer_lock, full, empty, connfd>>

Next ==
  \/ \E c \in Conn : Accept(c)
  \/ WaitFull \/ Put \/ Exit \/ Broadcast \/ Join
  \/ \E w \in Worker : Loop(w) \/ CheckExiting(w) \/ WaitEmpty(w) \/ Take(w)
  \/ \E p \in Thread : Lock(p) \/ Serve(p) \/ Spurious(p)

Spec == Init /\ [][Next]_vars

(* The operating system runs every thread, serving a request ends, and a    *)
(* free mutex goes to one of those that ask for it, which need not be the   *)
(* same one every time.  Wakeups without a signal do not go on for ever.    *)
Fairness ==
  /\ <>[][\A p \in Thread : ~Spurious(p)]_vars
  /\ WF_vars(WaitFull) /\ WF_vars(Put) /\ WF_vars(Broadcast) /\ WF_vars(Join)
  /\ WF_vars(\E p \in Thread : Lock(p))
  /\ WF_vars(Serve(Main))
  /\ \A w \in Worker : /\ WF_vars(Loop(w)) /\ WF_vars(CheckExiting(w))
                       /\ WF_vars(WaitEmpty(w)) /\ WF_vars(Take(w)) /\ WF_vars(Serve(w))

FairSpec == Spec /\ Fairness

-----------------------------------------------------------------------------
QTypeOK ==
  /\ in \in Slots /\ out \in Slots
  /\ request_queue \in [Slots -> Conn \cup {NULL}]
  /\ exiting \in {0, 1}
  /\ buffer_lock \in Thread \cup {NULL}
  /\ full \in SUBSET {Main} /\ empty \in SUBSET Worker
  /\ pc \in [Thread -> Label]
  /\ connfd \in [Thread -> Conn \cup {NULL}]

(* The condition variables' sleepers are the threads that are blocked on    *)
(* them, and a thread between its lock and its wait or unlock is alone, so  *)
(* what it read of the ring is still so when it acts on it.                 *)
OneInCriticalSection ==
  /\ \A p \in Thread : pc[p] \in {"check", "wait"} <=> buffer_lock = p
  /\ \A p \in Thread : pc[p] = "asleep" <=> p \in full \cup empty
  /\ \A w \in Worker : pc[w] = "wait" => IsEmpty

(* Workers on their way to the buffer's condition.                          *)
Heading == {w \in Worker : pc[w] \in {"lock", "check"}}

(* No wakeup of a worker is lost: while workers sleep, there are at least   *)
(* as many workers on their way to the buffer as requests in it, although   *)
(* a signalled worker may find that a busy one took its request.            *)
NoRequestForgotten == empty # {} => Count <= Cardinality(Heading)

(* No wakeup of the listening thread is lost: it sleeps only while the      *)
(* buffer is full, whichever worker took a request and whenever.            *)
SleepsOnlyWhenFull == full # {} => IsFull

(* So no wakeup is lost in either direction, whoever sleeps or is signalled *)
(* between which steps of the others.                                       *)
NoLostWakeup == NoRequestForgotten /\ SleepsOnlyWhenFull

(* A descriptor is in one place only: handed to one worker, saved once, so  *)
(* none is served or closed twice.                                          *)
OneOwner ==
  /\ \A p, q \in Thread : p # q /\ connfd[p] = connfd[q] => connfd[p] = NULL
  /\ \A p \in Thread : connfd[p] \notin Queued
  /\ Cardinality(Queued) = Count

(* The mutex and the buffer keep threads apart: one at a time acts on the   *)
(* ring, and each descriptor it passes on is one thread's.                  *)
Exclusive == OneInCriticalSection /\ OneOwner

(* The ring is a bounded first-in first-out buffer.                         *)
Buffer == [i \in 1 .. Count |-> request_queue[(out + i - 1) % (MaxRequests + 1)]]

Buf == INSTANCE BoundedBuffer WITH
  Capacity <- MaxRequests, Idle <- NULL,
  buffer <- Buffer, serving <- [w \in Worker |-> connfd[w]]

ImplementsBuffer == Buf!Spec

(* A saved request is taken, unless the server exits: the workers leave a   *)
(* buffer that still holds requests when they see exiting.                  *)
RequestsTaken == \A c \in Conn : c \in Queued ~> (c \notin Queued \/ exiting = 1)

(* The listening thread does not stay blocked on a full buffer.             *)
ListenerResumes == pc[Main] = "asleep" ~> pc[Main] # "asleep"

(* server_exit ends when its broadcasts meet no worker between the test of  *)
(* exiting and pthread_cond_wait.                                           *)
ExitEndsUnlessRace ==
  (pc[Main] = "broadcast" /\ \A w \in Worker : pc[w] # "wait") ~> pc[Main] = "returned"

-----------------------------------------------------------------------------
(* "make sure to call pthread_join in this function so that the main server *)
(* thread waits for all the worker threads to exit before exiting" (in      *)
(* server_exit): it may wait for ever.                                      *)
ExitEnds == pc[Main] = "broadcast" ~> pc[Main] = "returned"
=============================================================================
