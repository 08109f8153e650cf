------------------------- MODULE RequestQueueProofs -------------------------
(***************************************************************************)
(* Proofs about the request buffer, for any finite set of workers, any     *)
(* descriptors and any ring size.                                          *)
(***************************************************************************)
EXTENDS RequestQueue, FiniteSetTheorems, SequenceTheorems, TLAPS

(* Which labels the two kinds of thread have.                               *)
Labels ==
  /\ pc[Main] \in Label \ {"loop", "wait"}
  /\ \A w \in Worker : pc[w] \in Label \ {"poll", "broadcast", "join"}

(* The listener has a descriptor in hand from its accept to its put, a      *)
(* worker from its take to the end of the request.                          *)
InHand ==
  /\ connfd[Main] # NULL <=> pc[Main] \in {"lock", "check", "asleep", "serve"}
  /\ \A w \in Worker : connfd[w] # NULL <=> pc[w] = "serve"

(* The slots that Buffer reads are not stale.                               *)
Filled == \A i \in 1 .. Count : Buffer[i] \in Conn

IInv == /\ QTypeOK /\ Labels /\ OneInCriticalSection /\ SleepsOnlyWhenFull
        /\ NoRequestForgotten /\ InHand /\ Filled

-----------------------------------------------------------------------------
(* The arithmetic of the ring.                                              *)
LEMMA Wrap ==
  ASSUME NEW n \in Nat \ {0}, NEW x \in 0 .. 2 * n - 1
  PROVE  x % n = IF x < n THEN x ELSE x - n
OBVIOUS

LEMMA AheadOf ==
  ASSUME NEW i \in Slots, NEW o \in Slots
  PROVE  /\ Ahead(i, o) = IF i >= o THEN i - o ELSE i - o + MaxRequests + 1
         /\ Ahead(i, o) \in 0 .. MaxRequests
<1> DEFINE x == i - o + MaxRequests + 1
<1>1. /\ i \in Int /\ o \in Int /\ MaxRequests \in Nat \ {0}
      /\ 0 <= i /\ i <= MaxRequests /\ 0 <= o /\ o <= MaxRequests
  BY QueueAssumption DEF Slots
<1>2. MaxRequests + 1 \in Nat \ {0} /\ x \in 0 .. 2 * (MaxRequests + 1) - 1
  BY <1>1
<1>3. Ahead(i, o) = x % (MaxRequests + 1)
  BY DEF Ahead
<1> HIDE DEF x
<1>4. Ahead(i, o) = IF x < MaxRequests + 1 THEN x ELSE x - (MaxRequests + 1)
  BY <1>2, <1>3, Wrap
<1> QED BY <1>1, <1>4 DEF x

LEMMA SlotOf ==
  ASSUME NEW o \in Slots, NEW i \in 1 .. MaxRequests + 1
  PROVE  /\ (o + i - 1) % (MaxRequests + 1)
              = IF o + i - 1 <= MaxRequests THEN o + i - 1 ELSE o + i - 2 - MaxRequests
         /\ (o + i - 1) % (MaxRequests + 1) \in Slots
<1> DEFINE x == o + i - 1
<1>1. /\ o \in Int /\ MaxRequests \in Nat \ {0} /\ 0 <= o /\ o <= MaxRequests
  BY QueueAssumption DEF Slots
<1>2. MaxRequests + 1 \in Nat \ {0} /\ x \in 0 .. 2 * (MaxRequests + 1) - 1
  BY <1>1
<1> HIDE DEF x
<1>3. x % (MaxRequests + 1) = IF x < MaxRequests + 1 THEN x ELSE x - (MaxRequests + 1)
  BY <1>2, Wrap
<1> QED BY <1>1, <1>3 DEF x, Slots

LEMMA NextOf ==
  ASSUME NEW i \in Slots
  PROVE  /\ NextSlot(i) \in Slots
         /\ NextSlot(i) = IF i = MaxRequests THEN 0 ELSE i + 1
<1>1. MaxRequests + 1 \in Nat \ {0} /\ i + 1 \in 0 .. 2 * (MaxRequests + 1) - 1
  BY QueueAssumption DEF Slots
<1> QED BY <1>1, Wrap, QueueAssumption DEF Slots, NextSlot

-----------------------------------------------------------------------------
LEMMA TypePreserved ==
  ASSUME QTypeOK, Labels, OneInCriticalSection, [Next]_vars
  PROVE  QTypeOK'
<1> USE QueueAssumption DEF Goto, Thread, Label, ring
<1>1. CASE \E c \in Conn : Accept(c)  BY <1>1 DEF QTypeOK, Accept
<1>2. CASE WaitFull  BY <1>2 DEF QTypeOK, WaitFull
<1>3. CASE Put  BY <1>3, NextOf DEF QTypeOK, Put, SignalEmpty
<1>4. CASE Exit  BY <1>4 DEF QTypeOK, Exit
<1>5. CASE Broadcast  BY <1>5 DEF QTypeOK, Broadcast
<1>6. CASE Join  BY <1>6 DEF QTypeOK, Join
<1>7. CASE \E w \in Worker : Loop(w)  BY <1>7 DEF QTypeOK, Loop
<1>8. CASE \E w \in Worker : CheckExiting(w)  BY <1>8 DEF QTypeOK, CheckExiting
<1>9. CASE \E w \in Worker : WaitEmpty(w)  BY <1>9 DEF QTypeOK, WaitEmpty
<1>10. CASE \E w \in Worker : Take(w)
  BY <1>10, NextOf DEF QTypeOK, Take, WokenByTake, OldestSlot
<1>11. CASE \E p \in Thread : Lock(p)  BY <1>11 DEF QTypeOK, Lock
<1>12. CASE \E p \in Thread : Serve(p)  BY <1>12 DEF QTypeOK, Serve
<1>13. CASE \E p \in Thread : Spurious(p)  BY <1>13 DEF QTypeOK, Spurious
<1>14. CASE UNCHANGED vars  BY <1>14 DEF QTypeOK, vars
<1> QED BY <1>1, <1>2, <1>3, <1>4, <1>5, <1>6, <1>7, <1>8, <1>9, <1>10, <1>11,
           <1>12, <1>13, <1>14 DEF Next

(* One critical section at a time, and the labels.                          *)
LEMMA ExclusionPreserved ==
  ASSUME QTypeOK, Labels, OneInCriticalSection, [Next]_vars
  PROVE  Labels' /\ OneInCriticalSection'
<1> USE QueueAssumption DEF Goto, Thread, Label, ring, Labels, OneInCriticalSection,
                            QTypeOK, IsEmpty
<1>1. CASE \E c \in Conn : Accept(c)  BY <1>1 DEF Accept
<1>2. CASE WaitFull  BY <1>2 DEF WaitFull
<1>3. CASE Put  BY <1>3 DEF Put, SignalEmpty
<1>4. CASE Exit  BY <1>4 DEF Exit
<1>5. CASE Broadcast  BY <1>5 DEF Broadcast
<1>6. CASE Join  BY <1>6 DEF Join
<1>7. CASE \E w \in Worker : Loop(w)  BY <1>7 DEF Loop
<1>8. CASE \E w \in Worker : CheckExiting(w)  BY <1>8 DEF CheckExiting
<1>9. CASE \E w \in Worker : WaitEmpty(w)  BY <1>9 DEF WaitEmpty
<1>10. CASE \E w \in Worker : Take(w)  BY <1>10 DEF Take, WokenByTake
<1>11. CASE \E p \in Thread : Lock(p)  BY <1>11 DEF Lock
<1>12. CASE \E p \in Thread : Serve(p)  BY <1>12 DEF Serve
<1>13. CASE \E p \in Thread : Spurious(p)  BY <1>13 DEF Spurious
<1>14. CASE UNCHANGED vars  BY <1>14 DEF vars
<1> QED BY <1>1, <1>2, <1>3, <1>4, <1>5, <1>6, <1>7, <1>8, <1>9, <1>10, <1>11,
           <1>12, <1>13, <1>14 DEF Next

(* Who has a descriptor in hand.                                            *)
LEMMA InHandPreserved ==
  ASSUME IInv, [Next]_vars
  PROVE  InHand'
<1> USE QueueAssumption DEF Goto, Thread, Label, ring, IInv, Labels, OneInCriticalSection,
                            QTypeOK, InHand
<1>1. CASE \E c \in Conn : Accept(c)  BY <1>1 DEF Accept
<1>2. CASE WaitFull  BY <1>2 DEF WaitFull
<1>3. CASE Put  BY <1>3 DEF Put, SignalEmpty
<1>4. CASE Exit  BY <1>4 DEF Exit
<1>5. CASE Broadcast  BY <1>5 DEF Broadcast
<1>6. CASE Join  BY <1>6 DEF Join
<1>7. CASE \E w \in Worker : Loop(w)  BY <1>7 DEF Loop
<1>8. CASE \E w \in Worker : CheckExiting(w)  BY <1>8 DEF CheckExiting
<1>9. CASE \E w \in Worker : WaitEmpty(w)  BY <1>9 DEF WaitEmpty
<1>10. CASE \E w \in Worker : Take(w)
  <2> SUFFICES ASSUME NEW w \in Worker, Take(w) PROVE InHand'
    BY <1>10
  <2>1. request_queue[out] \in Conn
    <3>1. Count \in 1 .. MaxRequests
      <4>1. Count = IF in >= out THEN in - out ELSE in - out + MaxRequests + 1
        BY AheadOf DEF Count
      <4>2. in # out /\ Count \in 0 .. MaxRequests
        BY AheadOf DEF Take, IsEmpty, Count
      <4> QED BY <4>1, <4>2 DEF Slots
    <3>2. Buffer[1] = request_queue[out]
      BY <3>1, SlotOf DEF Buffer, Slots
    <3> QED BY <3>1, <3>2 DEF Filled
  <2> QED BY <2>1 DEF Take, WokenByTake, OldestSlot
<1>11. CASE \E p \in Thread : Lock(p)  BY <1>11 DEF Lock
<1>12. CASE \E p \in Thread : Serve(p)  BY <1>12 DEF Serve
<1>13. CASE \E p \in Thread : Spurious(p)  BY <1>13 DEF Spurious
<1>14. CASE UNCHANGED vars  BY <1>14 DEF vars
<1> QED BY <1>1, <1>2, <1>3, <1>4, <1>5, <1>6, <1>7, <1>8, <1>9, <1>10, <1>11,
           <1>12, <1>13, <1>14 DEF Next

-----------------------------------------------------------------------------
(* What the steps do to the buffer the ring stands for.                     *)
LEMMA RingUnchanged ==
  ASSUME UNCHANGED ring
  PROVE  UNCHANGED <<Count, Buffer>>
BY DEF ring, Count, Buffer

(* Put fills the slot after the last one that is read.                      *)
LEMMA PutRing ==
  ASSUME IInv, QTypeOK', Put
  PROVE  /\ Count' = Count + 1 /\ Count \in 0 .. MaxRequests - 1
         /\ \A i \in 1 .. Count : Buffer'[i] = Buffer[i]
         /\ Buffer'[Count + 1] = connfd[Main]
<1>1. QTypeOK /\ in \in Slots /\ out \in Slots /\ MaxRequests \in Nat \ {0}
  BY QueueAssumption DEF IInv, QTypeOK
<1>2. /\ in' = IF in = MaxRequests THEN 0 ELSE in + 1
      /\ out' = out /\ in' \in Slots
      /\ request_queue' = [request_queue EXCEPT ![in] = connfd[Main]]
      /\ Count # MaxRequests
  BY <1>1, NextOf DEF Put, IsFull
<1>3. /\ Count = IF in >= out THEN in - out ELSE in - out + MaxRequests + 1
      /\ Count' = IF in' >= out THEN in' - out ELSE in' - out + MaxRequests + 1
      /\ Count \in 0 .. MaxRequests
  BY <1>1, <1>2, AheadOf DEF Count
<1>4. Count' = Count + 1 /\ Count \in 0 .. MaxRequests - 1
  BY <1>1, <1>2, <1>3 DEF Slots
<1>5. \A i \in 1 .. Count + 1 : Buffer'[i] = request_queue'[(out + i - 1) % (MaxRequests + 1)]
  BY <1>2, <1>4 DEF Buffer
<1>6. \A i \in 1 .. Count : Buffer[i] = request_queue[(out + i - 1) % (MaxRequests + 1)]
  BY DEF Buffer
<1>7. ASSUME NEW i \in 1 .. Count
      PROVE  (out + i - 1) % (MaxRequests + 1) \in Slots \ {in}
  <2>1. i \in 1 .. MaxRequests + 1
    BY <1>1, <1>4
  <2> QED BY <1>1, <1>3, <1>4, <2>1, SlotOf DEF Slots
<1>8. (out + (Count + 1) - 1) % (MaxRequests + 1) = in
  <2>1. Count + 1 \in 1 .. MaxRequests + 1
    BY <1>1, <1>4
  <2> QED BY <1>1, <1>3, <1>4, <2>1, SlotOf DEF Slots
<1>9. request_queue \in [Slots -> Conn \cup {NULL}]
  BY <1>1 DEF QTypeOK
<1>10. \A i \in 1 .. Count : Buffer'[i] = Buffer[i]
  <2> TAKE i \in 1 .. Count
  <2>1. i \in 1 .. Count + 1
    BY <1>4
  <2>2. Buffer'[i] = request_queue'[(out + i - 1) % (MaxRequests + 1)]
    BY <1>5, <2>1
  <2>3. (out + i - 1) % (MaxRequests + 1) \in Slots \ {in}
    BY <1>7
  <2>4. Buffer[i] = request_queue[(out + i - 1) % (MaxRequests + 1)]
    BY <1>6
  <2> HIDE DEF Buffer
  <2> QED BY <1>2, <1>9, <2>2, <2>3, <2>4
<1>11. Buffer'[Count + 1] = connfd[Main]
  BY <1>1, <1>2, <1>4, <1>5, <1>8, <1>9
<1> QED BY <1>4, <1>10, <1>11

(* Take leaves the slots behind the first one.                              *)
LEMMA TakeRing ==
  ASSUME IInv, QTypeOK', NEW w \in Worker, Take(w)
  PROVE  /\ Count' = Count - 1 /\ Count \in 1 .. MaxRequests
         /\ \A i \in 1 .. Count - 1 : Buffer'[i] = Buffer[i + 1]
         /\ Buffer[1] = request_queue[out]
<1>1. QTypeOK /\ in \in Slots /\ out \in Slots /\ MaxRequests \in Nat \ {0}
  BY QueueAssumption DEF IInv, QTypeOK
<1>2. /\ out' = IF out = MaxRequests THEN 0 ELSE out + 1
      /\ in' = in /\ out' \in Slots /\ request_queue' = request_queue
      /\ in # out
  BY <1>1, NextOf DEF Take, IsEmpty
<1>3. /\ Count = IF in >= out THEN in - out ELSE in - out + MaxRequests + 1
      /\ Count' = IF in >= out' THEN in - out' ELSE in - out' + MaxRequests + 1
      /\ Count \in 0 .. MaxRequests
  BY <1>1, <1>2, AheadOf DEF Count
<1>4. Count' = Count - 1 /\ Count \in 1 .. MaxRequests
  BY <1>1, <1>2, <1>3 DEF Slots
<1>5. ASSUME NEW i \in 1 .. Count - 1
      PROVE  Buffer'[i] = Buffer[i + 1]
  <2>1. i \in 1 .. MaxRequests + 1 /\ i + 1 \in 1 .. MaxRequests + 1 /\ i + 1 \in 1 .. Count
    BY <1>1, <1>4
  <2>2. Buffer'[i] = request_queue[(out' + i - 1) % (MaxRequests + 1)]
    BY <1>2, <1>4, <2>1 DEF Buffer
  <2>3. Buffer[i + 1] = request_queue[(out + (i + 1) - 1) % (MaxRequests + 1)]
    BY <2>1 DEF Buffer
  <2>4. (out' + i - 1) % (MaxRequests + 1) = (out + (i + 1) - 1) % (MaxRequests + 1)
    <3>1. (out' + i - 1) % (MaxRequests + 1)
            = IF out' + i - 1 <= MaxRequests THEN out' + i - 1 ELSE out' + i - 2 - MaxRequests
      BY <1>2, <2>1, SlotOf
    <3>2. (out + (i + 1) - 1) % (MaxRequests + 1)
            = IF out + (i + 1) - 1 <= MaxRequests THEN out + (i + 1) - 1
              ELSE out + (i + 1) - 2 - MaxRequests
      BY <1>1, <2>1, SlotOf
    <3> QED BY <1>1, <1>2, <1>4, <2>1, <3>1, <3>2 DEF Slots
  <2> QED BY <2>2, <2>3, <2>4
<1>6. Buffer[1] = request_queue[out]
  <2>1. 1 \in 1 .. MaxRequests + 1 /\ 1 \in 1 .. Count
    BY <1>1, <1>4
  <2>2. (out + 1 - 1) % (MaxRequests + 1) = out
    BY <1>1, <2>1, SlotOf DEF Slots
  <2> QED BY <2>1, <2>2 DEF Buffer
<1> QED BY <1>4, <1>5, <1>6

(* Every request in the buffer is one that main put there.                  *)
LEMMA FilledPreserved ==
  ASSUME IInv, QTypeOK', [Next]_vars
  PROVE  Filled'
<1>1. CASE Put
  <2>1. connfd[Main] \in Conn
    BY <1>1 DEF IInv, InHand, QTypeOK, Put, Thread
  <2>2. ASSUME NEW i \in 1 .. Count'
        PROVE  Buffer'[i] \in Conn
    <3>1. i \in 1 .. Count \/ i = Count + 1
      BY <1>1, PutRing
    <3> QED BY <1>1, <2>1, <3>1, PutRing DEF IInv, Filled
  <2> QED BY <2>2 DEF Filled
<1>2. CASE \E w \in Worker : Take(w)
  <2>1. PICK w \in Worker : Take(w)
    BY <1>2
  <2>2. ASSUME NEW i \in 1 .. Count'
        PROVE  Buffer'[i] \in Conn
    <3>1. i \in 1 .. Count - 1 /\ i + 1 \in 1 .. Count
      BY <2>1, TakeRing
    <3> QED BY <2>1, <3>1, TakeRing DEF IInv, Filled
  <2> QED BY <2>2 DEF Filled
<1>3. CASE UNCHANGED ring
  BY <1>3, RingUnchanged DEF IInv, Filled
<1>4. Put \/ (\E w \in Worker : Take(w)) \/ UNCHANGED ring
  BY DEF Next, vars, ring, Accept, WaitFull, Exit, Broadcast, Join, Loop, CheckExiting,
         WaitEmpty, Lock, Serve, Spurious
<1> QED BY <1>1, <1>2, <1>3, <1>4

(* main is the only thread that waits for room, and any Take wakes it.      *)
LEMMA FullPreserved ==
  ASSUME IInv, [Next]_vars
  PROVE  SleepsOnlyWhenFull'
<1> USE DEF SleepsOnlyWhenFull, IInv
<1>1. CASE Put
  <2>1. full = {}
    BY <1>1, QueueAssumption DEF Put, OneInCriticalSection, QTypeOK, Thread
  <2> QED BY <1>1, <2>1 DEF Put
<1>2. CASE \E w \in Worker : Take(w)
  BY <1>2 DEF Take, WokenByTake
<1>3. CASE WaitFull
  BY <1>3, RingUnchanged DEF WaitFull, IsFull
<1>4. CASE UNCHANGED ring /\ full' \subseteq full
  BY <1>4, RingUnchanged DEF IsFull
<1>5. Put \/ WaitFull \/ (\E w \in Worker : Take(w)) \/ (UNCHANGED ring /\ full' \subseteq full)
  BY DEF Next, vars, ring, Accept, Exit, Broadcast, Join, Loop, CheckExiting,
         WaitEmpty, Lock, Serve, Spurious
<1> QED BY <1>1, <1>2, <1>3, <1>4, <1>5

(* The workers heading for the buffer, step by step.                        *)
LEMMA HeadingFinite ==
  /\ IsFiniteSet(Heading) /\ Cardinality(Heading) \in Nat
  /\ IsFiniteSet(Heading') /\ Cardinality(Heading') \in Nat
<1>1. Heading \subseteq Worker /\ Heading' \subseteq Worker
  BY DEF Heading
<1> QED BY <1>1, QueueAssumption, FS_Subset, FS_CardinalityType

LEMMA ForgottenPreserved ==
  ASSUME IInv, QTypeOK', [Next]_vars
  PROVE  NoRequestForgotten'
<1> USE QueueAssumption
<1>1. QTypeOK /\ OneInCriticalSection /\ Labels /\ NoRequestForgotten
  BY DEF IInv
<1>2. Count \in 0 .. MaxRequests /\ (IsEmpty => Count = 0)
  <2>1. in \in Slots /\ out \in Slots
    BY <1>1 DEF QTypeOK
  <2>2. /\ Ahead(in, out) = IF in >= out THEN in - out ELSE in - out + MaxRequests + 1
        /\ Ahead(in, out) \in 0 .. MaxRequests
    BY <2>1, AheadOf
  <2> QED BY <2>1, <2>2 DEF Count, IsEmpty, Slots
<1>3. ASSUME UNCHANGED ring, empty' # {}, empty # {}, Heading \subseteq Heading'
      PROVE  NoRequestForgotten'
  <2>1. Cardinality(Heading) <= Cardinality(Heading')
    BY <1>3, HeadingFinite, FS_Subset
  <2> QED BY <1>1, <1>2, <1>3, <2>1, RingUnchanged, HeadingFinite DEF NoRequestForgotten
<1>4. ASSUME UNCHANGED ring, IsEmpty
      PROVE  NoRequestForgotten'
  BY <1>2, <1>4, RingUnchanged, HeadingFinite DEF NoRequestForgotten
<1>5. CASE Put
  <2>1. CASE empty = {}
    BY <1>5, <2>1 DEF Put, SignalEmpty, NoRequestForgotten
  <2>2. CASE empty # {}
    <3>1. PICK w \in empty : pc' = [pc EXCEPT ![w] = "lock", ![Main] = "poll"]
      BY <1>5, <2>2 DEF Put, SignalEmpty
    <3>2. w \in Worker /\ w # Main /\ w \notin Heading
      BY <1>1, <3>1 DEF QTypeOK, OneInCriticalSection, Heading, Thread
    <3>3. Heading' = Heading \cup {w}
      BY <1>1, <3>1, <3>2 DEF Heading, QTypeOK, Thread
    <3>4. Cardinality(Heading') = Cardinality(Heading) + 1
      BY <3>2, <3>3, HeadingFinite, FS_AddElement
    <3>5. Count' = Count + 1
      BY <1>5, PutRing
    <3> QED BY <1>1, <1>2, <2>2, <3>4, <3>5, HeadingFinite DEF NoRequestForgotten
  <2> QED BY <2>1, <2>2
<1>6. CASE \E w \in Worker : Take(w)
  <2>1. PICK w \in Worker : Take(w)
    BY <1>6
  <2>2. w \in Heading
    BY <2>1 DEF Take, Heading
  <2>3. Heading' = Heading \ {w}
    BY <1>1, <2>1 DEF Take, Heading, WokenByTake, QTypeOK, Thread
  <2>4. Cardinality(Heading') = Cardinality(Heading) - 1
    BY <2>2, <2>3, HeadingFinite, FS_RemoveElement
  <2>5. Count' = Count - 1 /\ empty' = empty
    BY <2>1, TakeRing DEF Take
  <2> QED BY <1>1, <1>2, <2>4, <2>5, HeadingFinite DEF NoRequestForgotten
<1>7. CASE \E w \in Worker : CheckExiting(w)
  BY <1>4, <1>7 DEF CheckExiting
<1>8. CASE \E w \in Worker : WaitEmpty(w)
  BY <1>1, <1>4, <1>8 DEF WaitEmpty, OneInCriticalSection, Thread
<1>9. CASE Broadcast
  BY <1>9 DEF Broadcast, NoRequestForgotten
<1>10. CASE UNCHANGED ring /\ empty' \subseteq empty /\ Heading \subseteq Heading'
  <2>1. CASE empty' = {}
    BY <2>1 DEF NoRequestForgotten
  <2>2. CASE empty' # {}
    BY <1>3, <1>10, <2>2
  <2> QED BY <2>1, <2>2
<1> USE DEF Heading, Goto, Thread, QTypeOK, ring, Labels
<1>11. CASE \E c \in Conn : Accept(c)  BY <1>1, <1>10, <1>11 DEF Accept
<1>12. CASE WaitFull  BY <1>1, <1>10, <1>12 DEF WaitFull
<1>13. CASE Exit  BY <1>1, <1>10, <1>13 DEF Exit
<1>14. CASE Join  BY <1>1, <1>10, <1>14 DEF Join
<1>15. CASE \E w \in Worker : Loop(w)  BY <1>1, <1>10, <1>15 DEF Loop
<1>16. CASE \E p \in Thread : Lock(p)  BY <1>1, <1>10, <1>16 DEF Lock
<1>17. CASE \E p \in Thread : Serve(p)  BY <1>1, <1>10, <1>17 DEF Serve
<1>18. CASE \E p \in Thread : Spurious(p)  BY <1>1, <1>10, <1>18 DEF Spurious
<1>19. CASE UNCHANGED vars  BY <1>1, <1>10, <1>19 DEF vars
<1> QED BY <1>5, <1>6, <1>7, <1>8, <1>9, <1>11, <1>12, <1>13, <1>14, <1>15, <1>16,
           <1>17, <1>18, <1>19 DEF Next

-----------------------------------------------------------------------------
THEOREM Invariance == Spec => []IInv
<1>1. Init => IInv
  <2> SUFFICES ASSUME Init PROVE IInv
    OBVIOUS
  <2>1. QTypeOK /\ Labels /\ OneInCriticalSection /\ SleepsOnlyWhenFull /\ InHand
    BY QueueAssumption DEF Init, QTypeOK, Labels, OneInCriticalSection, SleepsOnlyWhenFull,
       InHand, Slots, Thread, Label
  <2>2. Count = 0
    BY AheadOf, QueueAssumption DEF Count, Init, Slots
  <2> QED BY <2>1, <2>2 DEF IInv, NoRequestForgotten, Filled, Init
<1>2. IInv /\ [Next]_vars => IInv'
  <2> SUFFICES ASSUME IInv, [Next]_vars PROVE IInv'
    OBVIOUS
  <2>1. QTypeOK' /\ Labels' /\ OneInCriticalSection'
    BY TypePreserved, ExclusionPreserved DEF IInv
  <2> QED BY <2>1, InHandPreserved, FilledPreserved, FullPreserved, ForgottenPreserved
          DEF IInv
<1> QED BY <1>1, <1>2, PTL DEF Spec

(* The ring, the locks and the threads never hold what they should not, and *)
(* the ring positions stay inside the ring for every max_requests > 0.      *)
THEOREM QueueTyped == Spec => []QTypeOK
BY Invariance, PTL DEF IInv

(* A thread between pthread_mutex_lock and its unlock or wait is alone.     *)
THEOREM Exclusion == Spec => []OneInCriticalSection
BY Invariance, PTL DEF IInv

(* However many workers there are and however large the ring is, workers    *)
(* that sleep leave no request without a worker on its way to it.           *)
THEOREM NoneForgotten == Spec => []NoRequestForgotten
BY Invariance, PTL DEF IInv

(* The listener is blocked in server_request only while the buffer is full. *)
THEOREM ListenerBlocksWhenFull == Spec => []SleepsOnlyWhenFull
BY Invariance, PTL DEF IInv

(* No wakeup is lost in either direction.                                   *)
THEOREM WakeupsArrive == Spec => []NoLostWakeup
<1>1. NoRequestForgotten /\ SleepsOnlyWhenFull => NoLostWakeup
  BY DEF NoLostWakeup
<1>2. QED
  BY <1>1, NoneForgotten, ListenerBlocksWhenFull, PTL

-----------------------------------------------------------------------------
(* Who has which descriptor, told in terms of the buffer.                   *)
Distinct == \A p, q \in Thread : p # q /\ connfd[p] = connfd[q] => connfd[p] = NULL
NotSaved == \A p \in Thread : \A i \in 1 .. Count : connfd[p] # Buffer[i]
SavedOnce == \A i, j \in 1 .. Count : Buffer[i] = Buffer[j] => i = j

OwnerInv == Distinct /\ NotSaved /\ SavedOnce

(* Queued, which is read off the slots, is what Buffer holds.               *)
LEMMA QueuedIsBuffer ==
  ASSUME QTypeOK
  PROVE  Queued = {Buffer[i] : i \in 1 .. Count}
<1>1. in \in Slots /\ out \in Slots /\ MaxRequests \in Nat \ {0}
  BY QueueAssumption DEF QTypeOK
<1>2. Count \in 0 .. MaxRequests
  BY <1>1, AheadOf DEF Count
<1>3. ASSUME NEW j \in Slots, Ahead(j, out) < Count
      PROVE  \E i \in 1 .. Count : Buffer[i] = request_queue[j]
  <2> DEFINE i == Ahead(j, out) + 1
  <2>1. /\ Ahead(j, out) = IF j >= out THEN j - out ELSE j - out + MaxRequests + 1
        /\ Ahead(j, out) \in 0 .. MaxRequests
    BY <1>1, AheadOf
  <2>2. i \in 1 .. MaxRequests + 1 /\ i \in 1 .. Count
    BY <1>1, <1>2, <1>3, <2>1
  <2>3. (out + i - 1) % (MaxRequests + 1)
          = IF out + i - 1 <= MaxRequests THEN out + i - 1 ELSE out + i - 2 - MaxRequests
    BY <1>1, <2>2, SlotOf
  <2>4. (out + i - 1) % (MaxRequests + 1) = j
    BY <1>1, <2>1, <2>3 DEF Slots
  <2> HIDE DEF i
  <2>5. Buffer[i] = request_queue[j]
    BY <2>2, <2>4 DEF Buffer
  <2> QED BY <2>2, <2>5
<1>4. ASSUME NEW i \in 1 .. Count
      PROVE  \E j \in Slots : Ahead(j, out) < Count /\ request_queue[j] = Buffer[i]
  <2> DEFINE j == (out + i - 1) % (MaxRequests + 1)
  <2>1. i \in 1 .. MaxRequests + 1
    BY <1>1, <1>2
  <2>2. /\ j = IF out + i - 1 <= MaxRequests THEN out + i - 1 ELSE out + i - 2 - MaxRequests
        /\ j \in Slots
    BY <1>1, <2>1, SlotOf
  <2>3. Buffer[i] = request_queue[j]
    BY DEF Buffer
  <2> HIDE DEF j
  <2>4. Ahead(j, out) = IF j >= out THEN j - out ELSE j - out + MaxRequests + 1
    BY <1>1, <2>2, AheadOf
  <2>5. Ahead(j, out) = i - 1
    BY <1>1, <2>1, <2>2, <2>4 DEF Slots
  <2>6. i - 1 < Count
    BY <1>2
  <2> QED BY <2>2, <2>3, <2>5, <2>6
<1> HIDE DEF Buffer
<1> QED BY <1>3, <1>4 DEF Queued

LEMMA OwnerPreserved == IInv /\ IInv' /\ OwnerInv /\ [Next]_vars => OwnerInv'
<1> SUFFICES ASSUME IInv, IInv', OwnerInv, [Next]_vars PROVE OwnerInv'
  OBVIOUS
<1>1. /\ QTypeOK /\ QTypeOK' /\ connfd \in [Thread -> Conn \cup {NULL}]
      /\ Main \in Thread /\ Main \notin Worker /\ Worker \subseteq Thread /\ NULL \notin Conn
  BY QueueAssumption DEF IInv, QTypeOK, Thread
<1>2. /\ Count \in 0 .. MaxRequests /\ Count' \in 0 .. MaxRequests /\ MaxRequests \in Nat
      /\ \A i \in 1 .. Count : Buffer[i] \in Conn
      /\ \A i \in 1 .. Count' : Buffer'[i] \in Conn
  <2>1. Count \in 0 .. MaxRequests /\ Count' \in 0 .. MaxRequests
    BY <1>1, AheadOf DEF QTypeOK, Count
  <2> QED BY <2>1, QueueAssumption DEF IInv, Filled
<1> HIDE DEF Buffer, Count
<1>3. ASSUME UNCHANGED ring, \A p \in Thread : connfd'[p] = connfd[p] \/ connfd'[p] = NULL
      PROVE  OwnerInv'
  <2>1. Count' = Count /\ Buffer' = Buffer
    BY <1>3, RingUnchanged
  <2> QED BY <1>1, <1>2, <1>3, <2>1 DEF OwnerInv, Distinct, NotSaved, SavedOnce
<1>4. ASSUME NEW c \in Conn, Accept(c)
      PROVE  OwnerInv'
  <2>1. Count' = Count /\ Buffer' = Buffer /\ connfd' = [connfd EXCEPT ![Main] = c]
    BY <1>4, RingUnchanged DEF Accept
  <2>2. (\A i \in 1 .. Count : c # Buffer[i]) /\ \A p \in Thread : c # connfd[p]
    BY <1>1, <1>4, QueuedIsBuffer DEF Accept, Open
  <2> QED BY <1>1, <1>2, <2>1, <2>2 DEF OwnerInv, Distinct, NotSaved, SavedOnce
<1>5. CASE Put
  <2>1. /\ Count' = Count + 1
        /\ \A i \in 1 .. Count : Buffer'[i] = Buffer[i]
        /\ Buffer'[Count + 1] = connfd[Main]
    BY <1>1, <1>5, PutRing
  <2>2. connfd[Main] # NULL /\ connfd' = [connfd EXCEPT ![Main] = NULL]
    BY <1>5 DEF Put, IInv, InHand
  <2>3. \A i \in 1 .. Count' : i \in 1 .. Count \/ i = Count + 1
    BY <1>2, <2>1
  <2>4. SavedOnce'
    BY <2>1, <2>3, <1>1, <1>2 DEF OwnerInv, NotSaved, SavedOnce
  <2>5. NotSaved'
    <3>1. SUFFICES ASSUME NEW p \in Thread, NEW i \in 1 .. Count'
                   PROVE  connfd'[p] # Buffer'[i]
      BY DEF NotSaved
    <3>2. CASE p = Main
      BY <3>2, <1>1, <1>2, <2>2
    <3>3. CASE p # Main
      <4>1. connfd'[p] = connfd[p]
        BY <3>3, <1>1, <2>2
      <4>2. CASE i \in 1 .. Count
        BY <4>1, <4>2, <2>1 DEF OwnerInv, NotSaved
      <4>3. CASE i = Count + 1
        BY <4>1, <4>3, <3>3, <1>1, <2>1, <2>2 DEF OwnerInv, Distinct
      <4> QED BY <4>2, <4>3, <2>3
    <3> QED BY <3>2, <3>3
  <2>6. Distinct'
    BY <1>1, <2>2 DEF OwnerInv, Distinct
  <2> QED BY <2>4, <2>5, <2>6 DEF OwnerInv
<1>6. ASSUME NEW w \in Worker, Take(w)
      PROVE  OwnerInv'
  <2>1. /\ Count' = Count - 1 /\ Count \in 1 .. MaxRequests
        /\ \A i \in 1 .. Count - 1 : Buffer'[i] = Buffer[i + 1]
        /\ Buffer[1] = request_queue[out]
    BY <1>1, <1>6, TakeRing
  <2>2. connfd' = [connfd EXCEPT ![w] = Buffer[1]]
    BY <1>6, <2>1 DEF Take, OldestSlot
  <2>3. /\ 1 \in 1 .. Count
        /\ \A i \in 1 .. Count' : i + 1 \in 1 .. Count /\ i + 1 # 1 /\ Buffer'[i] = Buffer[i + 1]
    BY <1>2, <2>1
  <2>4. SavedOnce'
    <3>1. SUFFICES ASSUME NEW i \in 1 .. Count', NEW j \in 1 .. Count', Buffer'[i] = Buffer'[j]
                   PROVE  i = j
      BY DEF SavedOnce
    <3>2. i + 1 = j + 1
      BY <3>1, <2>3 DEF OwnerInv, SavedOnce
    <3> QED BY <3>2, <1>2
  <2>5. NotSaved' /\ Distinct'
    BY <1>1, <2>2, <2>3 DEF OwnerInv, NotSaved, Distinct, SavedOnce
  <2> QED BY <2>4, <2>5 DEF OwnerInv
<1>7. \/ \E c \in Conn : Accept(c)
      \/ Put \/ \E w \in Worker : Take(w)
      \/ UNCHANGED ring /\ \A p \in Thread : connfd'[p] = connfd[p] \/ connfd'[p] = NULL
  BY <1>1 DEF Next, vars, ring, WaitFull, Exit, Broadcast, Join, Loop, CheckExiting,
         WaitEmpty, Lock, Serve, Spurious
<1> QED BY <1>3, <1>4, <1>5, <1>6, <1>7

(* A descriptor is saved once or in one thread's hands, and never both: no  *)
(* request is served twice and no descriptor is closed twice, whatever the  *)
(* number of workers and the size of the ring.                              *)
THEOREM EachRequestOnce == Spec => []OneOwner
<1>1. Init => OwnerInv
  <2> SUFFICES ASSUME Init PROVE OwnerInv
    OBVIOUS
  <2>1. Count = 0
    BY AheadOf, QueueAssumption DEF Count, Init, Slots
  <2> QED BY <2>1 DEF Init, OwnerInv, Distinct, NotSaved, SavedOnce
<1>2. IInv /\ OwnerInv => OneOwner
  <2> SUFFICES ASSUME IInv, OwnerInv PROVE OneOwner
    OBVIOUS
  <2>1. Queued = {Buffer[i] : i \in 1 .. Count} /\ Count \in 0 .. MaxRequests
    BY QueuedIsBuffer, AheadOf DEF IInv, QTypeOK, Count
  <2>2. \A p \in Thread : connfd[p] \notin Queued
    BY <2>1 DEF OwnerInv, NotSaved
  <2>3. Cardinality(Queued) = Count
    <3>1. Buffer \in Bijection(1 .. Count, Queued)
      <4>1. Buffer \in [1 .. Count -> Queued]
        BY <2>1 DEF Buffer
      <4> HIDE DEF Buffer
      <4>2. \A i, j \in 1 .. Count : Buffer[i] = Buffer[j] => i = j
        BY DEF OwnerInv, SavedOnce
      <4>3. \A c \in Queued : \E i \in 1 .. Count : Buffer[i] = c
        BY <2>1
      <4>4. Buffer \in Injection(1 .. Count, Queued) /\ Buffer \in Surjection(1 .. Count, Queued)
        BY <4>1, <4>2, <4>3 DEF Injection, Surjection, IsInjective
      <4> QED BY <4>4 DEF Bijection
    <3>2. ExistsBijection(1 .. Count, Queued)
      BY <3>1 DEF ExistsBijection
    <3>3. Count \in Nat
      BY <2>1, QueueAssumption
    <3> QED BY <3>2, <3>3, FS_CountingElements
  <2> QED BY <2>2, <2>3 DEF OneOwner, OwnerInv, Distinct
<1> QED BY <1>1, <1>2, OwnerPreserved, Invariance, PTL DEF Spec

(* One thread at a time on the ring, and one thread for each descriptor.    *)
THEOREM OneAtATime == Spec => []Exclusive
<1>1. OneInCriticalSection /\ OneOwner => Exclusive
  BY DEF Exclusive
<1>2. QED
  BY <1>1, Exclusion, EachRequestOnce, PTL

-----------------------------------------------------------------------------
LEMMA TailOf ==
  ASSUME NEW S, NEW s \in Seq(S), s # <<>>
  PROVE  Tail(s) = [i \in 1 .. Len(s) - 1 |-> s[i + 1]]
<1> DEFINE t == [i \in 1 .. Len(s) - 1 |-> s[i + 1]]
<1>1. /\ Tail(s) \in Seq(S) /\ Len(Tail(s)) = Len(s) - 1
      /\ \A i \in 1 .. Len(Tail(s)) : Tail(s)[i] = s[i + 1]
  BY HeadTailProperties
<1>2. Len(s) \in Nat /\ Len(s) - 1 \in Nat /\ \A i \in 1 .. Len(s) - 1 : s[i + 1] \in S
  <2>1. Len(s) \in Nat /\ Len(s) # 0
    OBVIOUS
  <2> QED BY <2>1
<1>3. t \in Seq(S) /\ Len(t) = Len(s) - 1
  BY <1>2
<1>4. \A i \in 1 .. Len(Tail(s)) : Tail(s)[i] = t[i]
  BY <1>1, <1>2
<1> HIDE DEF t
<1>5. Tail(s) = t
  BY <1>1, <1>3, <1>4, SeqEqual
<1> QED BY <1>5 DEF t

LEMMA BufferIsSeq ==
  ASSUME IInv
  PROVE  Buffer \in Seq(Conn) /\ Len(Buffer) = Count /\ Count \in 0 .. MaxRequests
<1>1. Count \in 0 .. MaxRequests
  BY AheadOf DEF IInv, QTypeOK, Count
<1>2. Buffer \in [1 .. Count -> Conn]
  BY DEF IInv, Filled, Buffer
<1> HIDE DEF Buffer
<1> QED BY <1>1, <1>2, QueueAssumption

(* The steps that leave the abstract buffer alone.                          *)
LEMMA BufferStutters ==
  ASSUME UNCHANGED ring, \A w \in Worker : connfd'[w] = connfd[w]
  PROVE  UNCHANGED <<Buffer, [w \in Worker |-> connfd[w]]>>
BY RingUnchanged

LEMMA StepImplements ==
  ASSUME IInv, IInv', [Next]_vars
  PROVE  [Buf!Next]_<<Buffer, [w \in Worker |-> connfd[w]]>>
<1> DEFINE serving == [w \in Worker |-> connfd[w]]
<1> USE QueueAssumption
<1>0. QTypeOK /\ QTypeOK' /\ InHand /\ Labels /\ (connfd \in [Thread -> Conn \cup {NULL}])
  BY DEF IInv, QTypeOK
<1>1. CASE Put
  <2>1. connfd[Main] \in Conn
    BY <1>0, <1>1 DEF InHand, Put, Thread
  <2>2. Len(Buffer) < MaxRequests /\ Count' = Count + 1
    BY <1>0, <1>1, BufferIsSeq, PutRing
  <2>3. Buffer' = Append(Buffer, connfd[Main])
    <3>1. /\ Buffer' = [i \in 1 .. Count + 1 |-> Buffer'[i]]
          /\ Buffer = [i \in 1 .. Count |-> Buffer[i]]
      BY <2>2 DEF Buffer
    <3>2. \A i \in 1 .. Count : Buffer'[i] = Buffer[i]
      BY <1>0, <1>1, PutRing
    <3>3. Buffer'[Count + 1] = connfd[Main]
      BY <1>0, <1>1, PutRing
    <3>4. Buffer \in Seq(Conn) /\ Len(Buffer) = Count /\ Count \in Nat
      BY BufferIsSeq, QueueAssumption
    <3>5. Append(Buffer, connfd[Main])
            = [i \in 1 .. Count + 1 |-> IF i = Count + 1 THEN connfd[Main] ELSE Buffer[i]]
      <4> HIDE DEF Buffer
      <4> QED BY <3>4, <2>1
    <3> HIDE DEF Buffer
    <3>6. \A i \in 1 .. Count + 1 :
            Buffer'[i] = IF i = Count + 1 THEN connfd[Main] ELSE Buffer[i]
      BY <3>2, <3>3, <3>4
    <3> QED BY <3>1, <3>5, <3>6
  <2>4. serving' = serving
    BY <1>0, <1>1 DEF Put, Thread
  <2>5. Buf!Put(connfd[Main])
    BY <2>2, <2>3, <2>4 DEF Buf!Put
  <2> QED BY <2>1, <2>5 DEF Buf!Next
<1>2. CASE \E w \in Worker : Take(w)
  <2>1. PICK w \in Worker : Take(w)
    BY <1>2
  <2>2. /\ Count' = Count - 1 /\ Count \in 1 .. MaxRequests
        /\ \A i \in 1 .. Count - 1 : Buffer'[i] = Buffer[i + 1]
        /\ Buffer[1] = request_queue[out]
    BY <1>0, <2>1, TakeRing
  <2>3. Buffer \in Seq(Conn) /\ Len(Buffer) = Count
    BY BufferIsSeq
  <2>4. Buffer' = Tail(Buffer) /\ Head(Buffer) = request_queue[out] /\ Buffer # <<>>
    <3>1. Buffer' = [i \in 1 .. Count - 1 |-> Buffer'[i]]
      BY <2>2 DEF Buffer
    <3> HIDE DEF Buffer
    <3>2. Tail(Buffer) = [i \in 1 .. Count - 1 |-> Buffer[i + 1]]
      BY <2>2, <2>3, TailOf
    <3>3. Buffer' = Tail(Buffer)
      BY <2>2, <3>1, <3>2
    <3> QED BY <2>2, <2>3, <3>3
  <2>5. serving[w] = NULL
    BY <1>0, <2>1 DEF InHand, Take
  <2>6. serving' = [serving EXCEPT ![w] = request_queue[out]]
    BY <1>0, <2>1 DEF Take, OldestSlot, Thread
  <2>7. Buf!Take(w)
    BY <2>4, <2>5, <2>6 DEF Buf!Take
  <2> QED BY <2>7 DEF Buf!Next
<1>3. CASE \E p \in Thread : Serve(p)
  <2>1. PICK p \in Thread : Serve(p)
    BY <1>3
  <2>2. UNCHANGED Buffer
    BY <2>1, RingUnchanged DEF Serve
  <2>3. CASE p = Main
    BY <1>0, <2>1, <2>2, <2>3 DEF Serve, Thread
  <2>4. CASE p \in Worker
    <3>1. serving[p] # NULL
      BY <1>0, <2>1, <2>4 DEF InHand, Serve
    <3>2. serving' = [serving EXCEPT ![p] = NULL]
      BY <1>0, <2>1, <2>4 DEF Serve, Thread
    <3> QED BY <2>2, <2>4, <3>1, <3>2 DEF Buf!Finish, Buf!Next
  <2> QED BY <2>3, <2>4 DEF Thread
<1>4. CASE UNCHANGED ring /\ \A w \in Worker : connfd'[w] = connfd[w]
  BY <1>4, BufferStutters
<1>5. \/ Put \/ (\E w \in Worker : Take(w)) \/ (\E p \in Thread : Serve(p))
      \/ (UNCHANGED ring /\ \A w \in Worker : connfd'[w] = connfd[w])
  BY <1>0 DEF Next, vars, ring, Accept, WaitFull, Exit, Broadcast, Join, Loop, CheckExiting,
         WaitEmpty, Lock, Spurious, Thread
<1> QED BY <1>1, <1>2, <1>3, <1>4, <1>5

(* The ring, its mutex and its condition variables implement the bounded    *)
(* first-in first-out buffer of requests that server_request promises.      *)
THEOREM Implements == Spec => ImplementsBuffer
<1>1. Init => Buf!Init
  <2> SUFFICES ASSUME Init PROVE Buf!Init
    OBVIOUS
  <2>1. Count = 0
    BY AheadOf, QueueAssumption DEF Count, Init, Slots
  <2>2. Buffer = <<>>
    BY <2>1 DEF Buffer
  <2>3. [w \in Worker |-> connfd[w]] = [w \in Worker |-> NULL]
    BY DEF Init, Thread
  <2> QED BY <2>2, <2>3 DEF Buf!Init
<1>2. IInv /\ IInv' /\ [Next]_vars => [Buf!Next]_<<Buffer, [w \in Worker |-> connfd[w]]>>
  BY StepImplements
<1> QED BY <1>1, <1>2, Invariance, PTL DEF Spec, ImplementsBuffer, Buf!Spec
=============================================================================
