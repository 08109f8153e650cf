------------------------------ MODULE FileCacheProofs -----------------------
(***************************************************************************)
(* Proofs about the file cache of webserver/server_thread.c.               *)
(*                                                                         *)
(* The invariant CInv says of the table, the counters and the list what    *)
(* stays true even when two workers insert the same file.  Most of the     *)
(* work is the list, which is then no longer the doubly linked list that   *)
(* its functions were written for.                                         *)
(*                                                                         *)
(* As long as no two workers read the same file at once (SpecDistinct) it  *)
(* is that list, and the invariant DInv of the second part says that the   *)
(* cache is a queue of files: they are on the list in the order they were  *)
(* inserted, each leads to its item in the table, and the total is what    *)
(* they add up to.                                                         *)
(***************************************************************************)
EXTENDS FileCache, QueueLemmas, FiniteSetTheorems

(* The LRU list.                                                            *)
(* An LRU node, and a sequence of len of them.                             *)
Node == [name : Name, next : Nat, prev : Nat]

Nodes(N, len) == N \in Seq(Node) /\ Len(N) = len

(* One pointer of one node is written; M is what it makes of the nodes N.  *)
SetNext(N, i, x) == [N EXCEPT ![i].next = x]
SetPrev(N, i, x) == [N EXCEPT ![i].prev = x]

WroteNext(M, N, len, i, x) ==
  /\ Nodes(M, len)
  /\ \A j \in 1 .. len : /\ M[j].name = N[j].name
                         /\ M[j].next = IF j = i THEN x ELSE N[j].next
                         /\ M[j].prev = N[j].prev

WrotePrev(M, N, len, i, x) ==
  /\ Nodes(M, len)
  /\ \A j \in 1 .. len : /\ M[j].name = N[j].name
                         /\ M[j].next = N[j].next
                         /\ M[j].prev = IF j = i THEN x ELSE N[j].prev

(* The assignment to next changes that pointer and nothing else.           *)
LEMMA NextWritten ==
  ASSUME NEW len \in Nat, NEW N, Nodes(N, len), NEW i \in 1 .. len, NEW x \in Nat,
         NEW M, M = SetNext(N, i, x)
  PROVE  WroteNext(M, N, len, i, x)
<1>1. N \in [1 .. len -> Node]
  BY LenProperties DEF Nodes
<1>2. [N[i] EXCEPT !.next = x] \in Node
  BY <1>1 DEF Node
<1>3. M = [N EXCEPT ![i] = [N[i] EXCEPT !.next = x]]
  BY DEF SetNext
<1>4. M \in [1 .. len -> Node]
  BY <1>1, <1>2, <1>3
<1>5. Nodes(M, len)
  BY <1>4 DEF Nodes
<1>6. ASSUME NEW j \in 1 .. len PROVE M[j] = IF j = i THEN [N[j] EXCEPT !.next = x] ELSE N[j]
  BY <1>1, <1>3
<1>7. \A j \in 1 .. len : N[j] \in Node
  BY <1>1
<1>8. QED
  BY <1>5, <1>6, <1>7 DEF Node, WroteNext

(* So does the assignment to prev.                                         *)
LEMMA PrevWritten ==
  ASSUME NEW len \in Nat, NEW N, Nodes(N, len), NEW i \in 1 .. len, NEW x \in Nat,
         NEW M, M = SetPrev(N, i, x)
  PROVE  WrotePrev(M, N, len, i, x)
<1>1. N \in [1 .. len -> Node]
  BY LenProperties DEF Nodes
<1>2. [N[i] EXCEPT !.prev = x] \in Node
  BY <1>1 DEF Node
<1>3. M = [N EXCEPT ![i] = [N[i] EXCEPT !.prev = x]]
  BY DEF SetPrev
<1>4. M \in [1 .. len -> Node]
  BY <1>1, <1>2, <1>3
<1>5. Nodes(M, len)
  BY <1>4 DEF Nodes
<1>6. ASSUME NEW j \in 1 .. len PROVE M[j] = IF j = i THEN [N[j] EXCEPT !.prev = x] ELSE N[j]
  BY <1>1, <1>3
<1>7. \A j \in 1 .. len : N[j] \in Node
  BY <1>1
<1>8. QED
  BY <1>5, <1>6, <1>7 DEF Node, WrotePrev

(* Every pointer is NULL or the address of a node (head may also say that  *)
(* the process is gone), and a list with a head has a tail.                *)
Pointers(L, len) ==
  /\ L = [node |-> L.node, head |-> L.head, tail |-> L.tail]
  /\ Nodes(L.node, len)
  /\ L.head \in -1 .. len /\ L.tail \in 0 .. len
  /\ \A k \in 1 .. len : L.node[k].next \in 0 .. len /\ L.node[k].prev \in 0 .. len
  /\ L.head > 0 => L.tail > 0

(* What enqueue does to every pointer of the list, field by field.         *)
LEMMA EnqueueLink ==
  ASSUME NEW len \in Nat, NEW L, Pointers(L, len), L.head # -1, NEW k \in 1 .. len,
         NEW E, E = Enqueue(L, k)
  PROVE  /\ Pointers(E, len)
         /\ E.head = (IF L.head = 0 THEN k ELSE L.head)
         /\ E.tail = k
         /\ \A j \in 1 .. len :
              /\ E.node[j].name = L.node[j].name
              /\ E.node[j].next =
                   IF j = k THEN 0 ELSE IF L.head # 0 /\ j = L.tail THEN k ELSE L.node[j].next
              /\ E.node[j].prev =
                   IF j # k THEN L.node[j].prev ELSE IF L.head = 0 THEN 0 ELSE L.tail
<1>0. 0 \in Nat /\ k \in Nat
  OBVIOUS
<1>1. PICK N, h, t : L = [node |-> N, head |-> h, tail |-> t]
  BY DEF Pointers
<1>2. L.node = N /\ L.head = h /\ L.tail = t
  BY <1>1
<1>3. /\ Nodes(N, len) /\ h \in 0 .. len /\ t \in 0 .. len /\ (h > 0 => t > 0)
      /\ \A j \in 1 .. len : N[j].next \in 0 .. len /\ N[j].prev \in 0 .. len
  BY <1>2 DEF Pointers
<1>4. CASE h = 0
  <2>1. PICK N1 : N1 = SetPrev(N, k, 0)
    OBVIOUS
  <2>2. PICK N2 : N2 = SetNext(N1, k, 0)
    OBVIOUS
  <2>3. E = [node |-> N2, head |-> k, tail |-> k]
    BY <1>1, <1>4, <2>1, <2>2 DEF Enqueue, SetNext, SetPrev
  <2>4. WrotePrev(N1, N, len, k, 0)
    BY <1>0, <1>3, <2>1, PrevWritten, Zenon
  <2>4n. Nodes(N1, len)
    BY <2>4 DEF WrotePrev
  <2>5. WroteNext(N2, N1, len, k, 0)
    BY <1>0, <2>2, <2>4n, NextWritten, Zenon
  <2>6. E.node = N2 /\ E.head = k /\ E.tail = k
    BY <2>3
  <2>7. Pointers(E, len)
    BY <1>3, <2>3, <2>4, <2>5, <2>6 DEF Pointers, WroteNext, WrotePrev
  <2>8. QED
    BY <1>2, <1>4, <2>4, <2>5, <2>6, <2>7 DEF WroteNext, WrotePrev
<1>5. CASE h # 0
  <2>0. t \in 1 .. len /\ t \in Nat
    BY <1>3, <1>5
  <2>1. PICK N1 : N1 = SetNext(N, t, k)
    OBVIOUS
  <2>2. PICK N2 : N2 = SetPrev(N1, k, t)
    OBVIOUS
  <2>3. PICK N3 : N3 = SetNext(N2, k, 0)
    OBVIOUS
  <2>4. E = [node |-> N3, head |-> h, tail |-> k]
    BY <1>1, <1>5, <2>1, <2>2, <2>3 DEF Enqueue, SetNext, SetPrev
  <2>5. WroteNext(N1, N, len, t, k)
    BY <1>0, <1>3, <2>0, <2>1, NextWritten, Zenon
  <2>5n. Nodes(N1, len)
    BY <2>5 DEF WroteNext
  <2>6. WrotePrev(N2, N1, len, k, t)
    BY <2>0, <2>2, <2>5n, PrevWritten, Zenon
  <2>6n. Nodes(N2, len)
    BY <2>6 DEF WrotePrev
  <2>7. WroteNext(N3, N2, len, k, 0)
    BY <1>0, <2>3, <2>6n, NextWritten, Zenon
  <2>8. E.node = N3 /\ E.head = h /\ E.tail = k
    BY <2>4
  <2>9. Pointers(E, len)
    BY <1>3, <2>4, <2>5, <2>6, <2>7, <2>8 DEF Pointers, WroteNext, WrotePrev
  <2>10. QED
    BY <1>2, <1>5, <2>5, <2>6, <2>7, <2>8, <2>9 DEF WroteNext, WrotePrev
<1>6. QED
  BY <1>2, <1>3, <1>4, <1>5
-----------------------------------------------------------------------------
(* g holds the first m addresses met along next, NULL for ever after the   *)
(* first NULL.                                                             *)
Followed(L, m, g) ==
  g = [i \in 1 .. m |-> LET k == IF i = 1 THEN L.head ELSE g[i - 1]
                        IN IF i = 1 \/ k = 0 THEN k ELSE L.node[k].next]

(* They exist, for every m.                                                *)
LEMMA FollowedExists ==
  ASSUME NEW L, NEW n \in Nat
  PROVE  \E g : Followed(L, n, g)
<1> DEFINE S == {m \in Nat : \E g : Followed(L, m, g)}
<1>1. 0 \in S
  <2>1. Followed(L, 0, [i \in 1 .. 0 |-> 0])
    BY DEF Followed
  <2>2. QED
    BY <2>1
<1>2. ASSUME NEW m \in Nat, m \in S
      PROVE  m + 1 \in S
  <2>1. PICK g : Followed(L, m, g)
    BY <1>2
  <2> DEFINE next(k, i) == IF i = 1 \/ k = 0 THEN k ELSE L.node[k].next
             h == [i \in 1 .. m + 1 |->
                     IF i = m + 1 THEN next(IF i = 1 THEN L.head ELSE g[m], i) ELSE g[i]]
  <2>2. ASSUME NEW i \in 1 .. m + 1
        PROVE  h[i] = next(IF i = 1 THEN L.head ELSE h[i - 1], i)
    <3>1. CASE i = m + 1
      <4>1. m # 0 => h[m] = g[m]
        BY <1>2
      <4>2. h[i] = next(IF i = 1 THEN L.head ELSE g[m], i)
        BY <3>1
      <4>3. QED
        BY <3>1, <4>1, <4>2
    <3>2. CASE i # m + 1
      <4>1. i \in 1 .. m /\ (i # 1 => i - 1 \in 1 .. m)
        BY <3>2
      <4>2. h[i] = g[i] /\ (i # 1 => h[i - 1] = g[i - 1])
        BY <3>2, <4>1
      <4>3. g[i] = next(IF i = 1 THEN L.head ELSE g[i - 1], i)
        BY <2>1, <4>1 DEF Followed
      <4>4. QED
        BY <4>2, <4>3
    <3>3. QED
      BY <3>1, <3>2
  <2>3. Followed(L, m + 1, h)
    BY <2>2 DEF Followed
  <2>4. QED
    BY <2>3
<1> HIDE DEF S
<1>3. n \in S
  BY <1>1, <1>2, SetInduction
<1>4. QED
  BY <1>3 DEF S

(* So Forward is the part of them before the first NULL.                   *)
LEMMA ForwardIsFollowed ==
  ASSUME NEW L, NEW len \in Nat, Len(L.node) = len
  PROVE  \E g : /\ Followed(L, len, g)
                /\ Forward(L) = [i \in 1 .. Cardinality({i \in 1 .. len : g[i] # 0}) |-> g[i]]
<1> DEFINE g == CHOOSE h : Followed(L, len, h)
<1>1. Followed(L, len, g)
  BY FollowedExists
<1>2. Forward(L) = [i \in 1 .. Cardinality({i \in 1 .. len : g[i] # 0}) |-> g[i]]
  BY DEF Forward, Followed
<1>3. QED
  BY <1>1, <1>2

(* A sequence of different addresses is no longer than the memory has      *)
(* nodes.                                                                  *)
LEMMA InjectiveIsShort ==
  ASSUME NEW len \in Nat, NEW l \in Nat, NEW q \in [1 .. l -> 1 .. len],
         \A i, j \in 1 .. l : q[i] = q[j] => i = j
  PROVE  l <= len
<1>1. q \in Injection(1 .. l, 1 .. len)
  BY DEF Injection, IsInjective
<1>2. ASSUME NEW n \in Nat
      PROVE  IsFiniteSet(1 .. n) /\ Cardinality(1 .. n) = n
  BY FS_Interval
<1>3. Cardinality(1 .. l) <= Cardinality(1 .. len)
  BY <1>1, <1>2, FS_Injection
<1>4. QED
  BY <1>2, <1>3

(* q holds the l nodes that next leads through from the head, all          *)
(* different.                                                              *)
Chain(L, len, l, q) ==
  /\ l \in Nat /\ q \in [1 .. l -> 1 .. len]
  /\ \A i, j \in 1 .. l : q[i] = q[j] => i = j
  /\ L.head = IF l = 0 THEN 0 ELSE q[1]
  /\ \A i \in 1 .. l : L.node[q[i]].next = IF i = l THEN 0 ELSE q[i + 1]

(* When there is such a chain, it is what Forward finds.                   *)
LEMMA ForwardIsChain ==
  ASSUME NEW L, NEW len \in Nat, Len(L.node) = len, NEW l, NEW q, Chain(L, len, l, q)
  PROVE  Forward(L) = q
<1>1. PICK g : /\ Followed(L, len, g)
               /\ Forward(L) = [i \in 1 .. Cardinality({i \in 1 .. len : g[i] # 0}) |-> g[i]]
  BY ForwardIsFollowed
<1>2. l <= len
  BY InjectiveIsShort DEF Chain
<1>3. /\ l \in Nat /\ q \in [1 .. l -> 1 .. len] /\ l <= len
      /\ L.head = IF l = 0 THEN 0 ELSE q[1]
      /\ \A i \in 1 .. l : L.node[q[i]].next = IF i = l THEN 0 ELSE q[i + 1]
  BY <1>2 DEF Chain
<1> DEFINE S == {i \in Nat : i \in 1 .. len => g[i] = IF i <= l THEN q[i] ELSE 0}
<1>4. 0 \in S
  OBVIOUS
<1>5. ASSUME NEW i \in Nat, i \in S
      PROVE  i + 1 \in S
  <2>1. SUFFICES ASSUME i + 1 \in 1 .. len
                 PROVE  g[i + 1] = IF i + 1 <= l THEN q[i + 1] ELSE 0
    OBVIOUS
  <2>2. CASE i = 0
    BY <1>1, <1>3, <2>1, <2>2 DEF Followed
  <2>3. CASE i # 0
    <3>1. g[i] = IF i <= l THEN q[i] ELSE 0
      BY <1>5, <2>1, <2>3
    <3>2. g[i + 1] = IF g[i] = 0 THEN 0 ELSE L.node[g[i]].next
      <4>1. i + 1 # 1 /\ (i + 1) - 1 = i
        BY <2>3
      <4>2. g[i + 1] = LET k == IF i + 1 = 1 THEN L.head ELSE g[(i + 1) - 1]
                       IN IF i + 1 = 1 \/ k = 0 THEN k ELSE L.node[k].next
        BY <1>1, <2>1 DEF Followed
      <4>3. QED
        BY <4>1, <4>2
    <3>3. QED
      BY <1>3, <2>3, <3>1, <3>2
  <2>4. QED
    BY <2>2, <2>3
<1> HIDE DEF S
<1>6. \A i \in Nat : i \in S
  BY <1>4, <1>5, SetInduction
<1>7. \A i \in 1 .. len : g[i] = IF i <= l THEN q[i] ELSE 0
  BY <1>6 DEF S
<1>8. {i \in 1 .. len : g[i] # 0} = 1 .. l
  BY <1>3, <1>7
<1>9. Cardinality(1 .. l) = l
  BY <1>3, FS_Interval
<1>10. QED
  BY <1>1, <1>3, <1>7, <1>8, <1>9

(* k is the first node of the chain named n.                                *)

(* k is the first node of the chain with name n, NULL if there is none.    *)
IsFirst(L, l, q, n, k) ==
  \/ k = 0 /\ \A i \in 1 .. l : L.node[q[i]].name # n
  \/ \E j \in 1 .. l : /\ k = q[j]
                       /\ L.node[q[j]].name = n
                       /\ \A i \in 1 .. j - 1 : L.node[q[i]].name # n

(* FirstNamed finds it.                                                    *)
LEMMA FirstNamedInChain ==
  ASSUME NEW L, NEW len \in Nat, Len(L.node) = len, NEW l, NEW q, Chain(L, len, l, q), NEW n
  PROVE  IsFirst(L, l, q, n, FirstNamed(L, n))
<1>1. Forward(L) = q
  BY ForwardIsChain
<1>2. l \in Nat /\ q \in [1 .. l -> 1 .. len]
  BY DEF Chain
<1> DEFINE hits == {i \in 1 .. l : L.node[q[i]].name = n}
<1>3. FirstNamed(L, n) = IF hits = {} THEN 0
                         ELSE q[CHOOSE i \in hits : \A j \in hits : i <= j]
  BY <1>1, <1>2 DEF FirstNamed
<1>4. CASE hits = {}
  BY <1>3, <1>4 DEF IsFirst
<1>5. CASE hits # {}
  <2>1. hits \subseteq Nat
    BY <1>2
  <2> HIDE DEF hits
  <2>2. \E i \in hits : \A j \in hits : i <= j
    BY <1>5, <2>1, Least
  <2>3. PICK m : m = CHOOSE i \in hits : \A j \in hits : i <= j
    OBVIOUS
  <2>4. m \in hits /\ \A j \in hits : m <= j
    BY <2>2, <2>3
  <2>5. FirstNamed(L, n) = q[m]
    BY <1>3, <1>5, <2>3
  <2>6. m \in 1 .. l /\ L.node[q[m]].name = n /\ \A i \in 1 .. m - 1 : L.node[q[i]].name # n
    BY <1>2, <2>4 DEF hits
  <2>7. QED
    BY <2>5, <2>6 DEF IsFirst
<1>6. QED
  BY <1>4, <1>5

(* What is left of a doubly linked list when move_to_tail has cut off the  *)
(* wrong nodes: a chain along next, whose tail pointer may be stale but    *)
(* never names an earlier node of the chain, and whose prev pointers may   *)
(* be stale but never lead from a node to a later one or past its          *)
(* predecessor.                                                            *)
Ordered(L, len, l, q) ==
  /\ Chain(L, len, l, q)
  /\ \A i \in 1 .. l : L.tail = q[i] => i = l
  /\ \A i, j \in 1 .. l : L.node[q[j]].prev = q[i] => i = j \/ i + 1 = j

(* No node of the chain points back to k, if k is not on it.                *)
Loose(L, l, q, k) ==
  (\A j \in 1 .. l : q[j] # k) => \A j \in 1 .. l : L.node[q[j]].prev # k

(* The list as the cache has it between two steps: all of its pointers are *)
(* valid, and unless the process is gone it is in that order.              *)
SoundList(L, len) ==
  /\ Pointers(L, len)
  /\ L.head # -1 => \E l, q : Ordered(L, len, l, q)

(* enqueue of a node that no prev pointer of the chain names, or that is   *)
(* itself on the chain, leaves the list in order (in the second case it    *)
(* cuts the chain after that node).                                        *)
LEMMA EnqueueSound ==
  ASSUME NEW len \in Nat, NEW L, Pointers(L, len), L.head # -1, NEW k \in 1 .. len,
         NEW l, NEW q, Ordered(L, len, l, q), Loose(L, l, q, k)
  PROVE  SoundList(Enqueue(L, k), len) /\ Enqueue(L, k).head # -1
<1>1. PICK E : E = Enqueue(L, k)
  OBVIOUS
<1>3. /\ Pointers(E, len)
      /\ E.head = (IF L.head = 0 THEN k ELSE L.head)
      /\ E.tail = k
      /\ \A j \in 1 .. len :
           /\ E.node[j].next =
                IF j = k THEN 0 ELSE IF L.head # 0 /\ j = L.tail THEN k ELSE L.node[j].next
           /\ E.node[j].prev =
                IF j # k THEN L.node[j].prev ELSE IF L.head = 0 THEN 0 ELSE L.tail
  BY <1>1, EnqueueLink
<1>5. /\ l \in Nat /\ q \in [1 .. l -> 1 .. len]
      /\ \A i, j \in 1 .. l : q[i] = q[j] => i = j
      /\ L.head = IF l = 0 THEN 0 ELSE q[1]
      /\ \A i \in 1 .. l : L.node[q[i]].next = IF i = l THEN 0 ELSE q[i + 1]
      /\ \A i \in 1 .. l : L.tail = q[i] => i = l
      /\ \A i, j \in 1 .. l : L.node[q[j]].prev = q[i] => i = j \/ i + 1 = j
  BY DEF Ordered, Chain
<1>6. \E m, r : Ordered(E, len, m, r)
  <2>1. CASE L.head = 0
    <3>1. PICK r : r = [i \in 1 .. 1 |-> k]
      OBVIOUS
    <3>2. r \in [1 .. 1 -> 1 .. len] /\ r[1] = k
      BY <3>1
    <3>3. Ordered(E, len, 1, r)
      BY <1>3, <2>1, <3>2 DEF Ordered, Chain
    <3>4. QED
      BY <3>3
  <2>2. CASE L.head # 0 /\ \E j \in 1 .. l : q[j] = k
    <3>1. PICK j \in 1 .. l : q[j] = k
      BY <2>2
    <3>2. PICK r : r = [i \in 1 .. j |-> q[i]]
      OBVIOUS
    <3>3. j \in Nat /\ r \in [1 .. j -> 1 .. len] /\ \A i \in 1 .. j : i \in 1 .. l /\ r[i] = q[i]
      BY <1>5, <3>2
    <3>4. \A a, b \in 1 .. j : r[a] = r[b] => a = b
      BY <1>5, <3>3
    <3>5. E.head = IF j = 0 THEN 0 ELSE r[1]
      BY <1>3, <1>5, <2>2, <3>3
    <3>6. ASSUME NEW i \in 1 .. j
          PROVE  E.node[r[i]].next = IF i = j THEN 0 ELSE r[i + 1]
      <4>1. CASE i = j
        BY <1>3, <3>1, <3>3, <4>1
      <4>2. CASE i # j
        <5>1. q[i] # k /\ L.tail # q[i] /\ i + 1 \in 1 .. j /\ i # l
          BY <1>5, <3>1, <3>3, <4>2
        <5>2. E.node[q[i]].next = q[i + 1]
          BY <1>3, <1>5, <3>3, <5>1
        <5>3. QED
          BY <3>3, <4>2, <5>1, <5>2
      <4>3. QED
        BY <4>1, <4>2
    <3>7. \A i \in 1 .. j : E.tail = r[i] => i = j
      BY <1>3, <1>5, <3>1, <3>3
    <3>8. ASSUME NEW a \in 1 .. j, NEW b \in 1 .. j, E.node[r[b]].prev = r[a]
          PROVE  a = b \/ a + 1 = b
      <4>1. CASE b = j
        <5>1. r[b] = k /\ r[a] = q[a] /\ a \in 1 .. l
          BY <3>1, <3>3, <4>1
        <5>2. q[a] = L.tail
          BY <1>3, <2>2, <3>8, <5>1
        <5>3. a = l
          BY <1>5, <5>1, <5>2
        <5>4. QED
          BY <1>5, <4>1, <5>3
      <4>2. CASE b # j
        <5>1. q[b] # k
          BY <1>5, <3>1, <3>3, <4>2
        <5>2. L.node[q[b]].prev = q[a]
          BY <1>3, <1>5, <3>3, <3>8, <5>1
        <5>3. QED
          BY <1>5, <3>3, <5>2
      <4>3. QED
        BY <4>1, <4>2
    <3>9. Ordered(E, len, j, r)
      BY <3>3, <3>4, <3>5, <3>6, <3>7, <3>8 DEF Ordered, Chain
    <3>10. QED
      BY <3>9
  <2>3. CASE L.head # 0 /\ (\A j \in 1 .. l : q[j] # k) /\ \E j \in 1 .. l : q[j] = L.tail
    <3>1. l # 0 /\ q[l] = L.tail
      BY <1>5, <2>3
    <3>2. PICK r : r = [i \in 1 .. l + 1 |-> IF i = l + 1 THEN k ELSE q[i]]
      OBVIOUS
    <3>3. /\ l + 1 \in Nat /\ r \in [1 .. l + 1 -> 1 .. len] /\ r[l + 1] = k
          /\ \A i \in 1 .. l : i \in 1 .. l + 1 /\ r[i] = q[i]
          /\ \A i \in 1 .. l + 1 : i # l + 1 => i \in 1 .. l
      BY <1>5, <3>2
    <3>4. ASSUME NEW a \in 1 .. l + 1, NEW b \in 1 .. l + 1, r[a] = r[b]
          PROVE  a = b
      <4>1. CASE a # l + 1 /\ b # l + 1
        BY <1>5, <3>3, <3>4, <4>1
      <4>2. CASE a = l + 1 \/ b = l + 1
        BY <1>5, <2>3, <3>3, <3>4, <4>2
      <4>3. QED
        BY <4>1, <4>2
    <3>5. E.head = IF l + 1 = 0 THEN 0 ELSE r[1]
      BY <1>3, <1>5, <2>3, <3>1, <3>3
    <3>6. ASSUME NEW i \in 1 .. l + 1
          PROVE  E.node[r[i]].next = IF i = l + 1 THEN 0 ELSE r[i + 1]
      <4>1. CASE i = l + 1
        BY <1>3, <3>3, <4>1
      <4>2. CASE i = l
        BY <1>3, <1>5, <2>3, <3>1, <3>3, <4>2
      <4>3. CASE i # l + 1 /\ i # l
        <5>1. i \in 1 .. l /\ i + 1 \in 1 .. l /\ q[i] # k /\ q[i] # L.tail
          BY <1>5, <2>3, <3>1, <4>3
        <5>2. E.node[q[i]].next = q[i + 1]
          BY <1>3, <1>5, <4>3, <5>1
        <5>3. QED
          BY <3>3, <4>3, <5>1, <5>2
      <4>4. QED
        BY <4>1, <4>2, <4>3
    <3>7. \A i \in 1 .. l + 1 : E.tail = r[i] => i = l + 1
      BY <1>3, <2>3, <3>3
    <3>8. ASSUME NEW a \in 1 .. l + 1, NEW b \in 1 .. l + 1, E.node[r[b]].prev = r[a]
          PROVE  a = b \/ a + 1 = b
      <4>1. CASE b = l + 1
        BY <1>3, <1>5, <2>3, <3>1, <3>3, <3>8, <4>1
      <4>2. CASE b # l + 1
        <5>1. b \in 1 .. l /\ q[b] # k /\ r[b] = q[b]
          BY <2>3, <3>3, <4>2
        <5>2. E.node[q[b]].prev = L.node[q[b]].prev
          BY <1>3, <1>5, <5>1
        <5>3. CASE a = l + 1
          <6>1. L.node[q[b]].prev = k
            BY <3>3, <3>8, <5>1, <5>2, <5>3
          <6>2. QED
            BY <2>3, <5>1, <6>1 DEF Loose
        <5>4. CASE a # l + 1
          <6>1. a \in 1 .. l /\ r[a] = q[a]
            BY <3>3, <5>4
          <6>2. L.node[q[b]].prev = q[a]
            BY <3>8, <5>1, <5>2, <6>1
          <6>3. QED
            BY <1>5, <5>1, <6>1, <6>2
        <5>5. QED
          BY <5>3, <5>4
      <4>3. QED
        BY <4>1, <4>2
    <3>9. Ordered(E, len, l + 1, r)
      BY <3>3, <3>4, <3>5, <3>6, <3>7, <3>8 DEF Ordered, Chain
    <3>10. QED
      BY <3>9
  <2>4. CASE L.head # 0 /\ (\A j \in 1 .. l : q[j] # k) /\ \A j \in 1 .. l : q[j] # L.tail
    <3>1. Ordered(E, len, l, q)
      BY <1>3, <1>5, <2>4 DEF Ordered, Chain
    <3>2. QED
      BY <3>1
  <2>5. QED
    BY <2>1, <2>2, <2>3, <2>4
<1>7. QED
  BY <1>1, <1>3, <1>6 DEF SoundList
(* What is left on the list after deque, whichever node it took out.        *)

(* deque by name leaves the list in order, or has followed NULL, although  *)
(* it compares the tail by name and may write to a node that is on the     *)
(* list no more. The node it took out is one that enqueue may be given.    *)
LEMMA DequeSound ==
  ASSUME NEW len \in Nat, NEW L, SoundList(L, len), L.head # -1, NEW n,
         NEW E, E = Deque(L, n), NEW k, k = FirstNamed(L, n)
  PROVE  /\ SoundList(E, len)
         /\ k \in 0 .. len
         /\ k = 0 => E.head = -1
         /\ E.head # -1 => \E m, r : Ordered(E, len, m, r) /\ Loose(E, m, r, k)
<1>0. 0 \in Nat
  OBVIOUS
<1>1. PICK N, h, t : L = [node |-> N, head |-> h, tail |-> t]
  BY DEF SoundList, Pointers
<1>2. L.node = N /\ L.head = h /\ L.tail = t
  BY <1>1
<1>3. /\ Nodes(N, len) /\ h \in 0 .. len /\ t \in 0 .. len /\ (h > 0 => t > 0)
      /\ \A j \in 1 .. len : N[j].next \in 0 .. len /\ N[j].prev \in 0 .. len
  BY <1>2 DEF SoundList, Pointers
<1>4. PICK l, q : Ordered(L, len, l, q)
  BY DEF SoundList
<1>5. /\ l \in Nat /\ q \in [1 .. l -> 1 .. len]
      /\ \A i, j \in 1 .. l : q[i] = q[j] => i = j
      /\ h = IF l = 0 THEN 0 ELSE q[1]
      /\ \A i \in 1 .. l : N[q[i]].next = IF i = l THEN 0 ELSE q[i + 1]
      /\ \A i \in 1 .. l : t = q[i] => i = l
      /\ \A i, j \in 1 .. l : N[q[j]].prev = q[i] => i = j \/ i + 1 = j
  BY <1>2, <1>4 DEF Ordered, Chain
<1>5j. \A a, b \in 1 .. l : q[a] = q[b] => a = b
  BY <1>5
<1>5x. \A i \in 1 .. l : N[q[i]].next = IF i = l THEN 0 ELSE q[i + 1]
  BY <1>5
<1>5t. \A i \in 1 .. l : t = q[i] => i = l
  BY <1>5
<1>5p. \A a, b \in 1 .. l : N[q[b]].prev = q[a] => a = b \/ a + 1 = b
  BY <1>5
<1>5d. l \in Nat /\ \A i \in 1 .. l : q[i] \in 1 .. len
  BY <1>5
<1>6. ASSUME NEW m, NEW r, Pointers(E, len), Ordered(E, len, m, r), Loose(E, m, r, k), k \in 1 .. len
      PROVE  /\ SoundList(E, len)
             /\ k \in 0 .. len
             /\ k = 0 => E.head = -1
             /\ E.head # -1 => \E mm, rr : Ordered(E, len, mm, rr) /\ Loose(E, mm, rr, k)
  BY <1>6 DEF SoundList
<1>7. ASSUME E = Fault(L), k \in 0 .. len
      PROVE  /\ SoundList(E, len)
             /\ k \in 0 .. len
             /\ k = 0 => E.head = -1
             /\ E.head # -1 => \E m, r : Ordered(E, len, m, r) /\ Loose(E, m, r, k)
  <2>1. E = [node |-> N, head |-> -1, tail |-> t]
    BY <1>1, <1>7 DEF Fault
  <2>2. E.node = N /\ E.head = -1 /\ E.tail = t
    BY <2>1
  <2>3. Pointers(E, len)
    BY <1>3, <2>1, <2>2 DEF Pointers
  <2>4. QED
    BY <1>7, <2>2, <2>3 DEF SoundList
<1>8. \/ k = 0
      \/ \E j \in 1 .. l : k = q[j] /\ N[q[j]].name = n
  <2>1. Len(L.node) = len /\ Chain(L, len, l, q)
    BY <1>2, <1>3, <1>4 DEF Ordered, Nodes
  <2>2. IsFirst(L, l, q, n, k)
    BY <2>1, FirstNamedInChain
  <2>3. QED
    BY <1>2, <2>2 DEF IsFirst
<1>9. CASE k = 0
  BY <1>7, <1>9 DEF Deque
<1>10. CASE k # 0
  <2>1. PICK j \in 1 .. l : k = q[j] /\ N[q[j]].name = n
    BY <1>8, <1>10
  <2>2. k \in 1 .. len /\ l # 0 /\ h = q[1] /\ h # 0 /\ t \in 1 .. len /\ j \in Nat
    BY <1>3, <1>5, <2>1
  <2>3. PICK after, before : after = N[k].next /\ before = N[k].prev
    OBVIOUS
  <2>4. after \in 0 .. len /\ before \in 0 .. len /\ after = IF j = l THEN 0 ELSE q[j + 1]
    BY <1>3, <1>5, <2>1, <2>2, <2>3
  <2>5. CASE k = h /\ after = 0
    <3>1. E = [node |-> N, head |-> 0, tail |-> 0]
      BY <1>1, <1>10, <2>3, <2>5 DEF Deque
    <3>2. E.node = N /\ E.head = 0 /\ E.tail = 0
      BY <3>1
    <3>3. Pointers(E, len)
      BY <1>3, <3>1, <3>2 DEF Pointers
    <3>4. PICK r : r = [i \in 1 .. 0 |-> 1]
      OBVIOUS
    <3>5. Ordered(E, len, 0, r) /\ Loose(E, 0, r, k)
      BY <3>2, <3>4 DEF Ordered, Chain, Loose
    <3>6. QED
      BY <1>6, <2>2, <3>3, <3>5
  <2>6. CASE k = h /\ after # 0
    <3>00. 1 \in 1 .. l
      BY <1>5d, <2>2
    <3>01. j = 1
      BY <1>5j, <2>1, <2>2, <2>6, <3>00
    <3>0. after \in 1 .. len /\ after = q[2] /\ l >= 2 /\ j = 1
      BY <1>5d, <2>2, <2>4, <2>6, <3>01
    <3>1. PICK N1 : N1 = SetPrev(N, after, 0)
      OBVIOUS
    <3>2. E = [node |-> N1, head |-> after, tail |-> t]
      BY <1>1, <1>10, <2>3, <2>6, <3>1 DEF Deque, SetPrev
    <3>3. WrotePrev(N1, N, len, after, 0)
      BY <1>0, <1>3, <3>0, <3>1, PrevWritten, Zenon
    <3>4. E.node = N1 /\ E.head = after /\ E.tail = t
      BY <3>2
    <3>5. Pointers(E, len)
      BY <1>3, <2>2, <2>4, <3>2, <3>3, <3>4 DEF Pointers, WrotePrev
    <3>6. PICK r : r = [i \in 1 .. l - 1 |-> q[i + 1]]
      OBVIOUS
    <3>7. /\ l - 1 \in Nat /\ r \in [1 .. l - 1 -> 1 .. len]
          /\ \A i \in 1 .. l - 1 : i + 1 \in 1 .. l /\ r[i] = q[i + 1]
      BY <1>5, <2>2, <3>6
    <3>8. \A a, b \in 1 .. l - 1 : r[a] = r[b] => a = b
      BY <1>5, <3>7
    <3>9. ASSUME NEW i \in 1 .. l - 1
          PROVE  E.node[r[i]].next = IF i = l - 1 THEN 0 ELSE r[i + 1]
      <4>1. i + 1 \in 1 .. l /\ r[i] = q[i + 1] /\ q[i + 1] \in 1 .. len
        BY <1>5d, <3>7
      <4>2. E.node[r[i]].next = N[q[i + 1]].next
        BY <3>3, <3>4, <4>1 DEF WrotePrev
      <4>3. N[q[i + 1]].next = IF i + 1 = l THEN 0 ELSE q[i + 1 + 1]
        BY <1>5x, <4>1
      <4>4. i # l - 1 => i + 1 \in 1 .. l - 1 /\ r[i + 1] = q[i + 1 + 1]
        BY <3>7
      <4>5. QED
        BY <1>5d, <4>2, <4>3, <4>4
    <3>10. \A i \in 1 .. l - 1 : E.tail = r[i] => i = l - 1
      BY <1>5, <3>4, <3>7
    <3>11. ASSUME NEW b \in 1 .. l - 1
           PROVE  /\ E.node[r[b]].prev # k
                  /\ \A a \in 1 .. l - 1 : E.node[r[b]].prev = r[a] => a = b \/ a + 1 = b
      <4>1. b + 1 \in 1 .. l /\ r[b] = q[b + 1] /\ q[b + 1] \in 1 .. len
        BY <1>5, <3>7
      <4>2. CASE b = 1
        <5>1. E.node[r[b]].prev = 0
          BY <3>0, <3>3, <3>4, <4>1, <4>2 DEF WrotePrev
        <5>2. QED
          BY <2>2, <3>7, <5>1
      <4>3. CASE b # 1
        <5>1. q[b + 1] # after
          BY <1>5, <3>0, <4>1, <4>3
        <5>2. E.node[r[b]].prev = N[q[b + 1]].prev
          BY <3>3, <3>4, <4>1, <5>1 DEF WrotePrev
        <5>3. N[q[b + 1]].prev # k
          BY <1>5, <2>1, <3>0, <4>1, <4>3
        <5>4. \A a \in 1 .. l - 1 : N[q[b + 1]].prev = q[a + 1] => a = b \/ a + 1 = b
          BY <1>5, <3>7, <4>1
        <5>5. QED
          BY <3>7, <5>2, <5>3, <5>4
      <4>4. QED
        BY <4>2, <4>3
    <3>12. E.head = IF l - 1 = 0 THEN 0 ELSE r[1]
      BY <1>5, <3>0, <3>4, <3>7
    <3>13. Ordered(E, len, l - 1, r)
      BY <3>7, <3>8, <3>9, <3>10, <3>11, <3>12 DEF Ordered, Chain
    <3>14. Loose(E, l - 1, r, k)
      BY <3>11 DEF Loose
    <3>15. QED
      BY <1>6, <2>2, <3>5, <3>13, <3>14
  <2>7. CASE k # h /\ n = N[t].name
    <3>0. PICK last : last = N[t].prev
      OBVIOUS
    <3>1. last \in 0 .. len
      BY <1>3, <2>2, <3>0
    <3>2. CASE last = 0
      <4>1. E = Fault(L)
        BY <1>2, <1>10, <2>7, <3>0, <3>2 DEF Deque
      <4>2. QED
        BY <1>7, <2>2, <4>1
    <3>3. CASE last # 0
      <4>0. last \in 1 .. len
        BY <3>1, <3>3
      <4>1. PICK N1 : N1 = SetNext(N, last, 0)
        OBVIOUS
      <4>2. E = [node |-> N1, head |-> h, tail |-> last]
        BY <1>1, <1>10, <2>7, <3>0, <3>3, <4>1 DEF Deque, SetNext
      <4>3. WroteNext(N1, N, len, last, 0)
        BY <1>0, <1>3, <4>0, <4>1, NextWritten, Zenon
      <4>4. E.node = N1 /\ E.head = h /\ E.tail = last
        BY <4>2
      <4>5. Pointers(E, len)
        BY <1>3, <2>2, <3>1, <3>3, <4>2, <4>3, <4>4 DEF Pointers, WroteNext
      <4>6. CASE \A i \in 1 .. l : q[i] # last
        <5>0. \A i \in 1 .. l : /\ E.node[q[i]].next = N[q[i]].next
                                /\ E.node[q[i]].prev = N[q[i]].prev
          BY <1>5d, <4>3, <4>4, <4>6 DEF WroteNext
        <5>1. Ordered(E, len, l, q)
          BY <1>5, <4>4, <4>6, <5>0 DEF Ordered, Chain
        <5>2. Loose(E, l, q, k)
          BY <2>1 DEF Loose
        <5>3. QED
          BY <1>6, <2>2, <4>5, <5>1, <5>2
      <4>7. CASE \E i \in 1 .. l : q[i] = last
        <5>1. PICK c \in 1 .. l : q[c] = last
          BY <4>7
        <5>2. PICK r : r = [i \in 1 .. c |-> q[i]]
          OBVIOUS
        <5>3. c \in Nat /\ r \in [1 .. c -> 1 .. len] /\ \A i \in 1 .. c : i \in 1 .. l /\ r[i] = q[i]
          BY <1>5, <5>2
        <5>4. \A a, b \in 1 .. c : r[a] = r[b] => a = b
          BY <1>5, <5>3
        <5>5. E.head = IF c = 0 THEN 0 ELSE r[1]
          BY <2>2, <4>4, <5>3
        <5>6. ASSUME NEW i \in 1 .. c
              PROVE  E.node[r[i]].next = IF i = c THEN 0 ELSE r[i + 1]
          <6>1. CASE i = c
            BY <4>0, <4>3, <4>4, <5>1, <5>3, <6>1 DEF WroteNext
          <6>2. CASE i # c
            <7>1. q[i] # last /\ i + 1 \in 1 .. c /\ i # l
              BY <1>5, <5>1, <5>3, <6>2
            <7>2. E.node[q[i]].next = q[i + 1]
              BY <1>5, <4>3, <4>4, <5>3, <7>1 DEF WroteNext
            <7>3. QED
              BY <5>3, <6>2, <7>1, <7>2
          <6>3. QED
            BY <6>1, <6>2
        <5>7. \A i \in 1 .. c : E.tail = r[i] => i = c
          BY <1>5, <4>4, <5>1, <5>3
        <5>7p. \A b \in 1 .. c : E.node[r[b]].prev = N[q[b]].prev
          BY <1>5d, <4>3, <4>4, <5>3 DEF WroteNext
        <5>8. \A a, b \in 1 .. c : E.node[r[b]].prev = r[a] => a = b \/ a + 1 = b
          BY <1>5p, <5>3, <5>7p
        <5>9. Ordered(E, len, c, r)
          BY <5>3, <5>4, <5>5, <5>6, <5>7, <5>8 DEF Ordered, Chain
        <5>10. ASSUME \A i \in 1 .. c : r[i] # k, NEW b \in 1 .. c
               PROVE  E.node[r[b]].prev # k
          <6>1. E.node[r[b]].prev = N[q[b]].prev
            BY <5>7p
          <6>2. N[q[b]].prev = q[j] => j \in 1 .. c
            <7>1. b \in 1 .. l /\ b <= c /\ c \in Nat
              BY <5>3
            <7>2. N[q[b]].prev = q[j] => j = b \/ j + 1 = b
              BY <1>5p, <7>1
            <7>3. QED
              BY <2>2, <7>1, <7>2
          <6>3. QED
            BY <2>1, <5>3, <5>10, <6>1, <6>2
        <5>11. Loose(E, c, r, k)
          BY <5>10 DEF Loose
        <5>12. QED
          BY <1>6, <2>2, <4>5, <5>9, <5>11
      <4>8. QED
        BY <4>6, <4>7
    <3>4. QED
      BY <3>2, <3>3
  <2>8. CASE k # h /\ n # N[t].name /\ 0 \in {before, after}
    <3>1. E = Fault(L)
      BY <1>2, <1>10, <2>3, <2>8 DEF Deque
    <3>2. QED
      BY <1>7, <2>2, <3>1
  <2>9. CASE k # h /\ n # N[t].name /\ 0 \notin {before, after}
    <3>0. /\ after \in 1 .. len /\ before \in 1 .. len /\ after \in Nat /\ before \in Nat
          /\ j < l /\ after = q[j + 1] /\ j + 1 \in 1 .. l /\ j # 1
      BY <1>5, <2>1, <2>2, <2>4, <2>9
    <3>1. PICK N1 : N1 = SetPrev(N, after, before)
      OBVIOUS
    <3>2. PICK N2 : N2 = SetNext(N1, before, after)
      OBVIOUS
    <3>3. E = [node |-> N2, head |-> h, tail |-> t]
      BY <1>1, <1>10, <2>3, <2>9, <3>1, <3>2 DEF Deque, SetNext, SetPrev
    <3>4. WrotePrev(N1, N, len, after, before)
      BY <1>3, <3>0, <3>1, PrevWritten, Zenon
    <3>4n. Nodes(N1, len)
      BY <3>4 DEF WrotePrev
    <3>5. WroteNext(N2, N1, len, before, after)
      BY <3>0, <3>2, <3>4n, NextWritten, Zenon
    <3>6. /\ E.node = N2 /\ E.head = h /\ E.tail = t
          /\ \A i \in 1 .. len : /\ N2[i].next = IF i = before THEN after ELSE N[i].next
                                 /\ N2[i].prev = IF i = after THEN before ELSE N[i].prev
      BY <3>3, <3>4, <3>5 DEF WrotePrev, WroteNext
    <3>7. Pointers(E, len)
      BY <1>3, <2>2, <2>4, <3>3, <3>5, <3>6 DEF Pointers, WroteNext
    <3>8. CASE \A i \in 1 .. l : q[i] # before
      <4>1. Ordered(E, len, l, q)
        BY <1>5, <3>6, <3>8 DEF Ordered, Chain
      <4>2. Loose(E, l, q, k)
        BY <2>1 DEF Loose
      <4>3. QED
        BY <1>6, <2>2, <3>7, <4>1, <4>2
    <3>9. CASE before = k
      <4>1. Ordered(E, len, l, q)
        <5>1. \A i \in 1 .. l : N2[q[i]].next = N[q[i]].next
          BY <1>5, <2>1, <2>3, <3>6, <3>9
        <5>2. \A a, b \in 1 .. l : N2[q[b]].prev = q[a] => a = b \/ a + 1 = b
          <6>1. ASSUME NEW a \in 1 .. l, NEW b \in 1 .. l, N2[q[b]].prev = q[a]
                PROVE  a = b \/ a + 1 = b
            <7>1. CASE q[b] = after
              <8>1. b = j + 1
                BY <1>5j, <3>0, <7>1
              <8>2. q[a] = q[j]
                BY <1>5d, <2>1, <3>6, <3>9, <6>1, <7>1
              <8>3. a = j
                BY <1>5j, <8>2
              <8>4. QED
                BY <8>1, <8>3
            <7>2. CASE q[b] # after
              <8>1. N[q[b]].prev = q[a]
                BY <1>5d, <3>6, <6>1, <7>2
              <8>2. QED
                BY <1>5p, <8>1
            <7>3. QED
              BY <7>1, <7>2
          <6>2. QED
            BY <6>1
        <5>3. QED
          BY <1>5, <3>6, <5>1, <5>2 DEF Ordered, Chain
      <4>2. Loose(E, l, q, k)
        BY <2>1 DEF Loose
      <4>3. QED
        BY <1>6, <2>2, <3>7, <4>1, <4>2
    <3>10. CASE before # k /\ \E i \in 1 .. l : q[i] = before
      <4>1. q[j - 1] = before /\ j - 1 \in 1 .. l /\ l - 1 \in Nat
        <5>1. PICK i \in 1 .. l : q[i] = before
          BY <3>10
        <5>2. N[q[j]].prev = q[i] /\ i # j
          BY <2>1, <2>3, <3>10, <5>1
        <5>3. i + 1 = j
          BY <1>5p, <2>1, <5>2
        <5>4. j - 1 = i
          BY <1>5d, <5>1, <5>3
        <5>5. l - 1 \in Nat
          BY <1>5d, <2>2
        <5>6. QED
          BY <5>1, <5>4, <5>5
      <4>2. PICK r : r = [i \in 1 .. l - 1 |-> IF i < j THEN q[i] ELSE q[i + 1]]
        OBVIOUS
      <4>3. /\ r \in [1 .. l - 1 -> 1 .. len]
            /\ \A i \in 1 .. l - 1 : i < j => i \in 1 .. l /\ r[i] = q[i]
            /\ \A i \in 1 .. l - 1 : i >= j => i + 1 \in 1 .. l /\ r[i] = q[i + 1]
        BY <1>5, <2>2, <4>2
      <4>4. ASSUME NEW a \in 1 .. l - 1, NEW b \in 1 .. l - 1, r[a] = r[b]
            PROVE  a = b
        <5>1. PICK a1, b1 \in 1 .. l : /\ a1 = (IF a < j THEN a ELSE a + 1) /\ r[a] = q[a1]
                                       /\ b1 = (IF b < j THEN b ELSE b + 1) /\ r[b] = q[b1]
          BY <2>2, <4>3
        <5>2. a1 = b1
          <6>1. q[a1] = q[b1]
            BY <4>4, <5>1
          <6>2. QED
            BY <1>5j, <6>1
        <5>3. QED
          BY <2>2, <5>1, <5>2
      <4>5. E.head = IF l - 1 = 0 THEN 0 ELSE r[1]
        <5>1. 1 \in 1 .. l - 1 /\ 1 < j
          BY <1>5d, <2>2, <3>0
        <5>2. r[1] = q[1]
          BY <4>3, <5>1
        <5>3. QED
          BY <2>2, <3>6, <5>1, <5>2
      <4>6. ASSUME NEW i \in 1 .. l - 1
            PROVE  E.node[r[i]].next = IF i = l - 1 THEN 0 ELSE r[i + 1]
        <5>0. l \in Nat /\ j \in Nat /\ i \in Nat /\ j < l /\ i <= l - 1 /\ i >= 1
          BY <1>5d, <2>2, <3>0
        <5>1. CASE i = j - 1
          <6>1. i < j /\ r[i] = before
            BY <4>1, <4>3, <5>0, <5>1
          <6>2. E.node[r[i]].next = q[j + 1]
            BY <3>0, <3>6, <6>1
          <6>3. j \in 1 .. l - 1 /\ j >= j /\ r[j] = q[j + 1]
            BY <2>2, <4>3, <5>0
          <6>4. QED
            BY <5>0, <5>1, <6>2, <6>3
        <5>2. CASE i < j - 1
          <6>1. /\ i < j /\ i \in 1 .. l /\ i # l /\ i # l - 1 /\ i # j - 1
                /\ i + 1 < j /\ i + 1 \in 1 .. l - 1
            BY <5>0, <5>2
          <6>2. r[i] = q[i] /\ r[i + 1] = q[i + 1]
            BY <4>3, <6>1
          <6>3. q[i] # before /\ q[i] \in 1 .. len
            BY <1>5d, <1>5j, <4>1, <6>1
          <6>4. N[q[i]].next = q[i + 1]
            BY <1>5x, <6>1
          <6>5. QED
            BY <3>6, <6>1, <6>2, <6>3, <6>4
        <5>3. CASE i >= j
          <6>1. i + 1 \in 1 .. l /\ i + 1 # j - 1 /\ (i # l - 1 => i + 1 \in 1 .. l - 1 /\ i + 1 >= j)
            BY <5>0, <5>3
          <6>2. r[i] = q[i + 1]
            BY <4>3, <5>3
          <6>3. q[i + 1] # before /\ q[i + 1] \in 1 .. len
            BY <1>5d, <1>5j, <4>1, <6>1
          <6>4. N[q[i + 1]].next = IF i + 1 = l THEN 0 ELSE q[i + 1 + 1]
            BY <1>5x, <6>1
          <6>5. i # l - 1 => r[i + 1] = q[i + 1 + 1]
            BY <4>3, <6>1
          <6>6. E.node[r[i]].next = N[q[i + 1]].next
            BY <3>6, <6>2, <6>3
          <6>7. QED
            BY <5>0, <6>4, <6>5, <6>6
        <5>4. QED
          BY <5>0, <5>1, <5>2, <5>3
      <4>7. ASSUME NEW i \in 1 .. l - 1, E.tail = r[i]
            PROVE  i = l - 1
        <5>1. CASE i < j
          <6>1. i \in 1 .. l /\ r[i] = q[i] /\ i # l
            BY <4>1, <4>3, <5>1
          <6>2. QED
            BY <1>5, <3>6, <4>7, <6>1
        <5>2. CASE i >= j
          BY <1>5, <3>6, <4>3, <4>7, <5>2
        <5>3. QED
          BY <2>2, <5>1, <5>2
      <4>8. ASSUME NEW b \in 1 .. l - 1
            PROVE  /\ E.node[r[b]].prev # k
                   /\ \A a \in 1 .. l - 1 : E.node[r[b]].prev = r[a] => a = b \/ a + 1 = b
        <5>1. PICK b1 \in 1 .. l : b1 = (IF b < j THEN b ELSE b + 1) /\ r[b] = q[b1]
          BY <2>2, <4>3
        <5>2. q[b1] \in 1 .. len /\ (b1 = j + 1 <=> b = j)
          BY <1>5, <2>2, <5>1
        <5>3. CASE b = j
          <6>1. E.node[r[b]].prev = q[j - 1]
            BY <2>2, <3>0, <3>6, <4>1, <5>1, <5>2, <5>3
          <6>2. ASSUME NEW a \in 1 .. l - 1, q[j - 1] = r[a]
                PROVE  a = j - 1
            <7>1. PICK a1 \in 1 .. l : a1 = (IF a < j THEN a ELSE a + 1) /\ r[a] = q[a1]
              BY <2>2, <4>3
            <7>2. a1 = j - 1
              BY <1>5, <4>1, <6>2, <7>1
            <7>3. QED
              BY <2>2, <7>1, <7>2
          <6>3. QED
            BY <2>2, <3>10, <4>1, <5>3, <6>1, <6>2
        <5>4. CASE b # j
          <6>1. q[b1] # after /\ b1 # j + 1 /\ b1 # j
            BY <1>5, <2>2, <3>0, <5>1, <5>2, <5>4
          <6>2. E.node[r[b]].prev = N[q[b1]].prev
            BY <3>6, <5>1, <5>2, <6>1
          <6>3. N[q[b1]].prev # k
            BY <1>5, <2>1, <6>1
          <6>4. ASSUME NEW a \in 1 .. l - 1, N[q[b1]].prev = r[a]
                PROVE  a = b \/ a + 1 = b
            <7>1. PICK a1 \in 1 .. l : a1 = (IF a < j THEN a ELSE a + 1) /\ r[a] = q[a1]
              BY <2>2, <4>3
            <7>2. a1 = b1 \/ a1 + 1 = b1
              BY <1>5, <6>4, <7>1
            <7>3. a1 # j
              BY <2>2, <7>1
            <7>4. QED
              BY <2>2, <5>1, <6>1, <7>1, <7>2, <7>3
          <6>5. QED
            BY <6>2, <6>3, <6>4
        <5>5. QED
          BY <5>3, <5>4
      <4>9. Ordered(E, len, l - 1, r)
        BY <4>1, <4>3, <4>4, <4>5, <4>6, <4>7, <4>8 DEF Ordered, Chain
      <4>10. Loose(E, l - 1, r, k)
        BY <4>8 DEF Loose
      <4>11. QED
        BY <1>6, <2>2, <3>7, <4>9, <4>10
    <3>11. QED
      BY <3>8, <3>9, <3>10
  <2>10. QED
    BY <2>5, <2>6, <2>7, <2>8, <2>9
<1>11. QED
  BY <1>9, <1>10

-----------------------------------------------------------------------------
(***************************************************************************)
(* The table.                                                              *)
(***************************************************************************)
(* The items of the cache.                                                 *)
Items == [name : Name, size : Nat \ {0}, inuse : Nat]

(* A table of the items I: each name leads to different items of that      *)
(* name.                                                                   *)
GoodTable(T, I) ==
  /\ T \in [Name -> Seq(1 .. Len(I))]
  /\ \A n \in Name : IsInjective(T[n]) /\ \A k \in Range(T[n]) : I[k].name = n

(* The items in the table.                                                 *)
CachedIn(T) == UNION {Range(T[n]) : n \in Name}

(* What each item adds to the total.                                       *)
Weight(T, I) == [k \in DOMAIN I |-> IF k \in CachedIn(T) THEN I[k].size ELSE 0]

(* The table when the first item named n is taken out, and when item k is  *)
(* put in.                                                                 *)
Without(T, n) == [T EXCEPT ![n] = Tail(@)]
With(T, n, k) == [T EXCEPT ![n] = <<k>> \o @]

(* The head and the tail of a queue share out its elements.                *)
LEMMA TailOfQueue ==
  ASSUME NEW S, NEW q \in Seq(S), q # <<>>
  PROVE  /\ Head(q) \in Range(q) /\ Head(q) \in S
         /\ Tail(q) \in Seq(S)
         /\ Range(Tail(q)) \subseteq Range(q)
         /\ Range(q) = Range(Tail(q)) \cup {Head(q)}
         /\ IsInjective(q) => IsInjective(Tail(q)) /\ Head(q) \notin Range(Tail(q))
<1>1. PICK l : l = Len(q)
  OBVIOUS
<1>2. /\ l \in Nat /\ l # 0 /\ DOMAIN q = 1 .. l /\ Head(q) = q[1] /\ q[1] \in S
      /\ Tail(q) \in Seq(S) /\ DOMAIN Tail(q) = 1 .. l - 1
      /\ \A i \in 1 .. l - 1 : Tail(q)[i] = q[i + 1]
  BY <1>1, LenProperties, HeadTailProperties
<1>3. \A i \in 1 .. l : i # 1 => i - 1 \in 1 .. l - 1 /\ Tail(q)[i - 1] = q[i]
  BY <1>2
<1>4. \A i \in 1 .. l - 1 : i + 1 \in 1 .. l /\ i + 1 # 1
  BY <1>2
<1>5. 1 \in 1 .. l
  BY <1>2
<1>6. Range(Tail(q)) \subseteq Range(q)
  BY <1>2, <1>4 DEF Range
<1>7. Range(q) = Range(Tail(q)) \cup {Head(q)}
  <2>1. ASSUME NEW i \in 1 .. l
        PROVE  q[i] \in Range(Tail(q)) \cup {Head(q)}
    <3>1. CASE i = 1
      BY <1>2, <3>1
    <3>2. CASE i # 1
      BY <1>2, <1>3, <3>2 DEF Range
    <3>3. QED
      BY <3>1, <3>2
  <2>2. Range(q) \subseteq Range(Tail(q)) \cup {Head(q)}
    BY <1>2, <2>1 DEF Range
  <2>3. Head(q) \in Range(q)
    BY <1>2, <1>5 DEF Range
  <2>4. QED
    BY <1>6, <2>2, <2>3
<1>8. ASSUME IsInjective(q)
      PROVE  IsInjective(Tail(q)) /\ Head(q) \notin Range(Tail(q))
  BY <1>2, <1>4, <1>5, <1>8 DEF Range, IsInjective
<1>9. QED
  BY <1>2, <1>5, <1>6, <1>7, <1>8 DEF Range

(* Eviction takes one item out of the table and leaves a table.            *)
LEMMA TakenOut ==
  ASSUME NEW I \in Seq(Items), NEW T, GoodTable(T, I), NEW n \in Name, T[n] # <<>>,
         NEW V, V = Without(T, n), NEW h, h = Head(T[n])
  PROVE  /\ GoodTable(V, I)
         /\ h \in 1 .. Len(I) /\ I[h].name = n
         /\ h \in CachedIn(T)
         /\ CachedIn(V) = CachedIn(T) \ {h}
<1>1. /\ T[n] \in Seq(1 .. Len(I)) /\ IsInjective(T[n])
      /\ \A k \in Range(T[n]) : I[k].name = n
  BY DEF GoodTable
<1>2. /\ h \in Range(T[n]) /\ h \in 1 .. Len(I)
      /\ Tail(T[n]) \in Seq(1 .. Len(I))
      /\ Range(T[n]) = Range(Tail(T[n])) \cup {h}
      /\ IsInjective(Tail(T[n])) /\ h \notin Range(Tail(T[n]))
  <2>1. PICK q : q = T[n]
    OBVIOUS
  <2>2. q \in Seq(1 .. Len(I)) /\ q # <<>> /\ IsInjective(q)
    BY <1>1, <2>1
  <2>3. /\ Head(q) \in Range(q) /\ Head(q) \in 1 .. Len(I)
        /\ Tail(q) \in Seq(1 .. Len(I))
        /\ Range(q) = Range(Tail(q)) \cup {Head(q)}
        /\ IsInjective(Tail(q)) /\ Head(q) \notin Range(Tail(q))
    BY <2>2, TailOfQueue
  <2>4. QED
    BY <2>1, <2>3
<1>3. \A m \in Name : V[m] = IF m = n THEN Tail(T[n]) ELSE T[m]
  BY DEF GoodTable, Without
<1>4. GoodTable(V, I)
  <2>1. V \in [Name -> Seq(1 .. Len(I))]
    BY <1>2 DEF GoodTable, Without
  <2>2. \A m \in Name : IsInjective(V[m]) /\ \A k \in Range(V[m]) : I[k].name = m
    BY <1>1, <1>2, <1>3 DEF GoodTable
  <2>3. QED
    BY <2>1, <2>2 DEF GoodTable
<1>5. \A m \in Name : m # n => h \notin Range(T[m])
  BY <1>1, <1>2 DEF GoodTable
<1>6. CachedIn(V) = CachedIn(T) \ {h}
  <2>1. \A m \in Name : Range(V[m]) = Range(T[m]) \ {h}
    BY <1>2, <1>3, <1>5
  <2>2. ASSUME NEW i, i \in CachedIn(V)
        PROVE  i \in CachedIn(T) \ {h}
    <3>1. PICK m \in Name : i \in Range(V[m])
      BY <2>2, Zenon DEF CachedIn
    <3>2. i \in Range(T[m]) /\ i # h
      BY <2>1, <3>1
    <3>3. QED
      BY <3>2, Zenon DEF CachedIn
  <2>3. ASSUME NEW i, i \in CachedIn(T), i # h
        PROVE  i \in CachedIn(V)
    <3>1. PICK m \in Name : i \in Range(T[m])
      BY <2>3, Zenon DEF CachedIn
    <3>2. i \in Range(V[m])
      BY <2>1, <2>3, <3>1, Zenon
    <3>3. QED
      BY <3>2, Zenon DEF CachedIn
  <2>4. QED
    BY <2>2, <2>3, Zenon
<1>7. QED
  BY <1>1, <1>2, <1>4, <1>6 DEF CachedIn

(* Item x, the k-th, is allocated and put into the table: J and V are the  *)
(* items and the table after that.                                         *)
PutInAs(I, T, n, x, J, k, V) ==
  /\ I \in Seq(Items) /\ GoodTable(T, I) /\ n \in Name
  /\ x \in Items /\ x.name = n /\ J = Append(I, x)
  /\ k = Len(I) + 1 /\ V = With(T, n, k)

(* Insertion puts the new item into the table and leaves a table.          *)
LEMMA PutIn ==
  ASSUME NEW I, NEW T, NEW n, NEW x, NEW J, NEW k, NEW V, PutInAs(I, T, n, x, J, k, V)
  PROVE  /\ J \in Seq(Items) /\ Len(J) = k
         /\ GoodTable(V, J)
         /\ CachedIn(V) = CachedIn(T) \cup {k}
<1>0. /\ I \in Seq(Items) /\ GoodTable(T, I) /\ n \in Name
      /\ x \in Items /\ x.name = n /\ J = Append(I, x)
      /\ k = Len(I) + 1 /\ V = With(T, n, k)
  BY DEF PutInAs
<1>1. /\ Len(I) \in Nat /\ k \in Nat /\ k = Len(I) + 1 /\ n \in Name /\ x.name = n
      /\ J \in Seq(Items) /\ Len(J) = k /\ J[k] = x
      /\ \A i \in 1 .. Len(I) : J[i] = I[i]
  BY <1>0, LenProperties, AppendProperties
<1>2. \A m \in Name : /\ T[m] \in Seq(1 .. Len(I)) /\ IsInjective(T[m])
                      /\ Range(T[m]) \subseteq 1 .. Len(I)
                      /\ \A i \in Range(T[m]) : I[i].name = m
  BY <1>0, RangeOfQueue DEF GoodTable
<1>3. T[n] \in Seq(1 .. k) /\ <<k>> \in Seq(1 .. k)
  <2>1. 1 .. Len(I) \subseteq 1 .. k /\ k \in 1 .. k
    BY <1>1
  <2>2. QED
    BY <1>1, <1>2, <2>1
<1>4. Range(<<k>>) = {k} /\ IsInjective(<<k>>) /\ k \notin Range(T[n])
  BY <1>1, <1>2 DEF Range, IsInjective
<1>5. /\ <<k>> \o T[n] \in Seq(1 .. k)
      /\ Range(<<k>> \o T[n]) = Range(T[n]) \cup {k}
      /\ IsInjective(<<k>> \o T[n])
  <2>1. Range(<<k>>) \cap Range(T[n]) = {}
    BY <1>4
  <2>2. IsInjective(T[n])
    BY <1>1, <1>2
  <2>3. PICK a, b : a = <<k>> /\ b = T[n]
    OBVIOUS
  <2>4. /\ a \in Seq(1 .. k) /\ b \in Seq(1 .. k) /\ Range(a) \cap Range(b) = {}
        /\ IsInjective(a) /\ IsInjective(b)
    BY <1>3, <1>4, <2>1, <2>2, <2>3
  <2>5. /\ a \o b \in Seq(1 .. k)
        /\ Range(a \o b) = Range(a) \cup Range(b)
        /\ IsInjective(a \o b)
    BY <2>4, ConcatQueue
  <2>6. QED
    BY <1>4, <2>3, <2>5
<1>6. \A m \in Name : V[m] = IF m = n THEN <<k>> \o T[n] ELSE T[m]
  BY <1>0 DEF GoodTable, With
<1>7. GoodTable(V, J)
  <2>1. \A m \in Name : V[m] \in Seq(1 .. k)
    <3>1. 1 .. Len(I) \subseteq 1 .. k
      BY <1>1
    <3>2. \A m \in Name : T[m] \in Seq(1 .. k)
      BY <1>0, <1>2, <3>1
    <3>3. QED
      BY <1>5, <1>6, <3>2
  <2>2. V \in [Name -> Seq(1 .. k)]
    BY <1>0, <2>1 DEF GoodTable, With
  <2>3. ASSUME NEW m \in Name
        PROVE  IsInjective(V[m]) /\ \A i \in Range(V[m]) : J[i].name = m
    <3>1. \A i \in Range(T[m]) : J[i].name = m
      BY <1>1, <1>2
    <3>2. CASE m = n
      <4>1. V[m] = <<k>> \o T[n]
        BY <1>6, <3>2
      <4>2. \A i \in Range(V[m]) : i \in Range(T[m]) \/ i = k
        BY <1>5, <3>2, <4>1, Zenon
      <4>3. J[k].name = m
        BY <1>1, <3>2
      <4>4. IsInjective(V[m])
        BY <1>5, <4>1, Zenon
      <4>5. QED
        BY <3>1, <4>2, <4>3, <4>4, Zenon
    <3>3. CASE m # n
      <4>1. V[m] = T[m]
        BY <1>6, <3>3
      <4>2. QED
        BY <1>2, <3>1, <4>1, Zenon
    <3>4. QED
      BY <3>2, <3>3
  <2>4. QED
    BY <1>1, <2>2, <2>3 DEF GoodTable
<1>8. CachedIn(V) = CachedIn(T) \cup {k}
  <2>1. V[n] = <<k>> \o T[n] /\ \A m \in Name : m # n => V[m] = T[m]
    BY <1>1, <1>6
  <2>2. Range(V[n]) = Range(T[n]) \cup {k}
    BY <1>5, <2>1, Zenon
  <2>3. ASSUME NEW i, i \in CachedIn(V)
        PROVE  i \in CachedIn(T) \cup {k}
    <3>1. PICK m \in Name : i \in Range(V[m])
      BY <2>3 DEF CachedIn
    <3>2. CASE m = n
      BY <2>2, <3>1, <3>2, Zenon DEF CachedIn
    <3>3. CASE m # n
      BY <2>1, <3>1, <3>3, Zenon DEF CachedIn
    <3>4. QED
      BY <3>2, <3>3
  <2>4. ASSUME NEW i, i \in CachedIn(T)
        PROVE  i \in CachedIn(V)
    <3>1. PICK m \in Name : i \in Range(T[m])
      BY <2>4 DEF CachedIn
    <3>2. i \in Range(V[m])
      <4>1. CASE m = n
        BY <2>2, <3>1, <4>1, Zenon
      <4>2. CASE m # n
        BY <2>1, <3>1, <4>2, Zenon
      <4>3. QED
        BY <4>1, <4>2
    <3>3. QED
      BY <3>2, Zenon DEF CachedIn
  <2>5. k \in CachedIn(V)
    BY <1>1, <2>2, Zenon DEF CachedIn
  <2>6. QED
    BY <2>3, <2>4, <2>5, Zenon
<1>9. QED
  BY <1>1, <1>7, <1>8

(* Only items are in the table.                                            *)
LEMMA CachedAreItems ==
  ASSUME NEW I, NEW T, GoodTable(T, I)
  PROVE  CachedIn(T) \subseteq 1 .. Len(I)
<1>1. ASSUME NEW n \in Name
      PROVE  Range(T[n]) \subseteq 1 .. Len(I)
  BY RangeOfQueue DEF GoodTable
<1>2. QED
  BY <1>1, Zenon DEF CachedIn

(* Weights are sizes or nothing, and their sum is a natural.               *)
LEMMA WeightIsNat ==
  ASSUME NEW I \in Seq(Items), NEW T
  PROVE  /\ \A k \in 1 .. Len(I) : /\ Weight(T, I)[k] \in Nat
                                   /\ Weight(T, I)[k] = IF k \in CachedIn(T) THEN I[k].size ELSE 0
                                   /\ I[k].size \in Nat
         /\ SumUpTo(Weight(T, I), Len(I)) \in Nat
<1>1. Len(I) \in Nat /\ DOMAIN I = 1 .. Len(I) /\ \A k \in 1 .. Len(I) : I[k] \in Items
  BY LenProperties
<1>2. \A k \in 1 .. Len(I) : I[k].size \in Nat
  BY <1>1 DEF Items
<1>3. \A k \in 1 .. Len(I) : /\ Weight(T, I)[k] \in Nat
                             /\ Weight(T, I)[k] = IF k \in CachedIn(T) THEN I[k].size ELSE 0
  BY <1>1, <1>2 DEF Weight
<1>4. SumUpTo(Weight(T, I), Len(I)) \in Nat
  BY <1>1, <1>3, SumOfNats
<1>5. QED
  BY <1>2, <1>3, <1>4

(* Taking an item out makes the sum smaller by its size.                   *)
LEMMA WeightTakenOut ==
  ASSUME NEW I \in Seq(Items), NEW T, NEW V, NEW h \in 1 .. Len(I),
         h \in CachedIn(T), CachedIn(V) = CachedIn(T) \ {h}
  PROVE  SumUpTo(Weight(V, I), Len(I)) = SumUpTo(Weight(T, I), Len(I)) - I[h].size
<1>1. PICK f, e, l : f = Weight(T, I) /\ e = Weight(V, I) /\ l = Len(I)
  OBVIOUS
<1>2. /\ l \in Nat /\ h \in 1 .. l
      /\ \A i \in 1 .. l : f[i] \in Nat /\ e[i] \in Nat
      /\ \A i \in 1 .. l : i # h => f[i] = e[i]
      /\ f[h] = I[h].size /\ e[h] = 0
      /\ SumUpTo(f, l) \in Nat
  BY <1>1, WeightIsNat, LenProperties
<1>3. SumUpTo(e, l) = SumUpTo(f, l) - f[h] + e[h]
  <2>1. \A i \in 1 .. l : f[i] \in Nat /\ e[i] \in Nat
    BY <1>2
  <2>2. \A i \in 1 .. l : i # h => f[i] = e[i]
    BY <1>2
  <2>3. l \in Nat /\ h \in 1 .. l
    BY <1>2
  <2>4. QED
    BY <2>1, <2>2, <2>3, SumWithOneChanged, Zenon
<1>4. QED
  BY <1>1, <1>2, <1>3

(* Putting an item in makes it larger by its size.                         *)
LEMMA WeightPutIn ==
  ASSUME NEW I, NEW T, NEW n, NEW x, NEW J, NEW k, NEW V, PutInAs(I, T, n, x, J, k, V)
  PROVE  SumUpTo(Weight(V, J), Len(J)) = SumUpTo(Weight(T, I), Len(I)) + x.size
<1>1. PICK f, e, l : f = Weight(T, I) /\ e = Weight(V, J) /\ l = Len(I)
  OBVIOUS
<1>0. /\ I \in Seq(Items) /\ x \in Items /\ J = Append(I, x) /\ k = Len(I) + 1
      /\ CachedIn(T) \subseteq 1 .. Len(I) /\ CachedIn(V) = CachedIn(T) \cup {k}
  <2>1. /\ I \in Seq(Items) /\ x \in Items /\ J = Append(I, x) /\ k = Len(I) + 1 /\ GoodTable(T, I)
    BY DEF PutInAs
  <2>2. CachedIn(V) = CachedIn(T) \cup {k}
    BY PutIn
  <2>3. QED
    BY <2>1, <2>2, CachedAreItems
<1>2. /\ l \in Nat /\ k = l + 1 /\ Len(J) = k /\ J \in Seq(Items) /\ J[k] = x
      /\ \A i \in 1 .. l : J[i] = I[i]
  BY <1>0, <1>1, LenProperties, AppendProperties
<1>3. \A i \in 1 .. k : e[i] = IF i \in CachedIn(V) THEN J[i].size ELSE 0
  BY <1>1, <1>2, WeightIsNat
<1>4. \A i \in 1 .. l : f[i] = IF i \in CachedIn(T) THEN I[i].size ELSE 0
  BY <1>0, <1>1, WeightIsNat
<1>5. \A i \in 1 .. l : i # k /\ i \in 1 .. k
  BY <1>2
<1>6. \A i \in 1 .. l : e[i] = f[i]
  BY <1>0, <1>2, <1>3, <1>4, <1>5
<1>7. k \in 1 .. k
  BY <1>2
<1>8. e[k] = x.size
  BY <1>0, <1>2, <1>3, <1>7
<1>9. SumUpTo(e, l) = SumUpTo(f, l)
  BY <1>2, <1>6, SumDependsOnTerms
<1>10. SumUpTo(e, l + 1) = SumUpTo(e, l) + e[l + 1]
  BY <1>2, SumByTurns
<1>11. QED
  BY <1>1, <1>2, <1>8, <1>9, <1>10

(* Use counts do not weigh anything.                                       *)
LEMMA WeightUnchanged ==
  ASSUME NEW I \in Seq(Items), NEW J \in Seq(Items), Len(J) = Len(I), NEW T,
         \A k \in 1 .. Len(I) : J[k].size = I[k].size
  PROVE  SumUpTo(Weight(T, J), Len(J)) = SumUpTo(Weight(T, I), Len(I))
<1>1. PICK f, e, l : f = Weight(T, I) /\ e = Weight(T, J) /\ l = Len(I)
  OBVIOUS
<1>2. l \in Nat /\ \A i \in 1 .. l : f[i] = e[i]
  <2>1. l \in Nat
    BY <1>1, LenProperties
  <2>2. \A i \in 1 .. l : f[i] = IF i \in CachedIn(T) THEN I[i].size ELSE 0
    BY <1>1, WeightIsNat
  <2>3. \A i \in 1 .. l : e[i] = IF i \in CachedIn(T) THEN J[i].size ELSE 0
    BY <1>1, WeightIsNat
  <2>4. \A i \in 1 .. l : J[i].size = I[i].size
    BY <1>1
  <2>5. QED
    BY <2>1, <2>2, <2>3, <2>4
<1>3. SumUpTo(f, l) = SumUpTo(e, l)
  BY <1>2, SumDependsOnTerms
<1>4. QED
  BY <1>1, <1>3

-----------------------------------------------------------------------------
(* A list through which NULL was followed needs no order any more.         *)
LEMMA FaultSound ==
  ASSUME NEW len \in Nat, NEW L, SoundList(L, len)
  PROVE  SoundList(Fault(L), len) /\ Fault(L).head = -1
<1>1. Pointers(L, len)
  BY DEF SoundList
<1>2. PICK N, h, t : L = [node |-> N, head |-> h, tail |-> t]
  BY <1>1 DEF Pointers
<1>3. Fault(L) = [node |-> N, head |-> -1, tail |-> t]
  BY <1>2 DEF Fault
<1>4. PICK E : E = Fault(L)
  OBVIOUS
<1>5. E.node = L.node /\ E.head = -1 /\ E.tail = L.tail /\ E = [node |-> E.node, head |-> E.head, tail |-> E.tail]
  BY <1>2, <1>3, <1>4
<1>6. Pointers(E, len)
  BY <1>1, <1>5 DEF Pointers
<1>7. QED
  BY <1>4, <1>5, <1>6 DEF SoundList

(* A node that was just allocated is on no list.                           *)
LEMMA AddedSound ==
  ASSUME NEW len \in Nat, NEW L, SoundList(L, len), L.head # -1, NEW n \in Name,
         NEW A, A = [L EXCEPT !.node = Append(@, [name |-> n, next |-> 0, prev |-> 0])]
  PROVE  /\ Pointers(A, len + 1) /\ A.head # -1
         /\ \E l, q : Ordered(A, len + 1, l, q) /\ Loose(A, l, q, len + 1)
<1>1. PICK N, h, t : L = [node |-> N, head |-> h, tail |-> t]
  BY DEF SoundList, Pointers
<1>2. L.node = N /\ L.head = h /\ L.tail = t
  BY <1>1
<1>3. /\ N \in Seq(Node) /\ Len(N) = len /\ h \in 0 .. len /\ t \in 0 .. len /\ (h > 0 => t > 0)
      /\ \A j \in 1 .. len : N[j].next \in 0 .. len /\ N[j].prev \in 0 .. len
  BY <1>2 DEF SoundList, Pointers, Nodes
<1>4. PICK l, q : Ordered(L, len, l, q)
  BY DEF SoundList
<1>5. /\ l \in Nat /\ q \in [1 .. l -> 1 .. len]
      /\ \A i, j \in 1 .. l : q[i] = q[j] => i = j
      /\ h = IF l = 0 THEN 0 ELSE q[1]
      /\ \A i \in 1 .. l : N[q[i]].next = IF i = l THEN 0 ELSE q[i + 1]
      /\ \A i \in 1 .. l : t = q[i] => i = l
      /\ \A i, j \in 1 .. l : N[q[j]].prev = q[i] => i = j \/ i + 1 = j
  BY <1>2, <1>4 DEF Ordered, Chain
<1>6. PICK x, M : x = [name |-> n, next |-> 0, prev |-> 0] /\ M = Append(N, x)
  OBVIOUS
<1>7. x \in Node /\ x.next = 0 /\ x.prev = 0
  BY <1>6 DEF Node
<1>8. /\ M \in Seq(Node) /\ Len(M) = len + 1 /\ M[len + 1] = x
      /\ \A i \in 1 .. len : M[i] = N[i]
  BY <1>3, <1>6, <1>7, AppendProperties
<1>9. A = [node |-> M, head |-> h, tail |-> t]
  BY <1>1, <1>6
<1>10. A.node = M /\ A.head = h /\ A.tail = t
  BY <1>9
<1>11. Pointers(A, len + 1)
  <2>1. \A k \in 1 .. len + 1 : M[k].next \in 0 .. len + 1 /\ M[k].prev \in 0 .. len + 1
    <3>1. \A k \in 1 .. len + 1 : k = len + 1 \/ k \in 1 .. len
      OBVIOUS
    <3>2. \A k \in 0 .. len : k \in 0 .. len + 1
      OBVIOUS
    <3>3. 0 \in 0 .. len + 1
      OBVIOUS
    <3>4. QED
      BY <1>3, <1>7, <1>8, <3>1, <3>2, <3>3
  <2>2. A = [node |-> A.node, head |-> A.head, tail |-> A.tail]
    BY <1>9, <1>10
  <2>3. h \in -1 .. len + 1 /\ t \in 0 .. len + 1
    BY <1>3
  <2>4. QED
    BY <1>3, <1>8, <1>10, <2>1, <2>2, <2>3 DEF Pointers, Nodes
<1>12. \A i \in 1 .. l : q[i] \in 1 .. len /\ q[i] \in 1 .. len + 1 /\ A.node[q[i]] = N[q[i]]
  BY <1>5, <1>8, <1>10
<1>13. Ordered(A, len + 1, l, q)
  <2>1. q \in [1 .. l -> 1 .. len + 1]
    BY <1>5, <1>12
  <2>2. QED
    BY <1>5, <1>10, <1>12, <2>1 DEF Ordered, Chain
<1>14. Loose(A, l, q, len + 1)
  <2>1. \A i \in 1 .. l : N[q[i]].prev # len + 1
    BY <1>3, <1>12
  <2>2. QED
    BY <1>12, <2>1 DEF Loose
<1>15. A.head # -1
  BY <1>3, <1>10
<1>16. QED
  BY <1>11, <1>13, <1>14, <1>15, Zenon

(* The steps of cache_insert on the list (enqueue of the new node, then    *)
(* move_to_tail of its name) leave it in order, or have followed NULL,     *)
(* even if the name was on the list before.                                *)
LEMMA RelinkedSound ==
  ASSUME item \in Seq(Items), NEW L, SoundList(L, Len(item)), L.head # -1, NEW n \in Name
  PROVE  SoundList(Relinked(L, n), Len(item) + 1)
<1>0. Len(item) \in Nat /\ Len(item) + 1 \in Nat /\ Len(item) + 1 \in 1 .. Len(item) + 1
  BY LenProperties
<1>1. PICK len : len = Len(item) + 1
  OBVIOUS
<1>1n. len \in Nat /\ len \in 1 .. len
  BY <1>0, <1>1
<1>2. PICK A : A = [L EXCEPT !.node = Append(@, [name |-> n, next |-> 0, prev |-> 0])]
  OBVIOUS
<1>3. /\ Pointers(A, len) /\ A.head # -1
      /\ \E l, q : Ordered(A, len, l, q) /\ Loose(A, l, q, len)
  BY <1>0, <1>1, <1>2, AddedSound
<1>4. PICK B : B = Enqueue(A, len)
  OBVIOUS
<1>5. SoundList(B, len) /\ B.head # -1
  BY <1>1n, <1>3, <1>4, EnqueueSound
<1>6. PICK C, k : C = Deque(B, n) /\ k = FirstNamed(B, n)
  OBVIOUS
<1>7. /\ SoundList(C, len)
      /\ k \in 0 .. len
      /\ k = 0 => C.head = -1
      /\ C.head # -1 => \E m, r : Ordered(C, len, m, r) /\ Loose(C, m, r, k)
  BY <1>1n, <1>5, <1>6, DequeSound
<1>8. Relinked(L, n) = IF C.head = -1 THEN C ELSE Enqueue(C, k)
  BY <1>1, <1>2, <1>4, <1>6 DEF Relinked, MoveToTail, Faulted
<1>9. CASE C.head = -1
  BY <1>1, <1>7, <1>8, <1>9
<1>10. CASE C.head # -1
  <2>1. k \in 1 .. len
    BY <1>1n, <1>7, <1>10
  <2>2. PICK m, r : Ordered(C, len, m, r) /\ Loose(C, m, r, k)
    BY <1>7, <1>10
  <2>3. Pointers(C, len)
    BY <1>7 DEF SoundList
  <2>4. SoundList(Enqueue(C, k), len)
    BY <1>1n, <1>10, <2>1, <2>2, <2>3, EnqueueSound
  <2>5. QED
    BY <1>1, <1>8, <1>10, <2>4
<1>11. QED
  BY <1>9, <1>10

-----------------------------------------------------------------------------
(* The invariant, and cache_evict.                                          *)
(* The types of what the cache and its workers hold.                       *)
Typed ==
  /\ item \in Seq(Items)
  /\ \A k \in 1 .. Len(item) : item[k].size \in FileSizes[item[k].name]
  /\ pc \in [Worker -> {"idle", "insert", "send", "null"}]
  /\ file \in [Worker -> [name : Name \cup {""}, size : Nat]]
  /\ \A w \in Worker : pc[w] # "idle" =>
       file[w].name \in Name /\ file[w].size \in FileSizes[file[w].name]
  /\ held \in [Worker -> 0 .. Len(item)]

(* total_file_size is the sum of the sizes in the table.                   *)
Totalled == total = SumUpTo(Weight(table, item), Len(item))

(* A worker uses an item only while it sends the file.                     *)
OnlySendersHold == \A w \in Worker : pc[w] # "send" => held[w] = 0

(* The inductive invariant.                                                *)
CInv == /\ Typed /\ GoodTable(table, item) /\ SoundList(lru, Len(item))
        /\ Totalled /\ InUseCounts /\ HeldStaysCached /\ OnlySendersHold

-----------------------------------------------------------------------------
(* What is true of the cache c between two turns of cache_evict's second   *)
(* loop: as before it began, but for unused items that are no longer in    *)
(* the table.                                                              *)
Evicting(c) ==
  /\ c = [table |-> c.table, total |-> c.total, lru |-> c.lru, tmp |-> c.tmp, evicted |-> c.evicted]
  /\ GoodTable(c.table, item)
  /\ CachedIn(c.table) \subseteq CachedIn(table)
  /\ \A k \in CachedIn(table) : k \notin CachedIn(c.table) => Unused(k)
  /\ c.total = SumUpTo(Weight(c.table, item), Len(item))
  /\ SoundList(c.lru, Len(item))
  /\ c.lru.head # -1 => c.tmp \in 0 .. Len(item)

(* So it is when eviction starts.                                          *)
LEMMA PresentEvicting ==
  ASSUME CInv
  PROVE  Evicting(Present)
<1>1. PICK c : c = Present
  OBVIOUS
<1>2. /\ c = [table |-> table, total |-> total, lru |-> lru, tmp |-> lru.head, evicted |-> 0]
      /\ c.table = table /\ c.total = total /\ c.lru = lru /\ c.tmp = lru.head /\ c.evicted = 0
  BY <1>1 DEF Present
<1>3. lru.head \in -1 .. Len(item) /\ Len(item) \in Nat
  BY LenProperties DEF CInv, SoundList, Pointers, Typed
<1>4. lru.head # -1 => lru.head \in 0 .. Len(item)
  BY <1>3
<1>5. Evicting(c)
  BY <1>2, <1>4 DEF CInv, Evicting, Totalled
<1>6. QED
  BY <1>1, <1>5

(* Each turn of the second loop of cache_evict keeps it so.                *)
LEMMA TurnEvicting ==
  ASSUME item \in Seq(Items), NEW c, Evicting(c), c.lru.head # -1, c.tmp # 0
  PROVE  Evicting(EvictTurn(c))
<1>0. Len(item) \in Nat
  BY LenProperties
<1>1. PICK T, s, L, t, e : c = [table |-> T, total |-> s, lru |-> L, tmp |-> t, evicted |-> e]
  BY DEF Evicting
<1>2. c.table = T /\ c.total = s /\ c.lru = L /\ c.tmp = t /\ c.evicted = e
  BY <1>1
<1>3. /\ GoodTable(T, item)
      /\ CachedIn(T) \subseteq CachedIn(table)
      /\ \A k \in CachedIn(table) : k \notin CachedIn(T) => Unused(k)
      /\ s = SumUpTo(Weight(T, item), Len(item))
      /\ SoundList(L, Len(item))
      /\ L.head # -1 /\ t \in 1 .. Len(item)
  BY <1>0, <1>2 DEF Evicting
<1>4. PICK N : N = L.node
  OBVIOUS
<1>5. /\ N \in Seq(Node) /\ Len(N) = Len(item)
      /\ \A k \in 1 .. Len(item) : N[k].next \in 0 .. Len(item)
  BY <1>3, <1>4 DEF SoundList, Pointers, Nodes
<1>6. PICK n : n = N[t].name
  OBVIOUS
<1>7. n \in Name
  <2>1. N[t] \in Node
    BY <1>3, <1>5, LenProperties
  <2>2. QED
    BY <1>6, <2>1 DEF Node
<1>8. PICK left, k : left = Deque(L, n) /\ k = FirstNamed(L, n)
  OBVIOUS
<1>9. /\ SoundList(left, Len(item))
      /\ k \in 0 .. Len(item)
      /\ k = 0 => left.head = -1
  BY <1>0, <1>3, <1>8, DequeSound
<1>10. PICK h : h = Head(T[n])
  OBVIOUS
<1>11. CASE T[n] = <<>>
  <2>1. EvictTurn(c) = [table |-> T, total |-> s, lru |-> Fault(L), tmp |-> t, evicted |-> e]
    BY <1>1, <1>4, <1>6, <1>11 DEF EvictTurn
  <2>2. PICK d : d = EvictTurn(c)
    OBVIOUS
  <2>3. d.table = T /\ d.total = s /\ d.lru = Fault(L) /\ d.tmp = t /\ d.evicted = e
    BY <2>1, <2>2
  <2>4. SoundList(Fault(L), Len(item)) /\ Fault(L).head = -1
    BY <1>0, <1>3, FaultSound
  <2>5. Evicting(d)
    BY <1>3, <2>1, <2>2, <2>3, <2>4 DEF Evicting
  <2>6. QED
    BY <2>2, <2>5
<1>12. CASE T[n] # <<>> /\ ~Unused(h)
  <2>1. EvictTurn(c) = [table |-> T, total |-> s, lru |-> L, tmp |-> N[t].next, evicted |-> e]
    BY <1>1, <1>4, <1>6, <1>10, <1>12 DEF EvictTurn
  <2>2. PICK d : d = EvictTurn(c)
    OBVIOUS
  <2>3. d.table = T /\ d.total = s /\ d.lru = L /\ d.tmp = N[t].next /\ d.evicted = e
    BY <2>1, <2>2
  <2>4. N[t].next \in 0 .. Len(item)
    BY <1>3, <1>5
  <2>5. Evicting(d)
    BY <1>3, <2>1, <2>2, <2>3, <2>4 DEF Evicting
  <2>6. QED
    BY <2>2, <2>5
<1>13. CASE T[n] # <<>> /\ Unused(h) /\ left.head = -1
  <2>1. EvictTurn(c) = [table |-> T, total |-> s, lru |-> left, tmp |-> t, evicted |-> e]
    BY <1>1, <1>4, <1>6, <1>8, <1>10, <1>13 DEF EvictTurn, Unlinked, Faulted
  <2>2. PICK d : d = EvictTurn(c)
    OBVIOUS
  <2>3. d.table = T /\ d.total = s /\ d.lru = left /\ d.tmp = t /\ d.evicted = e
    BY <2>1, <2>2
  <2>4. Evicting(d)
    BY <1>3, <1>9, <1>13, <2>1, <2>2, <2>3 DEF Evicting
  <2>5. QED
    BY <2>2, <2>4
<1>14. CASE T[n] # <<>> /\ Unused(h) /\ left.head # -1
  <2>1. PICK V : V = Without(T, n)
    OBVIOUS
  <2>2. /\ GoodTable(V, item)
        /\ h \in 1 .. Len(item) /\ h \in CachedIn(T)
        /\ CachedIn(V) = CachedIn(T) \ {h}
    BY <1>3, <1>7, <1>10, <1>14, <2>1, TakenOut
  <2>3. EvictTurn(c) = [table |-> V, total |-> s - item[h].size, lru |-> left,
                        tmp |-> left.node[k].next, evicted |-> e + item[h].size]
    BY <1>1, <1>4, <1>6, <1>8, <1>10, <1>14, <2>1 DEF EvictTurn, Unlinked, Faulted, Reclaimed, Without
  <2>4. PICK d : d = EvictTurn(c)
    OBVIOUS
  <2>5. /\ d.table = V /\ d.total = s - item[h].size /\ d.lru = left
        /\ d.tmp = left.node[k].next /\ d.evicted = e + item[h].size
    BY <2>3, <2>4
  <2>6. SumUpTo(Weight(V, item), Len(item)) = s - item[h].size
    BY <1>3, <2>2, WeightTakenOut
  <2>7. left.node[k].next \in 0 .. Len(item)
    <3>1. k \in 1 .. Len(item)
      BY <1>0, <1>9, <1>14
    <3>2. QED
      BY <1>9, <3>1 DEF SoundList, Pointers
  <2>8. CachedIn(V) \subseteq CachedIn(table) /\ \A i \in CachedIn(table) : i \notin CachedIn(V) => Unused(i)
    BY <1>3, <1>14, <2>2
  <2>9. d = [table |-> d.table, total |-> d.total, lru |-> d.lru, tmp |-> d.tmp, evicted |-> d.evicted]
    BY <2>3, <2>4, <2>5
  <2>10. Evicting(d)
    BY <1>9, <2>2, <2>5, <2>6, <2>7, <2>8, <2>9 DEF Evicting
  <2>11. QED
    BY <2>4, <2>10
<1>15. QED
  BY <1>11, <1>12, <1>13, <1>14

(* g holds what m turns of that loop make of the cache.                    *)
Turns(size, m, g) ==
  g = [i \in 0 .. m |->
        IF i = 0 THEN Present
        ELSE LET c == g[i - 1]
             IN IF c.tmp = 0 \/ c.evicted >= size \/ Faulted(c.lru) THEN c ELSE EvictTurn(c)]

(* They exist, for every m.                                                *)
LEMMA TurnsExist ==
  ASSUME NEW size, NEW n \in Nat
  PROVE  \E g : Turns(size, n, g)
<1> DEFINE S == {m \in Nat : \E g : Turns(size, m, g)}
           next(c) == IF c.tmp = 0 \/ c.evicted >= size \/ Faulted(c.lru) THEN c ELSE EvictTurn(c)
<1> HIDE DEF next
<1>0. ASSUME NEW m \in Nat, NEW g
      PROVE  Turns(size, m, g) <=> g = [i \in 0 .. m |-> IF i = 0 THEN Present ELSE next(g[i - 1])]
  BY DEF Turns, next
<1>1. 0 \in S
  <2>1. PICK g : g = [i \in 0 .. 0 |-> Present]
    OBVIOUS
  <2>2. g = [i \in 0 .. 0 |-> IF i = 0 THEN Present ELSE next(g[i - 1])]
    BY <2>1
  <2>3. QED
    BY <1>0, <2>2
<1>2. ASSUME NEW m \in Nat, m \in S
      PROVE  m + 1 \in S
  <2>1. PICK g : g = [i \in 0 .. m |-> IF i = 0 THEN Present ELSE next(g[i - 1])]
    BY <1>0, <1>2
  <2>2. PICK h : h = [i \in 0 .. m + 1 |-> IF i = m + 1 THEN next(g[m]) ELSE g[i]]
    OBVIOUS
  <2>3. ASSUME NEW i \in 0 .. m + 1
        PROVE  h[i] = IF i = 0 THEN Present ELSE next(h[i - 1])
    <3>1. CASE i = m + 1
      BY <2>1, <2>2, <3>1
    <3>2. CASE i # m + 1
      <4>1. i \in 0 .. m /\ (i # 0 => i - 1 \in 0 .. m /\ i - 1 # m + 1 /\ i - 1 \in 0 .. m + 1)
        BY <3>2
      <4>2. h[i] = g[i] /\ (i # 0 => h[i - 1] = g[i - 1])
        BY <2>2, <3>2, <4>1
      <4>3. g[i] = IF i = 0 THEN Present ELSE next(g[i - 1])
        BY <2>1, <4>1
      <4>4. QED
        BY <4>2, <4>3
    <3>3. QED
      BY <3>1, <3>2
  <2>4. h = [i \in 0 .. m + 1 |-> IF i = 0 THEN Present ELSE next(h[i - 1])]
    BY <2>2, <2>3
  <2>5. m + 1 \in Nat
    OBVIOUS
  <2>6. QED
    BY <1>0, <2>4, <2>5
<1> HIDE DEF S
<1>3. n \in S
  BY <1>1, <1>2, SetInduction
<1>4. QED
  BY <1>3 DEF S

(* Evict is the last of them.                                              *)
LEMMA EvictByTurns ==
  ASSUME NEW size, MaxTurns \in Nat
  PROVE  \E g : Turns(size, MaxTurns, g) /\ Evict(size) = g[MaxTurns]
<1> DEFINE g == CHOOSE h : Turns(size, MaxTurns, h)
<1>1. Turns(size, MaxTurns, g)
  BY TurnsExist
<1>2. Evict(size) = g[MaxTurns]
  BY DEF Evict, Turns
<1>3. QED
  BY <1>1, <1>2

(* So the cache is sound when cache_evict returns.                         *)
LEMMA EvictEvicting ==
  ASSUME CInv, NEW size
  PROVE  Evicting(Evict(size))
<1>0. item \in Seq(Items) /\ Len(item) \in Nat
  BY LenProperties DEF CInv, Typed
<1>1. MaxTurns \in Nat
  <2>1. ASSUME NEW a \in Nat
        PROVE  (a + 1) * a \in Nat
    OBVIOUS
  <2>2. QED
    BY <1>0, <2>1 DEF MaxTurns
<1>2. PICK g : Turns(size, MaxTurns, g) /\ Evict(size) = g[MaxTurns]
  BY <1>1, EvictByTurns
<1> DEFINE S == {i \in Nat : i <= MaxTurns => Evicting(g[i])}
<1>3. 0 \in S
  BY <1>1, <1>2, PresentEvicting DEF Turns
<1>4. ASSUME NEW i \in Nat, i \in S
      PROVE  i + 1 \in S
  <2>1. SUFFICES ASSUME i + 1 <= MaxTurns
                 PROVE  Evicting(g[i + 1])
    OBVIOUS
  <2>2. PICK c : c = g[i]
    OBVIOUS
  <2>3. Evicting(c)
    BY <1>1, <1>4, <2>1, <2>2
  <2>4. g[i + 1] = IF c.tmp = 0 \/ c.evicted >= size \/ Faulted(c.lru) THEN c ELSE EvictTurn(c)
    <3>1. i + 1 \in 0 .. MaxTurns /\ i + 1 # 0 /\ (i + 1) - 1 = i
      BY <1>1, <2>1
    <3>2. g[i + 1] = IF i + 1 = 0 THEN Present
                     ELSE LET d == g[(i + 1) - 1]
                          IN IF d.tmp = 0 \/ d.evicted >= size \/ Faulted(d.lru) THEN d ELSE EvictTurn(d)
      BY <1>2, <3>1 DEF Turns
    <3>3. QED
      BY <2>2, <3>1, <3>2
  <2>5. c.lru.head # -1 /\ c.tmp # 0 => Evicting(EvictTurn(c))
    BY <1>0, <2>3, TurnEvicting
  <2>6. QED
    BY <2>3, <2>4, <2>5 DEF Faulted
<1> HIDE DEF S
<1>5. MaxTurns \in S
  BY <1>1, <1>3, <1>4, SetInduction
<1>6. QED
  BY <1>1, <1>2, <1>5 DEF S

-----------------------------------------------------------------------------
(* The steps.                                                               *)
(* The workers that hold an item can be counted.                           *)
LEMMA HoldersFinite ==
  ASSUME NEW S, S \subseteq Worker
  PROVE  IsFiniteSet(S) /\ Cardinality(S) \in 0 .. Cardinality(Worker) /\ Cardinality(S) \in Nat
<1>2. IsFiniteSet(Worker)
  BY CacheAssumption
<1>3. IsFiniteSet(S) /\ Cardinality(S) <= Cardinality(Worker)
  BY <1>2, FS_Subset
<1>4. Cardinality(S) \in Nat /\ Cardinality(Worker) \in Nat
  BY <1>2, <1>3, FS_CardinalityType
<1>5. QED
  BY <1>3, <1>4

(* What cache_lookup finds is an item in the table, with the name asked    *)
(* for.                                                                    *)
LEMMA TableItems ==
  ASSUME CInv
  PROVE  /\ InTable = CachedIn(table) /\ InTable \subseteq 1 .. Len(item)
         /\ \A n \in Name : table[n] # <<>> =>
              Head(table[n]) \in InTable /\ item[Head(table[n])].name = n
<1>1. InTable = CachedIn(table)
  BY DEF InTable, CachedIn
<1>2. CachedIn(table) \subseteq 1 .. Len(item)
  BY CachedAreItems DEF CInv
<1>3. ASSUME NEW n \in Name, table[n] # <<>>
      PROVE  Head(table[n]) \in InTable /\ item[Head(table[n])].name = n
  <2>1. PICK q : q = table[n]
    OBVIOUS
  <2>2. q \in Seq(1 .. Len(item)) /\ q # <<>> /\ \A k \in Range(q) : item[k].name = n
    BY <1>3, <2>1 DEF CInv, GoodTable
  <2>3. Head(q) \in Range(q)
    BY <2>2, TailOfQueue
  <2>4. QED
    BY <2>1, <2>2, <2>3, Zenon DEF InTable
<1>4. QED
  BY <1>1, <1>2, <1>3

(* The use count of one item changes with its set of holders.               *)
InUse(I, k, u) == [I EXCEPT ![k].inuse = u]

(* Nothing else changes with a use count.                                  *)
LEMMA UseChanged ==
  ASSUME NEW I \in Seq(Items), NEW k \in 1 .. Len(I), NEW u \in Nat,
         NEW J, J = InUse(I, k, u)
  PROVE  /\ J \in Seq(Items) /\ Len(J) = Len(I)
         /\ \A i \in 1 .. Len(I) : /\ J[i].name = I[i].name /\ J[i].size = I[i].size
                                   /\ J[i].inuse = IF i = k THEN u ELSE I[i].inuse
<1>1. PICK l : l = Len(I)
  OBVIOUS
<1>2. I \in [1 .. l -> Items] /\ l \in Nat /\ k \in 1 .. l
  BY <1>1, LenProperties
<1>3. [I[k] EXCEPT !.inuse = u] \in Items
  BY <1>2 DEF Items
<1>4. J = [I EXCEPT ![k] = [I[k] EXCEPT !.inuse = u]]
  BY DEF InUse
<1>5. J \in [1 .. l -> Items]
  BY <1>2, <1>3, <1>4
<1>6. J \in Seq(Items) /\ Len(J) = l
  BY <1>2, <1>5
<1>7. \A i \in 1 .. l : J[i] = IF i = k THEN [I[k] EXCEPT !.inuse = u] ELSE I[i]
  BY <1>2, <1>4
<1>8. \A i \in 1 .. l : I[i] \in Items
  BY <1>2
<1>9. QED
  BY <1>1, <1>6, <1>7, <1>8 DEF Items

(* A hit preserves the invariant: the item found is counted as used once   *)
(* more, by a worker that used none.                                       *)
LEMMA HitPreserves ==
  ASSUME CInv, NEW w \in Worker, NEW n \in Name, Hit(w, n)
  PROVE  CInv'
<1>1. PICK k : k = Head(table[n])
  OBVIOUS
<1>2. /\ pc[w] = "idle" /\ table[n] # <<>>
      /\ item' = [item EXCEPT ![k].inuse = @ + 1]
      /\ held' = [held EXCEPT ![w] = k]
      /\ file' = [file EXCEPT ![w] = [name |-> n, size |-> item[k].size]]
      /\ pc' = [pc EXCEPT ![w] = "send"]
      /\ table' = table /\ total' = total /\ lru' = lru
  BY <1>1 DEF Hit
<1>3. /\ InTable = CachedIn(table) /\ InTable \subseteq 1 .. Len(item)
      /\ k \in InTable /\ item[k].name = n /\ k \in 1 .. Len(item)
  BY <1>1, <1>2, TableItems
<1>4. PICK I, J, u, l : I = item /\ J = item' /\ u = item[k].inuse + 1 /\ l = Len(item)
  OBVIOUS
<1>5. I \in Seq(Items) /\ l \in Nat /\ Len(I) = l /\ k \in 1 .. l /\ u \in Nat
  <2>1. I \in Seq(Items) /\ l \in Nat /\ Len(I) = l
    BY <1>4, LenProperties DEF CInv, Typed
  <2>2. I[k] \in Items
    BY <1>3, <1>4, <2>1, LenProperties
  <2>3. u \in Nat
    BY <1>4, <2>2 DEF Items
  <2>4. QED
    BY <1>3, <1>4, <2>1, <2>3
<1>6a. J = InUse(I, k, u)
  BY <1>2, <1>4 DEF InUse
<1>6. /\ J \in Seq(Items) /\ Len(J) = l
      /\ \A i \in 1 .. l : /\ J[i].name = I[i].name /\ J[i].size = I[i].size
                           /\ J[i].inuse = IF i = k THEN u ELSE I[i].inuse
  BY <1>5, <1>6a, UseChanged
<1>7. held[w] = 0
  BY <1>2 DEF CInv, OnlySendersHold
<1>8. Typed'
  <2>1. \A i \in 1 .. l : J[i].size \in FileSizes[J[i].name]
    BY <1>4, <1>6 DEF CInv, Typed
  <2>2. held' \in [Worker -> 0 .. l]
    <3>1. held \in [Worker -> 0 .. l]
      BY <1>4, Zenon DEF CInv, Typed
    <3>2. k \in 0 .. l
      BY <1>5
    <3>3. QED
      BY <1>2, <3>1, <3>2
  <2>3. item[k].size \in FileSizes[n] /\ item[k].size \in Nat
    <3>1. item[k].size \in FileSizes[item[k].name]
      BY <1>3 DEF CInv, Typed
    <3>2. item[k] \in Items
      BY <1>3, LenProperties DEF CInv, Typed
    <3>3. QED
      BY <1>3, <3>1, <3>2 DEF Items
  <2>4. file' \in [Worker -> [name : Name \cup {""}, size : Nat]]
    <3>1. [name |-> n, size |-> item[k].size] \in [name : Name \cup {""}, size : Nat]
      BY <2>3
    <3>2. QED
      BY <1>2, <3>1 DEF CInv, Typed
  <2>5. pc' \in [Worker -> {"idle", "insert", "send", "null"}]
    BY <1>2 DEF CInv, Typed
  <2>6. ASSUME NEW v \in Worker, pc'[v] # "idle"
        PROVE  file'[v].name \in Name /\ file'[v].size \in FileSizes[file'[v].name]
    <3>1. CASE v = w
      <4>1. file'[w] = [name |-> n, size |-> item[k].size]
        BY <1>2 DEF CInv, Typed
      <4>2. QED
        BY <2>3, <3>1, <4>1
    <3>2. CASE v # w
      BY <1>2, <2>6, <3>2 DEF CInv, Typed
    <3>3. QED
      BY <3>1, <3>2
  <2>7. QED
    BY <1>4, <1>6, <2>1, <2>2, <2>4, <2>5, <2>6 DEF Typed
<1>9. GoodTable(table, item)'
  <2>1. \A m \in Name : table[m] \in Seq(1 .. l) /\ \A i \in Range(table[m]) : i \in 1 .. l /\ I[i].name = m
    BY <1>4, RangeOfQueue DEF CInv, GoodTable
  <2>2. QED
    BY <1>2, <1>4, <1>6, <2>1 DEF CInv, GoodTable
<1>10. SoundList(lru, Len(item))'
  BY <1>2, <1>4, <1>6 DEF CInv
<1>11. Totalled'
  <2>1. SumUpTo(Weight(table, J), Len(J)) = SumUpTo(Weight(table, I), Len(I))
    BY <1>5, <1>6, WeightUnchanged
  <2>2. QED
    BY <1>2, <1>4, <2>1 DEF CInv, Totalled
<1>12. InUseCounts'
  <2>1. SUFFICES ASSUME NEW i \in 1 .. l
                 PROVE  J[i].inuse = Cardinality({v \in Worker : held'[v] = i})
    BY <1>4, <1>6, LenProperties DEF InUseCounts
  <2>2. item[i].inuse = Cardinality({v \in Worker : held[v] = i})
    BY <1>4, <2>1, LenProperties DEF CInv, InUseCounts, Typed
  <2>3. \A v \in Worker : held'[v] = IF v = w THEN k ELSE held[v]
    BY <1>2 DEF CInv, Typed
  <2>4. CASE i = k
    <3>1. PICK A, B : A = {v \in Worker : held[v] = i} /\ B = {v \in Worker : held'[v] = i}
      OBVIOUS
    <3>2. k # 0
      BY <1>5
    <3>3. B = A \cup {w} /\ w \notin A
      BY <1>7, <2>3, <2>4, <3>1, <3>2
    <3>4. A \subseteq Worker
      BY <3>1
    <3>4f. IsFiniteSet(A) /\ Cardinality(A) \in Nat
      BY <3>4, HoldersFinite
    <3>5. Cardinality(B) = Cardinality(A) + 1
      BY <3>3, <3>4f, FS_AddElement
    <3>6. QED
      BY <1>4, <1>6, <2>2, <2>4, <3>1, <3>5
  <2>5. CASE i # k
    <3>1. {v \in Worker : held'[v] = i} = {v \in Worker : held[v] = i}
      BY <1>7, <2>1, <2>3, <2>5
    <3>2. QED
      BY <1>4, <1>6, <2>2, <2>5, <3>1
  <2>6. QED
    BY <2>4, <2>5
<1>13. HeldStaysCached'
  <2>1. InTable' = InTable
    BY <1>2 DEF InTable
  <2>2. \A v \in Worker : held'[v] = IF v = w THEN k ELSE held[v]
    BY <1>2 DEF CInv, Typed
  <2>3. QED
    BY <1>3, <2>1, <2>2 DEF CInv, HeldStaysCached
<1>14. OnlySendersHold'
  BY <1>2 DEF CInv, Typed, OnlySendersHold
<1>15. QED
  BY <1>8, <1>9, <1>10, <1>11, <1>12, <1>13, <1>14 DEF CInv

(* So does a miss, which only reads the file.                              *)
LEMMA MissPreserves ==
  ASSUME CInv, NEW w \in Worker, NEW n \in Name, Miss(w, n)
  PROVE  CInv'
<1>1. PICK s \in FileSizes[n] : file' = [file EXCEPT ![w] = [name |-> n, size |-> s]]
  BY DEF Miss, SizeRead
<1>2. /\ pc[w] = "idle" /\ pc' = [pc EXCEPT ![w] = "insert"]
      /\ item' = item /\ table' = table /\ total' = total /\ lru' = lru /\ held' = held
  BY DEF Miss, cache
<1>3. s \in Nat
  BY <1>1, CacheAssumption
<1>4. Typed'
  <2>1. file' \in [Worker -> [name : Name \cup {""}, size : Nat]]
    BY <1>1, <1>3 DEF CInv, Typed
  <2>2. pc' \in [Worker -> {"idle", "insert", "send", "null"}]
    BY <1>2 DEF CInv, Typed
  <2>3. ASSUME NEW v \in Worker, pc'[v] # "idle"
        PROVE  file'[v].name \in Name /\ file'[v].size \in FileSizes[file'[v].name]
    <3>1. CASE v = w
      <4>1. file'[w] = [name |-> n, size |-> s]
        BY <1>1 DEF CInv, Typed
      <4>2. QED
        BY <3>1, <4>1
    <3>2. CASE v # w
      BY <1>1, <1>2, <2>3, <3>2 DEF CInv, Typed
    <3>3. QED
      BY <3>1, <3>2
  <2>4. QED
    BY <1>2, <2>1, <2>2, <2>3 DEF CInv, Typed
<1>5. OnlySendersHold'
  BY <1>2 DEF CInv, Typed, OnlySendersHold
<1>6. QED
  BY <1>2, <1>4, <1>5
     DEF CInv, Totalled, Weight, CachedIn, InUseCounts, HeldStaysCached, InTable

(* So does the end of a request: the item is given back by one that held   *)
(* it.                                                                     *)
LEMMA FinishPreserves ==
  ASSUME CInv, NEW w \in Worker, Finish(w)
  PROVE  CInv'
<1>1. PICK k, I, J, l : k = held[w] /\ I = item /\ J = item' /\ l = Len(item)
  OBVIOUS
<1>2. /\ pc[w] = "send"
      /\ J = IF k = 0 THEN I ELSE [I EXCEPT ![k].inuse = @ - 1]
      /\ held' = [held EXCEPT ![w] = 0]
      /\ pc' = [pc EXCEPT ![w] = "idle"]
      /\ file' = [file EXCEPT ![w] = NoFile]
      /\ table' = table /\ total' = total /\ lru' = lru
  BY <1>1 DEF Finish
<1>3. /\ l \in Nat /\ k \in 0 .. l /\ I \in Seq(Items) /\ Len(I) = l
      /\ \A i \in 1 .. l : I[i] \in Items
  BY <1>1, LenProperties DEF CInv, Typed
<1>4. \A i \in 1 .. l : I[i].inuse = Cardinality({v \in Worker : held[v] = i})
  BY <1>1, <1>3, LenProperties DEF CInv, InUseCounts
<1>5. k # 0 => I[k].inuse - 1 = Cardinality({v \in Worker : held[v] = k} \ {w}) /\ I[k].inuse - 1 \in Nat
  <2>1. PICK A : A = {v \in Worker : held[v] = k}
    OBVIOUS
  <2>2a. w \in A /\ A \subseteq Worker
    BY <1>1, <2>1
  <2>2. IsFiniteSet(A)
    BY <2>2a, HoldersFinite
  <2>3. IsFiniteSet(A \ {w}) /\ Cardinality(A \ {w}) = Cardinality(A) - 1
    BY <2>2, <2>2a, FS_RemoveElement
  <2>4. Cardinality(A \ {w}) \in Nat
    BY <2>3, FS_CardinalityType
  <2>5. QED
    BY <1>3, <1>4, <2>1, <2>3, <2>4
<1>6. /\ J \in Seq(Items) /\ Len(J) = l
      /\ \A i \in 1 .. l : /\ J[i].name = I[i].name /\ J[i].size = I[i].size
                           /\ J[i].inuse = IF i = k THEN I[k].inuse - 1 ELSE I[i].inuse
  <2>1. CASE k = 0
    BY <1>2, <1>3, <2>1
  <2>2. CASE k # 0
    <3>1. PICK u : u = I[k].inuse - 1
      OBVIOUS
    <3>2. u \in Nat /\ k \in 1 .. Len(I)
      BY <1>3, <1>5, <2>2, <3>1
    <3>2j. J = InUse(I, k, u)
      BY <1>2, <2>2, <3>1 DEF InUse
    <3>3. QED
      BY <1>3, <3>1, <3>2, <3>2j, UseChanged
  <2>3. QED
    BY <2>1, <2>2
<1>7. \A v \in Worker : held'[v] = IF v = w THEN 0 ELSE held[v]
  BY <1>2 DEF CInv, Typed
<1>8. Typed'
  <2>1. \A i \in 1 .. l : J[i].size \in FileSizes[J[i].name]
    BY <1>1, <1>6 DEF CInv, Typed
  <2>2. held' \in [Worker -> 0 .. l]
    <3>1. held \in [Worker -> 0 .. l]
      BY <1>1, Zenon DEF CInv, Typed
    <3>2. 0 \in 0 .. l
      BY <1>3
    <3>3. QED
      BY <1>2, <3>1, <3>2
  <2>3. file' \in [Worker -> [name : Name \cup {""}, size : Nat]]
    <3>1. NoFile \in [name : Name \cup {""}, size : Nat]
      BY DEF NoFile
    <3>2. QED
      BY <1>2, <3>1 DEF CInv, Typed
  <2>4. pc' \in [Worker -> {"idle", "insert", "send", "null"}]
    BY <1>2 DEF CInv, Typed
  <2>5. \A v \in Worker : pc'[v] # "idle" =>
          file'[v].name \in Name /\ file'[v].size \in FileSizes[file'[v].name]
    BY <1>2 DEF CInv, Typed
  <2>6. QED
    BY <1>1, <1>6, <2>1, <2>2, <2>3, <2>4, <2>5 DEF Typed
<1>9. GoodTable(table, item)'
  <2>1. \A m \in Name : table[m] \in Seq(1 .. l) /\ \A i \in Range(table[m]) : i \in 1 .. l /\ I[i].name = m
    BY <1>1, RangeOfQueue DEF CInv, GoodTable
  <2>2. QED
    BY <1>1, <1>2, <1>6, <2>1 DEF CInv, GoodTable
<1>10. SoundList(lru, Len(item))'
  BY <1>1, <1>2, <1>6 DEF CInv
<1>11. Totalled'
  <2>1. SumUpTo(Weight(table, J), Len(J)) = SumUpTo(Weight(table, I), Len(I))
    BY <1>3, <1>6, WeightUnchanged
  <2>2. QED
    BY <1>1, <1>2, <2>1 DEF CInv, Totalled
<1>12. InUseCounts'
  <2>1. SUFFICES ASSUME NEW i \in 1 .. l
                 PROVE  J[i].inuse = Cardinality({v \in Worker : held'[v] = i})
    BY <1>1, <1>6, LenProperties DEF InUseCounts
  <2>2. CASE i = k
    <3>1. {v \in Worker : held'[v] = i} = {v \in Worker : held[v] = k} \ {w}
      BY <1>7, <2>1, <2>2
    <3>2. k # 0
      BY <2>1, <2>2
    <3>3. QED
      BY <1>5, <1>6, <2>2, <3>1, <3>2
  <2>3. CASE i # k
    <3>1. {v \in Worker : held'[v] = i} = {v \in Worker : held[v] = i}
      BY <1>1, <1>7, <2>1, <2>3
    <3>2. QED
      BY <1>4, <1>6, <2>3, <3>1
  <2>4. QED
    BY <2>2, <2>3
<1>13. HeldStaysCached'
  <2>1. InTable' = InTable
    BY <1>2 DEF InTable
  <2>2. QED
    BY <1>7, <2>1 DEF CInv, HeldStaysCached
<1>14. OnlySendersHold'
  <2>1. \A v \in Worker : v # w => pc'[v] = pc[v]
    BY <1>2 DEF CInv, Typed
  <2>2. QED
    BY <1>7, <2>1 DEF CInv, OnlySendersHold
<1>15. QED
  BY <1>8, <1>9, <1>10, <1>11, <1>12, <1>13, <1>14 DEF CInv

(* Making room leaves a sound cache, whichever way it goes.                *)
LEMMA ClearedEvicting ==
  ASSUME CInv, NEW size
  PROVE  Evicting(Cleared(size))
<1>1. Evicting(Present) /\ Evicting(Evict(size - Room))
  BY PresentEvicting, EvictEvicting
<1>2. PICK c, d : c = Present /\ d = [c EXCEPT !.lru = Fault(@)]
  OBVIOUS
<1>3. Evicting(d)
  <2>1. PICK T, s, L, t, e : c = [table |-> T, total |-> s, lru |-> L, tmp |-> t, evicted |-> e]
    BY <1>1, <1>2 DEF Evicting
  <2>2. c.table = T /\ c.total = s /\ c.lru = L /\ c.tmp = t /\ c.evicted = e
    BY <2>1
  <2>3. d = [table |-> T, total |-> s, lru |-> Fault(L), tmp |-> t, evicted |-> e]
    BY <1>2, <2>1
  <2>4. d.table = T /\ d.total = s /\ d.lru = Fault(L) /\ d.tmp = t /\ d.evicted = e
    BY <2>3
  <2>5. SoundList(L, Len(item)) /\ Len(item) \in Nat
    BY <1>1, <1>2, <2>2, LenProperties DEF Evicting, CInv, Typed
  <2>6. SoundList(Fault(L), Len(item)) /\ Fault(L).head = -1
    BY <2>5, FaultSound
  <2>7. QED
    BY <1>1, <1>2, <2>2, <2>3, <2>4, <2>6 DEF Evicting
<1>4. QED
  BY <1>1, <1>2, <1>3 DEF Cleared

(* A cache_insert that gives up, or copies the buffer an empty file does   *)
(* not have, changes nothing of the cache.                                 *)
LEMMA LeavesOut ==
  ASSUME NEW w \in Worker, Insert(w), Refused(file[w].size) \/ NoBuffer(w)
  PROVE  /\ \E s \in {"send", "null"} : pc' = [pc EXCEPT ![w] = s]
         /\ pc[w] = "insert" /\ UNCHANGED <<cache, held, file>>
<1>1. pc[w] = "insert" /\ file' = file
  BY DEF Insert
<1>2. CASE Refused(file[w].size)
  <2>1. pc' = [pc EXCEPT ![w] = "send"] /\ UNCHANGED <<cache, held>>
    BY <1>2 DEF Insert
  <2>2. QED
    BY <1>1, <2>1
<1>3. CASE ~Refused(file[w].size)
  <2>1. InsertItem(w, Cleared(file[w].size)) /\ NoBuffer(w)
    BY <1>3 DEF Insert
  <2>2. pc' = [pc EXCEPT ![w] = "null"] /\ UNCHANGED <<cache, held>>
    BY <2>1 DEF InsertItem
  <2>3. QED
    BY <1>1, <2>2
<1>4. QED
  BY <1>2, <1>3

(* So it preserves the invariant.                                          *)
LEMMA LeftOutPreserves ==
  ASSUME CInv, NEW w \in Worker, pc[w] = "insert", NEW s \in {"send", "null"},
         pc' = [pc EXCEPT ![w] = s], UNCHANGED <<cache, held, file>>
  PROVE  CInv'
<1>1. item' = item /\ table' = table /\ total' = total /\ lru' = lru /\ held' = held /\ file' = file
  BY DEF cache
<1>2. /\ pc' \in [Worker -> {"idle", "insert", "send", "null"}]
      /\ \A v \in Worker : pc'[v] = IF v = w THEN s ELSE pc[v]
  BY DEF CInv, Typed
<1>3. Typed'
  BY <1>1, <1>2 DEF CInv, Typed
<1>4. OnlySendersHold'
  BY <1>1, <1>2 DEF CInv, OnlySendersHold
<1>5. QED
  BY <1>1, <1>3, <1>4
     DEF CInv, Totalled, Weight, CachedIn, InUseCounts, HeldStaysCached, InTable

(* Neither does one that has followed NULL in the list or the table.       *)
LEMMA CrashPreserves ==
  ASSUME CInv, lru' = Fault(lru), UNCHANGED <<item, table, total, held, pc, file>>
  PROVE  CInv'
<1>1. item' = item /\ table' = table /\ total' = total /\ held' = held /\ pc' = pc /\ file' = file
  OBVIOUS
<1>2. SoundList(lru, Len(item))'
  <2>1. Len(item) \in Nat /\ SoundList(lru, Len(item))
    BY LenProperties DEF CInv, Typed
  <2>2. SoundList(Fault(lru), Len(item))
    BY <2>1, FaultSound
  <2>3. QED
    BY <1>1, <2>2
<1>3. Typed' /\ OnlySendersHold'
  BY <1>1 DEF CInv, Typed, OnlySendersHold
<1>4. GoodTable(table, item)' /\ Totalled'
  BY <1>1 DEF CInv, Totalled
<1>5. InUseCounts' /\ HeldStaysCached'
  BY <1>1 DEF CInv, InUseCounts, HeldStaysCached, InTable
<1>6. QED
  BY <1>2, <1>3, <1>4, <1>5 DEF CInv

(* The rest of cache_insert preserves the invariant: the new item is in    *)
(* the table, on the list and in the total, its only user is its worker,   *)
(* and no item that was evicted to make room was in use.                   *)
LEMMA InsertedPreserves ==
  ASSUME CInv, NEW w \in Worker, pc[w] = "insert", ~NoBuffer(w),
         NEW c, Evicting(c), c.lru.head # -1,
         item' = Append(item, [name |-> file[w].name, size |-> file[w].size, inuse |-> InsertedInUse]),
         table' = [c.table EXCEPT ![file[w].name] = <<Len(item) + 1>> \o @],
         total' = c.total + file[w].size,
         lru' = Relinked(c.lru, file[w].name),
         held' = [held EXCEPT ![w] = Len(item) + 1],
         pc' = [pc EXCEPT ![w] = "send"], file' = file
  PROVE  CInv'
<1>1. PICK n, x, I, J, l, k, T, V :
        /\ n = file[w].name /\ x = [name |-> n, size |-> file[w].size, inuse |-> 1]
        /\ I = item /\ J = item' /\ l = Len(item) /\ k = l + 1
        /\ T = c.table /\ V = table'
  OBVIOUS
<1>2. /\ n \in Name /\ file[w].size \in FileSizes[n] /\ file[w].size \in Nat \ {0}
  <2>1. n \in Name /\ file[w].size \in FileSizes[n]
    BY <1>1 DEF CInv, Typed
  <2>2. QED
    BY <2>1, CacheAssumption DEF NoBuffer
<1>3. x \in Items /\ x.name = n /\ x.size = file[w].size /\ x.inuse = 1
  BY <1>1, <1>2 DEF Items
<1>4. I \in Seq(Items) /\ l \in Nat /\ Len(I) = l /\ k \in Nat
  <2>1. item \in Seq(Items)
    BY DEF CInv, Typed
  <2>2. I \in Seq(Items) /\ Len(I) = l
    BY <1>1, <2>1
  <2>3. l \in Nat
    BY <2>2, LenProperties
  <2>4. QED
    BY <1>1, <2>2, <2>3
<1>5. J = Append(I, x) /\ V = With(T, n, k) /\ k = Len(I) + 1
  BY <1>1 DEF InsertedInUse, With
<1>6. /\ GoodTable(T, I)
      /\ CachedIn(T) \subseteq CachedIn(table)
      /\ \A i \in CachedIn(table) : i \notin CachedIn(T) => Unused(i)
      /\ c.total = SumUpTo(Weight(T, I), Len(I))
      /\ SoundList(c.lru, l)
  BY <1>1 DEF Evicting
<1>7. /\ J \in Seq(Items) /\ Len(J) = k
      /\ GoodTable(V, J)
      /\ CachedIn(V) = CachedIn(T) \cup {k}
  <2>1. PutInAs(I, T, n, x, J, k, V)
    BY <1>2, <1>3, <1>4, <1>5, <1>6 DEF PutInAs
  <2>2. /\ J \in Seq(Items) /\ Len(J) = k /\ GoodTable(V, J)
        /\ CachedIn(V) = CachedIn(T) \cup {k}
    BY <2>1, PutIn
  <2>3. QED
    BY <2>1, <2>2
<1>8. J[k] = x /\ \A i \in 1 .. l : J[i] = I[i]
  BY <1>3, <1>4, <1>5, AppendProperties
<1>9. \A v \in Worker : held'[v] = IF v = w THEN k ELSE held[v]
  BY <1>1 DEF CInv, Typed
<1>10. held[w] = 0
  BY DEF CInv, OnlySendersHold
<1>11. \A v \in Worker : held[v] \in 0 .. l /\ held[v] # k
  <2>1. held \in [Worker -> 0 .. Len(item)]
    BY Zenon DEF CInv, Typed
  <2>2. \A v \in Worker : held[v] \in 0 .. l
    BY <1>1, <2>1
  <2>3. QED
    BY <1>1, <1>4, <2>2
<1>12. Typed'
  <2>1. ASSUME NEW i \in 1 .. k
        PROVE  J[i].size \in FileSizes[J[i].name]
    <3>1. CASE i = k
      BY <1>2, <1>3, <1>8, <3>1
    <3>2. CASE i # k
      <4>1. i \in 1 .. l
        BY <1>1, <1>4, <3>2
      <4>2. QED
        BY <1>1, <1>8, <4>1 DEF CInv, Typed
    <3>3. QED
      BY <3>1, <3>2
  <2>2. held' \in [Worker -> 0 .. k]
    <3>1. \A v \in Worker : held'[v] \in 0 .. k
      BY <1>1, <1>4, <1>9, <1>11
    <3>2. QED
      BY <3>1 DEF CInv, Typed
  <2>3. /\ pc' \in [Worker -> {"idle", "insert", "send", "null"}]
        /\ \A v \in Worker : pc'[v] = IF v = w THEN "send" ELSE pc[v]
    BY DEF CInv, Typed
  <2>4. QED
    BY <1>1, <1>7, <2>1, <2>2, <2>3 DEF CInv, Typed
<1>13. SoundList(lru, Len(item))'
  <2>1. SoundList(Relinked(c.lru, n), l + 1)
    BY <1>1, <1>2, <1>4, <1>6, RelinkedSound
  <2>2. QED
    BY <1>1, <1>7, <2>1
<1>14. Totalled'
  <2>1. PutInAs(I, T, n, x, J, k, V)
    BY <1>2, <1>3, <1>4, <1>5, <1>6 DEF PutInAs
  <2>2. SumUpTo(Weight(V, J), Len(J)) = SumUpTo(Weight(T, I), Len(I)) + x.size
    BY <2>1, WeightPutIn
  <2>3. QED
    BY <1>1, <1>3, <1>6, <2>2 DEF Totalled
<1>15. InUseCounts'
  <2>1. SUFFICES ASSUME NEW i \in 1 .. k
                 PROVE  J[i].inuse = Cardinality({v \in Worker : held'[v] = i})
    BY <1>1, <1>7, LenProperties DEF InUseCounts
  <2>2. CASE i = k
    <3>1. {v \in Worker : held'[v] = i} = {w}
      BY <1>9, <1>11, <2>2
    <3>2. Cardinality({w}) = 1
      BY FS_Singleton
    <3>3. QED
      BY <1>3, <1>8, <2>2, <3>1, <3>2
  <2>3. CASE i # k
    <3>1. i \in 1 .. l /\ i # 0
      BY <1>1, <1>4, <2>3
    <3>2. {v \in Worker : held'[v] = i} = {v \in Worker : held[v] = i}
      BY <1>9, <1>10, <2>3, <3>1
    <3>3. item[i].inuse = Cardinality({v \in Worker : held[v] = i})
      BY <1>1, <1>4, <3>1, LenProperties DEF CInv, InUseCounts
    <3>4. QED
      BY <1>1, <1>8, <3>1, <3>2, <3>3
  <2>4. QED
    BY <2>2, <2>3
<1>16. HeldStaysCached'
  <2>1. InTable' = CachedIn(T) \cup {k}
    BY <1>1, <1>7 DEF InTable, CachedIn
  <2>2. ASSUME NEW v \in Worker, held[v] # 0
        PROVE  held[v] \in CachedIn(T)
    <3>1. held[v] \in CachedIn(table)
      BY <2>2, TableItems DEF CInv, HeldStaysCached
    <3>2. held[v] \in 1 .. l
      BY <1>4, <1>11, <2>2
    <3>3. ~Unused(held[v])
      <4>1. PICK A : A = {u \in Worker : held[u] = held[v]}
        OBVIOUS
      <4>2. A \subseteq Worker /\ A # {}
        BY <4>1
      <4>3. IsFiniteSet(A) /\ Cardinality(A) # 0
        BY <4>2, HoldersFinite, FS_EmptySet
      <4>4. item[held[v]].inuse = Cardinality(A)
        BY <1>1, <1>4, <3>2, <4>1, LenProperties DEF CInv, InUseCounts
      <4>5. QED
        BY <4>3, <4>4 DEF Unused
    <3>4. QED
      BY <1>6, <3>1, <3>3
  <2>3. QED
    BY <1>9, <2>1, <2>2 DEF HeldStaysCached
<1>17. OnlySendersHold'
  <2>1. \A v \in Worker : pc'[v] = IF v = w THEN "send" ELSE pc[v]
    BY DEF CInv, Typed
  <2>2. QED
    BY <1>9, <2>1 DEF CInv, OnlySendersHold
<1>18. GoodTable(table, item)'
  BY <1>1, <1>7 DEF GoodTable
<1>19. QED
  BY <1>12, <1>13, <1>14, <1>15, <1>16, <1>17, <1>18 DEF CInv

(* All ways through cache_insert preserve the invariant.                   *)
LEMMA InsertPreserves ==
  ASSUME CInv, NEW w \in Worker, Insert(w)
  PROVE  CInv'
<1>1. pc[w] = "insert" /\ file' = file
  BY DEF Insert
<1>2. CASE Refused(file[w].size) \/ NoBuffer(w)
  <2>1. PICK s \in {"send", "null"} : pc' = [pc EXCEPT ![w] = s]
    BY <1>2, LeavesOut
  <2>2. UNCHANGED <<cache, held, file>>
    BY <1>2, LeavesOut
  <2>3. QED
    BY <1>1, <2>1, <2>2, LeftOutPreserves
<1>3. CASE ~Refused(file[w].size) /\ ~NoBuffer(w)
  <2>1. PICK c : c = Cleared(file[w].size)
    OBVIOUS
  <2>2. InsertItem(w, c)
    BY <1>3, <2>1 DEF Insert
  <2>3. Evicting(c)
    BY <2>1, ClearedEvicting
  <2>4. PICK list : list = IF Faulted(c.lru) THEN c.lru ELSE Relinked(c.lru, file[w].name)
    OBVIOUS
  <2>5. CASE ~Faulted(list)
    <3>1. c.lru.head # -1 /\ list = Relinked(c.lru, file[w].name)
      BY <2>4, <2>5 DEF Faulted
    <3>2. /\ item' = Append(item, [name |-> file[w].name, size |-> file[w].size, inuse |-> InsertedInUse])
          /\ table' = [c.table EXCEPT ![file[w].name] = <<Len(item) + 1>> \o @]
          /\ total' = c.total + file[w].size
          /\ lru' = list
          /\ held' = [held EXCEPT ![w] = Len(item) + 1]
          /\ pc' = [pc EXCEPT ![w] = "send"]
      BY <1>3, <2>2, <2>4, <2>5 DEF InsertItem
    <3>3. QED
      BY <1>1, <1>3, <2>3, <3>1, <3>2, InsertedPreserves
  <2>6. CASE Faulted(list)
    <3>1. lru' = Fault(lru) /\ UNCHANGED <<item, table, total, held, pc>>
      BY <1>3, <2>2, <2>4, <2>6 DEF InsertItem
    <3>2. QED
      BY <1>1, <3>1, CrashPreserves
  <2>7. QED
    BY <2>5, <2>6
<1>4. QED
  BY <1>2, <1>3

(* The empty cache satisfies it.                                           *)
LEMMA CInvInit ==
  ASSUME Init
  PROVE  CInv
<1>1. /\ item = <<>> /\ Len(item) = 0 /\ total = 0
      /\ table = [n \in Name |-> <<>>]
      /\ lru = [node |-> <<>>, head |-> 0, tail |-> 0]
      /\ pc = [w \in Worker |-> "idle"]
      /\ file = [w \in Worker |-> NoFile]
      /\ held = [w \in Worker |-> 0]
  BY DEF Init
<1>2. Typed
  <2>1. item \in Seq(Items)
    BY <1>1, EmptySeq
  <2>2. file \in [Worker -> [name : Name \cup {""}, size : Nat]]
    BY <1>1 DEF NoFile
  <2>3. held \in [Worker -> 0 .. Len(item)]
    BY <1>1
  <2>4. pc \in [Worker -> {"idle", "insert", "send", "null"}] /\ \A w \in Worker : pc[w] = "idle"
    BY <1>1
  <2>5. \A k \in 1 .. Len(item) : item[k].size \in FileSizes[item[k].name]
    BY <1>1
  <2>6. QED
    BY <2>1, <2>2, <2>3, <2>4, <2>5 DEF Typed
<1>3. GoodTable(table, item)
  BY <1>1, EmptyQueue DEF GoodTable
<1>4. SoundList(lru, Len(item))
  <2>1. PICK L, q : L = lru /\ q = [i \in 1 .. 0 |-> 1]
    OBVIOUS
  <2>2. L = [node |-> <<>>, head |-> 0, tail |-> 0] /\ L.node = <<>> /\ L.head = 0 /\ L.tail = 0
    BY <1>1, <2>1
  <2>3. Pointers(L, 0)
    BY <2>2 DEF Pointers, Nodes
  <2>4. Ordered(L, 0, 0, q)
    BY <2>1, <2>2 DEF Ordered, Chain
  <2>5. QED
    BY <1>1, <2>1, <2>3, <2>4 DEF SoundList
<1>5. Totalled
  BY <1>1, SumByTurns DEF Totalled
<1>6. InUseCounts /\ HeldStaysCached /\ OnlySendersHold
  BY <1>1 DEF InUseCounts, HeldStaysCached, OnlySendersHold
<1>7. QED
  BY <1>2, <1>3, <1>4, <1>5, <1>6 DEF CInv

(* Every step of every worker preserves it.                                *)
LEMMA CInvStep ==
  ASSUME CInv, [Next]_vars
  PROVE  CInv'
<1>1. ASSUME NEW w \in Worker, NEW n \in Name, Hit(w, n)
      PROVE  CInv'
  BY <1>1, HitPreserves
<1>2. ASSUME NEW w \in Worker, NEW n \in Name, Miss(w, n)
      PROVE  CInv'
  BY <1>2, MissPreserves
<1>3. ASSUME NEW w \in Worker, Insert(w)
      PROVE  CInv'
  BY <1>3, InsertPreserves
<1>4. ASSUME NEW w \in Worker, Finish(w)
      PROVE  CInv'
  BY <1>4, FinishPreserves
<1>5. ASSUME UNCHANGED vars
      PROVE  CInv'
  <2>1. /\ item' = item /\ table' = table /\ total' = total /\ lru' = lru
        /\ pc' = pc /\ file' = file /\ held' = held
    BY <1>5 DEF vars
  <2>2. Typed' /\ OnlySendersHold'
    BY <2>1 DEF CInv, Typed, OnlySendersHold
  <2>3. GoodTable(table, item)' /\ SoundList(lru, Len(item))' /\ Totalled'
    BY <2>1 DEF CInv, Totalled
  <2>4. InUseCounts' /\ HeldStaysCached'
    BY <2>1 DEF CInv, InUseCounts, HeldStaysCached, InTable
  <2>5. QED
    BY <2>2, <2>3, <2>4 DEF CInv
<1>6. QED
  BY <1>1, <1>2, <1>3, <1>4, <1>5 DEF Next, Ended

(* The invariant holds in every reachable state, for any number of workers *)
(* and files, any sizes and any limit.                                     *)
THEOREM CacheInvariance == Spec => []CInv
<1>1. Init => CInv
  BY CInvInit
<1>2. CInv /\ [Next]_vars => CInv'
  BY CInvStep
<1>3. QED
  BY <1>1, <1>2, PTL DEF Spec

(* The counters of the cache are right at all times: total_file_size is    *)
(* what the table holds and inuse is the number of workers that use the    *)
(* item, although both are adjusted in other places than those they        *)
(* describe, and also when two workers inserted the same file.             *)
THEOREM BooksAlwaysBalance == Spec => []BooksBalance
<1>1. CInv => BooksBalance
  <2>1. SUFFICES ASSUME CInv
                 PROVE  BooksBalance
    OBVIOUS
  <2>2. /\ item \in Seq(Items) /\ Len(item) \in Nat /\ DOMAIN item = 1 .. Len(item)
        /\ \A k \in DOMAIN item : item[k] \in Items
    <3>1. item \in Seq(Items)
      BY <2>1 DEF CInv, Typed
    <3>2. QED
      BY <3>1, LenProperties
  <2>3. Accounted
    BY <2>1, TableItems DEF CInv, Totalled, Accounted, Weight
  <2>4. InUseCounts
    BY <2>1 DEF CInv
  <2>5. total \in Nat
    BY <2>1, <2>2, WeightIsNat DEF CInv, Totalled
  <2>6. ASSUME NEW k \in DOMAIN item
        PROVE  /\ item[k].name \in Name /\ item[k].size \in FileSizes[item[k].name] \ {0}
               /\ item[k].inuse \in 0 .. Cardinality(Worker)
    <3>1. item[k].name \in Name /\ item[k].size \in FileSizes[item[k].name] \ {0}
      BY <2>1, <2>2 DEF CInv, Typed, Items
    <3>2. PICK A : A = {w \in Worker : held[w] = k}
      OBVIOUS
    <3>3. A \subseteq Worker
      BY <3>2
    <3>4. Cardinality(A) \in 0 .. Cardinality(Worker)
      BY <3>3, HoldersFinite
    <3>5. QED
      BY <2>4, <3>1, <3>2, <3>4 DEF InUseCounts
  <2>7. \A n \in Name : Range(table[n]) \subseteq Address \ {0}
    <3>1. 1 .. Len(item) \subseteq Address \ {0}
      BY <2>2 DEF Address
    <3>2. \A n \in Name : Range(table[n]) \subseteq 1 .. Len(item)
      BY <2>1, RangeOfQueue DEF CInv, GoodTable
    <3>3. QED
      BY <3>1, <3>2
  <2>8. /\ Len(lru.node) = Len(item) /\ lru.head \in Address \cup {-1} /\ lru.tail \in Address
        /\ \A k \in DOMAIN lru.node : /\ lru.node[k].name \in Name
                                      /\ lru.node[k].next \in Address
                                      /\ lru.node[k].prev \in Address
    <3>1. PICK N : N = lru.node
      OBVIOUS
    <3>2. /\ N \in Seq(Node) /\ Len(N) = Len(item)
          /\ lru.head \in -1 .. Len(item) /\ lru.tail \in 0 .. Len(item)
          /\ \A k \in 1 .. Len(item) : N[k].next \in 0 .. Len(item) /\ N[k].prev \in 0 .. Len(item)
      BY <2>1, <3>1 DEF CInv, SoundList, Pointers, Nodes
    <3>3. DOMAIN N = 1 .. Len(item) /\ \A k \in DOMAIN N : N[k] \in Node
      BY <3>2, LenProperties
    <3>4. lru.head \in Address \cup {-1}
      BY <2>2, <3>2 DEF Address
    <3>5. QED
      BY <3>1, <3>2, <3>3, <3>4 DEF Address, Node
  <2>9. CTypeOK
    BY <2>1, <2>5, <2>6, <2>7, <2>8 DEF CTypeOK, CInv, Typed, Address
  <2>10. QED
    BY <2>3, <2>4, <2>9 DEF BooksBalance
<1>2. QED
  BY <1>1, CacheInvariance, PTL

(* An item that a worker uses outside cache_lock is never evicted          *)
(* meanwhile.                                                              *)
THEOREM HeldItemsStay == Spec => []HeldStaysCached
<1>1. CInv => HeldStaysCached
  BY DEF CInv
<1>2. QED
  BY <1>1, CacheInvariance, PTL

(* As long as the process lives, the list that deque and cache_evict walk  *)
(* has no cycle: the loops over it end.                                    *)
THEOREM ListAlwaysEnds == Spec => []ListEnds
<1>1. CInv => ListEnds
  <2>1. SUFFICES ASSUME CInv, lru.head # -1
                 PROVE  IsInjective(Forward(lru))
    BY DEF ListEnds, Crashed, Faulted
  <2>2. /\ SoundList(lru, Len(item)) /\ Len(item) \in Nat /\ Len(lru.node) = Len(item)
    BY <2>1, LenProperties DEF CInv, Typed, SoundList, Pointers, Nodes
  <2>3. PICK l, q : Ordered(lru, Len(item), l, q)
    BY <2>1, <2>2 DEF SoundList
  <2>4. Chain(lru, Len(item), l, q)
    BY <2>3 DEF Ordered
  <2>5. Forward(lru) = q
    BY <2>2, <2>4, ForwardIsChain
  <2>6. IsInjective(q)
    BY <2>4 DEF Chain, IsInjective
  <2>7. QED
    BY <2>5, <2>6
<1>2. QED
  BY <1>1, CacheInvariance, PTL


-----------------------------------------------------------------------------
(* The list when no two nodes have one name.                                *)
(* The list as its functions were written for it: a chain of l nodes q,    *)
(* whose tail is the last of them and whose prev pointers lead back along  *)
(* it.                                                                     *)
DList(L, len, l, q) ==
  /\ Pointers(L, len)
  /\ Chain(L, len, l, q)
  /\ L.tail = IF l = 0 THEN 0 ELSE q[l]
  /\ \A i \in 1 .. l : L.node[q[i]].prev = IF i = 1 THEN 0 ELSE q[i - 1]

(* The first len nodes keep their names.                                   *)
NamesKept(E, L, len) == \A j \in 1 .. len : E.node[j].name = L.node[j].name

(* q with k put behind it, without its last node, and without its first.   *)
Longer(q, l, k) == [i \in 1 .. l + 1 |-> IF i = l + 1 THEN k ELSE q[i]]
Shorter(q, l) == [i \in 1 .. l - 1 |-> q[i]]
Rest(q, l) == [i \in 1 .. l - 1 |-> q[i + 1]]

(* What follows from that for head and for the nodes of the chain.         *)
Listing(L, len, l, q) ==
  /\ L.head # -1 /\ (L.head = 0 <=> l = 0)
  /\ l \in Nat /\ q \in [1 .. l -> 1 .. len]
  /\ (\A i \in 1 .. l : q[i] \in 1 .. len)
  /\ Len(L.node) = len
  /\ \A i, j \in 1 .. l : q[i] = q[j] => i = j

(* It does.                                                                *)
LEMMA ListFacts ==
  ASSUME NEW L, NEW len \in Nat, NEW l, NEW q, DList(L, len, l, q)
  PROVE  Listing(L, len, l, q)
<1>1. /\ l \in Nat /\ q \in [1 .. l -> 1 .. len]
      /\ \A i, j \in 1 .. l : q[i] = q[j] => i = j
      /\ L.head = IF l = 0 THEN 0 ELSE q[1]
  BY DEF DList, Chain
<1>2. \A i \in 1 .. l : q[i] \in 1 .. len
  BY <1>1
<1>3. l # 0 => 1 \in 1 .. l
  BY <1>1
<1>4. L.head # -1 /\ (L.head = 0 <=> l = 0)
  BY <1>1, <1>2, <1>3
<1>5. Len(L.node) = len
  BY DEF DList, Pointers, Nodes
<1>6. QED
  BY <1>1, <1>2, <1>4, <1>5 DEF Listing

(* enqueue puts a new node behind the list.                                *)
LEMMA EnqueueExact ==
  ASSUME NEW len \in Nat, NEW L, NEW l, NEW q, DList(L, len, l, q),
         NEW k \in 1 .. len, \A i \in 1 .. l : q[i] # k,
         NEW E, E = Enqueue(L, k)
  PROVE  DList(E, len, l + 1, Longer(q, l, k)) /\ NamesKept(E, L, len)
<1>1. /\ L.head # -1 /\ (L.head = 0 <=> l = 0)
      /\ l \in Nat /\ q \in [1 .. l -> 1 .. len]
      /\ (\A i \in 1 .. l : q[i] \in 1 .. len)
      /\ Len(L.node) = len
      /\ \A i, j \in 1 .. l : q[i] = q[j] => i = j
  BY ListFacts DEF Listing
<1>2. /\ Pointers(L, len)
      /\ L.head = IF l = 0 THEN 0 ELSE q[1]
      /\ \A i \in 1 .. l : L.node[q[i]].next = IF i = l THEN 0 ELSE q[i + 1]
      /\ L.tail = IF l = 0 THEN 0 ELSE q[l]
      /\ \A i \in 1 .. l : L.node[q[i]].prev = IF i = 1 THEN 0 ELSE q[i - 1]
  BY DEF DList, Chain
<1>3. /\ Pointers(E, len)
      /\ E.head = (IF L.head = 0 THEN k ELSE L.head)
      /\ E.tail = k
      /\ \A j \in 1 .. len :
           /\ E.node[j].name = L.node[j].name
           /\ E.node[j].next =
                IF j = k THEN 0 ELSE IF L.head # 0 /\ j = L.tail THEN k ELSE L.node[j].next
           /\ E.node[j].prev =
                IF j # k THEN L.node[j].prev ELSE IF L.head = 0 THEN 0 ELSE L.tail
  BY <1>1, <1>2, EnqueueLink
<1>4. PICK r, p : r = Longer(q, l, k) /\ p = l + 1
  OBVIOUS
<1>5. /\ p \in Nat /\ p # 0 /\ r \in [1 .. p -> 1 .. len]
      /\ r[p] = k /\ \A i \in 1 .. l : i \in 1 .. p /\ i # p /\ r[i] = q[i]
  BY <1>1, <1>4 DEF Longer
<1>6. \A i \in 1 .. p : i = p \/ i \in 1 .. l
  BY <1>1, <1>4
<1>7. \A i, j \in 1 .. p : r[i] = r[j] => i = j
  BY <1>1, <1>5, <1>6
<1>8. E.head = r[1]
  <2>1. CASE l = 0
    BY <1>1, <1>3, <1>4, <1>5, <2>1
  <2>2. CASE l # 0
    <3>1. 1 \in 1 .. l
      BY <1>1, <2>2
    <3>2. QED
      BY <1>1, <1>2, <1>3, <1>5, <2>2, <3>1
  <2>3. QED
    BY <2>1, <2>2
<1>9. ASSUME NEW i \in 1 .. p
      PROVE  /\ E.node[r[i]].next = IF i = p THEN 0 ELSE r[i + 1]
             /\ E.node[r[i]].prev = IF i = 1 THEN 0 ELSE r[i - 1]
  <2>1. CASE i = p
    <3>1. E.node[r[i]].next = 0
      BY <1>3, <1>5, <2>1
    <3>2. CASE l = 0
      BY <1>1, <1>3, <1>4, <1>5, <2>1, <3>1, <3>2
    <3>3. CASE l # 0
      <4>1. l \in 1 .. l /\ i - 1 = l /\ i # 1 /\ L.head # 0
        BY <1>1, <1>4, <2>1, <3>3
      <4>2. L.tail = q[l] /\ r[l] = q[l]
        BY <1>2, <1>5, <3>3, <4>1
      <4>3. E.node[r[i]].prev = L.tail
        BY <1>3, <1>5, <2>1, <4>1
      <4>4. QED
        BY <2>1, <3>1, <4>1, <4>2, <4>3
    <3>4. QED
      BY <3>2, <3>3
  <2>2. CASE i # p
    <3>1. i \in 1 .. l /\ l # 0 /\ l \in 1 .. l
      BY <1>1, <1>6, <2>2
    <3>2. r[i] = q[i] /\ q[i] # k /\ q[i] \in 1 .. len /\ L.tail = q[l] /\ L.head # 0
      BY <1>1, <1>2, <1>5, <3>1
    <3>3. E.node[r[i]].next = r[i + 1]
      <4>1. CASE i = l
        <5>1. E.node[q[i]].next = k
          BY <1>3, <3>2, <4>1
        <5>2. QED
          BY <1>4, <1>5, <3>2, <4>1, <5>1
      <4>2. CASE i # l
        <5>1. q[i] # L.tail /\ i + 1 \in 1 .. l
          BY <1>1, <3>1, <3>2, <4>2
        <5>2. E.node[q[i]].next = L.node[q[i]].next
          BY <1>3, <3>2, <5>1
        <5>3. QED
          BY <1>2, <1>5, <3>1, <3>2, <4>2, <5>1, <5>2
      <4>3. QED
        BY <4>1, <4>2
    <3>4. E.node[q[i]].prev = L.node[q[i]].prev
      BY <1>3, <3>2
    <3>5. i # 1 => i - 1 \in 1 .. l
      BY <1>1, <3>1
    <3>6. QED
      BY <1>2, <1>5, <2>2, <3>1, <3>2, <3>3, <3>4, <3>5
  <2>3. QED
    BY <2>1, <2>2
<1>10. DList(E, len, p, r)
  BY <1>3, <1>5, <1>7, <1>8, <1>9 DEF DList, Chain
<1>11. NamesKept(E, L, len)
  BY <1>3 DEF NamesKept
<1>12. QED
  BY <1>4, <1>10, <1>11

(* deque has taken the first node off the list, and has left its next      *)
(* pointer as it was.                                                      *)
FirstGone(E, L, len, l, q, n) ==
  /\ DList(E, len, l - 1, Rest(q, l)) /\ NamesKept(E, L, len)
  /\ FirstNamed(L, n) = q[1]
  /\ E.node[q[1]].next = IF l = 1 THEN 0 ELSE q[2]

(* So it does when it is given the name of the first node and no other     *)
(* node has it.                                                            *)
LEMMA DequeFirstExact ==
  ASSUME NEW len \in Nat, NEW L, NEW l, NEW q, DList(L, len, l, q), l # 0,
         NEW n, n = L.node[q[1]].name, NEW E, E = Deque(L, n)
  PROVE  FirstGone(E, L, len, l, q, n)
<1>0. 0 \in Nat
  OBVIOUS
<1>1. /\ L.head # -1 /\ (L.head = 0 <=> l = 0)
      /\ l \in Nat /\ q \in [1 .. l -> 1 .. len]
      /\ (\A i \in 1 .. l : q[i] \in 1 .. len)
      /\ Len(L.node) = len
      /\ \A i, j \in 1 .. l : q[i] = q[j] => i = j
  BY ListFacts DEF Listing
<1>2. /\ Pointers(L, len) /\ Chain(L, len, l, q)
      /\ L.head = q[1]
      /\ \A i \in 1 .. l : L.node[q[i]].next = IF i = l THEN 0 ELSE q[i + 1]
      /\ L.tail = q[l]
      /\ \A i \in 1 .. l : L.node[q[i]].prev = IF i = 1 THEN 0 ELSE q[i - 1]
  BY DEF DList, Chain
<1>3. 1 \in 1 .. l /\ l \in 1 .. l /\ q[1] \in 1 .. len
  BY <1>1
<1>4. FirstNamed(L, n) = q[1]
  <2>1. PICK k : k = FirstNamed(L, n)
    OBVIOUS
  <2>2. IsFirst(L, l, q, n, k)
    BY <1>1, <1>2, <2>1, FirstNamedInChain
  <2>3. PICK j \in 1 .. l : k = q[j] /\ \A i \in 1 .. j - 1 : L.node[q[i]].name # n
    BY <1>3, <2>2 DEF IsFirst
  <2>4. j = 1
    BY <1>1, <1>3, <2>3
  <2>5. QED
    BY <2>1, <2>3, <2>4
<1>5. PICK N, h, t : L = [node |-> N, head |-> h, tail |-> t]
  BY <1>2 DEF Pointers
<1>6. L.node = N /\ L.head = h /\ L.tail = t
  BY <1>5
<1>7. /\ Nodes(N, len) /\ h \in 1 .. len /\ t \in 1 .. len
      /\ \A j \in 1 .. len : N[j].next \in 0 .. len /\ N[j].prev \in 0 .. len
  BY <1>1, <1>2, <1>3, <1>6 DEF Pointers
<1>8. PICK r : r = Rest(q, l)
  OBVIOUS
<1>9. /\ l - 1 \in Nat /\ r \in [1 .. l - 1 -> 1 .. len]
      /\ \A i \in 1 .. l - 1 : i \in 1 .. l /\ i + 1 \in 1 .. l /\ i + 1 # 1 /\ r[i] = q[i + 1]
  BY <1>1, <1>8 DEF Rest
<1>10. \A i, j \in 1 .. l - 1 : r[i] = r[j] => i = j
  BY <1>1, <1>9
<1>11. CASE l = 1
  <2>0. FirstNamed(L, n) = h /\ h # 0 /\ N[h].next = 0
    <3>1. h = q[1] /\ h # 0
      BY <1>2, <1>6, <1>7
    <3>2. N[q[1]].next = 0
      BY <1>2, <1>3, <1>6, <1>11
    <3>3. QED
      BY <1>4, <3>1, <3>2
  <2>1. E = [node |-> N, head |-> 0, tail |-> 0]
    BY <1>5, <1>6, <2>0 DEF Deque
  <2>2. E.node = N /\ E.head = 0 /\ E.tail = 0
    BY <2>1
  <2>3. Pointers(E, len)
    BY <1>7, <2>1, <2>2 DEF Pointers
  <2>4. DList(E, len, 0, r)
    BY <1>9, <1>11, <2>2, <2>3 DEF DList, Chain
  <2>5. E.node[q[1]].next = 0
    BY <1>2, <1>3, <1>6, <1>11, <2>2
  <2>6. NamesKept(E, L, len)
    BY <1>6, <2>2 DEF NamesKept
  <2>7. QED
    BY <1>4, <1>8, <1>11, <2>4, <2>5, <2>6 DEF FirstGone
<1>12. CASE l # 1
  <2>1. /\ N[q[1]].next = q[2] /\ q[2] \in 1 .. len /\ 2 \in 1 .. l
        /\ l - 1 # 0 /\ 1 \in 1 .. l - 1 /\ l - 1 \in 1 .. l - 1
        /\ r[1] = q[2] /\ r[l - 1] = q[l]
    <3>1. l - 1 # 0 /\ 1 \in 1 .. l - 1 /\ l - 1 \in 1 .. l - 1 /\ 2 \in 1 .. l /\ 1 + 1 = 2 /\ l - 1 + 1 = l
      BY <1>1, <1>12
    <3>2. q[2] \in 1 .. len /\ r[1] = q[2] /\ r[l - 1] = q[l]
      BY <1>1, <1>9, <3>1
    <3>3. N[q[1]].next = q[2]
      BY <1>2, <1>3, <1>6, <1>12, <3>1
    <3>4. QED
      BY <3>1, <3>2, <3>3
  <2>2. PICK N1 : N1 = SetPrev(N, q[2], 0)
    OBVIOUS
  <2>3. E = [node |-> N1, head |-> q[2], tail |-> t]
    <3>1. FirstNamed(L, n) = h /\ h # 0 /\ N[h].next = q[2] /\ q[2] # 0
      BY <1>2, <1>3, <1>4, <1>6, <1>7, <2>1
    <3>2. QED
      BY <1>5, <1>6, <2>2, <3>1 DEF Deque, SetPrev
  <2>4. WrotePrev(N1, N, len, q[2], 0)
    BY <1>0, <1>7, <2>1, <2>2, PrevWritten, Zenon
  <2>5. E.node = N1 /\ E.head = q[2] /\ E.tail = t
    BY <2>3
  <2>6. Pointers(E, len)
    BY <1>7, <2>1, <2>3, <2>4, <2>5 DEF Pointers, WrotePrev
  <2>7. ASSUME NEW i \in 1 .. l - 1
        PROVE  /\ E.node[r[i]].next = IF i = l - 1 THEN 0 ELSE r[i + 1]
               /\ E.node[r[i]].prev = IF i = 1 THEN 0 ELSE r[i - 1]
    <3>1. /\ i \in 1 .. l /\ i + 1 \in 1 .. l /\ i + 1 # 1 /\ r[i] = q[i + 1] /\ q[i + 1] \in 1 .. len
      BY <1>1, <1>9
    <3>2. /\ E.node[r[i]].next = N[q[i + 1]].next
          /\ E.node[r[i]].prev = IF q[i + 1] = q[2] THEN 0 ELSE N[q[i + 1]].prev
      BY <2>4, <2>5, <3>1 DEF WrotePrev
    <3>3. N[q[i + 1]].next = IF i + 1 = l THEN 0 ELSE q[i + 1 + 1]
      BY <1>2, <1>6, <3>1
    <3>4. N[q[i + 1]].prev = q[i]
      <4>1. N[q[i + 1]].prev = q[i + 1 - 1]
        BY <1>2, <1>6, <3>1
      <4>2. i + 1 - 1 = i
        OBVIOUS
      <4>3. QED
        BY <4>1, <4>2
    <3>5. i # l - 1 => i + 1 \in 1 .. l - 1 /\ i + 1 # l
      BY <1>1
    <3>6. i = l - 1 => i + 1 = l
      BY <1>1
    <3>7. q[i + 1] = q[2] <=> i = 1
      BY <1>1, <2>1, <3>1
    <3>8. i # 1 => i - 1 \in 1 .. l - 1 /\ i - 1 + 1 = i
      BY <1>1
    <3>9. QED
      BY <1>9, <3>2, <3>3, <3>4, <3>5, <3>6, <3>7, <3>8
  <2>8. DList(E, len, l - 1, r)
    BY <1>2, <1>6, <1>9, <1>10, <2>1, <2>5, <2>6, <2>7 DEF DList, Chain
  <2>9. NamesKept(E, L, len)
    BY <1>6, <2>4, <2>5 DEF NamesKept, WrotePrev
  <2>10. E.node[q[1]].next = q[2]
    BY <1>3, <2>1, <2>4, <2>5 DEF WrotePrev
  <2>11. QED
    BY <1>4, <1>8, <1>12, <2>8, <2>9, <2>10 DEF FirstGone
<1>13. QED
  BY <1>11, <1>12

(* Only the last node is named n.                                          *)
LastNamed(L, l, q, n) ==
  l # 0 /\ L.node[q[l]].name = n /\ \A i \in 1 .. l : L.node[q[i]].name = n => i = l

(* deque takes the last node off the list when only that one has the name. *)
LEMMA DequeLastExact ==
  ASSUME NEW len \in Nat, NEW L, NEW l, NEW q, DList(L, len, l, q),
         NEW n, LastNamed(L, l, q, n), NEW E, E = Deque(L, n)
  PROVE  /\ DList(E, len, l - 1, Shorter(q, l)) /\ NamesKept(E, L, len)
         /\ FirstNamed(L, n) = q[l]
<1>0. 0 \in Nat
  OBVIOUS
<1>ln. l # 0 /\ n = L.node[q[l]].name /\ \A i \in 1 .. l : L.node[q[i]].name = n => i = l
  BY DEF LastNamed
<1>1. /\ L.head # -1 /\ (L.head = 0 <=> l = 0)
      /\ l \in Nat /\ q \in [1 .. l -> 1 .. len]
      /\ (\A i \in 1 .. l : q[i] \in 1 .. len)
      /\ Len(L.node) = len
      /\ \A i, j \in 1 .. l : q[i] = q[j] => i = j
  BY ListFacts DEF Listing
<1>2. /\ Pointers(L, len) /\ Chain(L, len, l, q)
      /\ L.head = q[1]
      /\ \A i \in 1 .. l : L.node[q[i]].next = IF i = l THEN 0 ELSE q[i + 1]
      /\ L.tail = q[l]
      /\ \A i \in 1 .. l : L.node[q[i]].prev = IF i = 1 THEN 0 ELSE q[i - 1]
  BY <1>ln, <1>1 DEF DList, Chain
<1>3. 1 \in 1 .. l /\ l \in 1 .. l /\ q[1] \in 1 .. len /\ q[l] \in 1 .. len
  BY <1>ln, <1>1
<1>4. FirstNamed(L, n) = q[l]
  <2>1. PICK k : k = FirstNamed(L, n)
    OBVIOUS
  <2>2. IsFirst(L, l, q, n, k)
    BY <1>1, <1>2, <2>1, FirstNamedInChain
  <2>3. PICK j \in 1 .. l : k = q[j] /\ L.node[q[j]].name = n
    BY <1>ln, <1>3, <2>2 DEF IsFirst
  <2>4. QED
    BY <1>ln, <2>1, <2>3
<1>5. PICK r : r = Shorter(q, l)
  OBVIOUS
<1>6. CASE l = 1
  <2>1. n = L.node[q[1]].name
    BY <1>ln, <1>6
  <2>2. DList(E, len, l - 1, Rest(q, l)) /\ NamesKept(E, L, len)
    BY <1>ln, <2>1, DequeFirstExact DEF FirstGone
  <2>3. l - 1 = 0 /\ Rest(q, l) = r
    BY <1>5, <1>6 DEF Rest, Shorter
  <2>4. QED
    BY <1>4, <1>5, <2>2, <2>3
<1>7. CASE l # 1
  <2>1. PICK N, h, t : L = [node |-> N, head |-> h, tail |-> t]
    BY <1>2 DEF Pointers
  <2>2. L.node = N /\ L.head = h /\ L.tail = t
    BY <2>1
  <2>3. /\ Nodes(N, len) /\ h \in 1 .. len /\ t \in 1 .. len
        /\ \A j \in 1 .. len : N[j].next \in 0 .. len /\ N[j].prev \in 0 .. len
    BY <1>1, <1>2, <1>3, <2>2 DEF Pointers
  <2>4. /\ l - 1 \in Nat /\ r \in [1 .. l - 1 -> 1 .. len]
        /\ (\A i \in 1 .. l - 1 : i \in 1 .. l /\ i # l /\ i + 1 \in 1 .. l /\ r[i] = q[i])
        /\ l - 1 \in 1 .. l - 1 /\ 1 \in 1 .. l - 1 /\ l - 1 # 0
    BY <1>ln, <1>1, <1>5, <1>7 DEF Shorter
  <2>5. \A i, j \in 1 .. l - 1 : r[i] = r[j] => i = j
    BY <1>1, <2>4
  <2>6. PICK last : last = q[l - 1]
    OBVIOUS
  <2>7. N[t].prev = last /\ last \in 1 .. len /\ q[l] # q[1] /\ r[l - 1] = last
    BY <1>1, <1>2, <1>3, <1>7, <2>2, <2>4, <2>6
  <2>8. PICK N1 : N1 = SetNext(N, last, 0)
    OBVIOUS
  <2>9. E = [node |-> N1, head |-> h, tail |-> last]
    <3>1. FirstNamed(L, n) # 0 /\ FirstNamed(L, n) # h /\ n = N[t].name /\ last # 0
      BY <1>ln, <1>2, <1>3, <1>4, <2>2, <2>7
    <3>2. QED
      BY <2>1, <2>2, <2>7, <2>8, <3>1 DEF Deque, SetNext
  <2>10. WroteNext(N1, N, len, last, 0)
    BY <1>0, <2>3, <2>7, <2>8, NextWritten, Zenon
  <2>11. E.node = N1 /\ E.head = h /\ E.tail = last
    BY <2>9
  <2>12. Pointers(E, len)
    BY <2>3, <2>7, <2>9, <2>10, <2>11 DEF Pointers, WroteNext
  <2>13. ASSUME NEW i \in 1 .. l - 1
         PROVE  /\ E.node[r[i]].next = IF i = l - 1 THEN 0 ELSE r[i + 1]
                /\ E.node[r[i]].prev = IF i = 1 THEN 0 ELSE r[i - 1]
    <3>1. i \in 1 .. l /\ i # l /\ r[i] = q[i] /\ q[i] \in 1 .. len
      BY <1>1, <2>4
    <3>2. /\ E.node[r[i]].prev = N[q[i]].prev
          /\ E.node[r[i]].next = IF q[i] = last THEN 0 ELSE N[q[i]].next
      BY <2>10, <2>11, <3>1 DEF WroteNext
    <3>3. N[q[i]].next = q[i + 1] /\ N[q[i]].prev = IF i = 1 THEN 0 ELSE q[i - 1]
      BY <1>2, <2>2, <3>1
    <3>4. q[i] = last <=> i = l - 1
      <4>1. l - 1 \in 1 .. l
        BY <2>4
      <4>2. QED
        BY <1>1, <2>6, <3>1, <4>1
    <3>5. i # l - 1 => i + 1 \in 1 .. l - 1
      BY <1>1
    <3>6. i # 1 => i - 1 \in 1 .. l - 1
      BY <1>1
    <3>7. QED
      BY <2>4, <3>2, <3>3, <3>4, <3>5, <3>6
  <2>14. DList(E, len, l - 1, r)
    BY <1>2, <2>2, <2>4, <2>5, <2>7, <2>11, <2>12, <2>13 DEF DList, Chain
  <2>15. NamesKept(E, L, len)
    BY <2>2, <2>10, <2>11 DEF NamesKept, WroteNext
  <2>16. QED
    BY <1>4, <1>5, <2>14, <2>15
<1>8. QED
  BY <1>6, <1>7

(* A node for the file named n is allocated.                               *)
EnlargedList(L, n) == [L EXCEPT !.node = Append(@, [name |-> n, next |-> 0, prev |-> 0])]

(* It is not on the list yet.                                              *)
LEMMA AddedExact ==
  ASSUME NEW len \in Nat, NEW L, NEW l, NEW q, DList(L, len, l, q), NEW n \in Name,
         NEW A, A = EnlargedList(L, n)
  PROVE  /\ DList(A, len + 1, l, q) /\ NamesKept(A, L, len)
         /\ A.node[len + 1].name = n
<1>1. /\ L.head # -1 /\ (L.head = 0 <=> l = 0)
      /\ l \in Nat /\ q \in [1 .. l -> 1 .. len]
      /\ (\A i \in 1 .. l : q[i] \in 1 .. len)
      /\ Len(L.node) = len
      /\ \A i, j \in 1 .. l : q[i] = q[j] => i = j
  <2>1. Listing(L, len, l, q)
    BY ListFacts
  <2>2. QED
    BY <2>1 DEF Listing
<1>2. /\ Pointers(L, len)
      /\ L.head = IF l = 0 THEN 0 ELSE q[1]
      /\ \A i \in 1 .. l : L.node[q[i]].next = IF i = l THEN 0 ELSE q[i + 1]
      /\ L.tail = IF l = 0 THEN 0 ELSE q[l]
      /\ \A i \in 1 .. l : L.node[q[i]].prev = IF i = 1 THEN 0 ELSE q[i - 1]
  BY DEF DList, Chain
<1>3. PICK N, h, t : L = [node |-> N, head |-> h, tail |-> t]
  BY <1>2 DEF Pointers
<1>4. L.node = N /\ L.head = h /\ L.tail = t
  BY <1>3
<1>5. /\ N \in Seq(Node) /\ Len(N) = len /\ h \in -1 .. len /\ t \in 0 .. len /\ (h > 0 => t > 0)
      /\ \A j \in 1 .. len : N[j].next \in 0 .. len /\ N[j].prev \in 0 .. len
  BY <1>2, <1>4 DEF Pointers, Nodes
<1>6. PICK x, M, k : x = [name |-> n, next |-> 0, prev |-> 0] /\ M = Append(N, x) /\ k = len + 1
  OBVIOUS
<1>7. x \in Node /\ x.name = n /\ x.next = 0 /\ x.prev = 0
  BY <1>6 DEF Node
<1>8. M \in Seq(Node) /\ Len(M) = k /\ M[k] = x /\ \A j \in 1 .. len : M[j] = N[j]
  BY <1>5, <1>6, <1>7, AppendProperties
<1>9. A = [node |-> M, head |-> h, tail |-> t]
  BY <1>3, <1>6 DEF EnlargedList
<1>10. A.node = M /\ A.head = h /\ A.tail = t
  BY <1>9
<1>11. k \in Nat /\ \A j \in 1 .. k : j = k \/ j \in 1 .. len
  BY <1>6
<1>12. Pointers(A, k)
  <2>1. \A j \in 1 .. k : M[j].next \in 0 .. k /\ M[j].prev \in 0 .. k
    <3>1. ASSUME NEW j \in 1 .. k
          PROVE  M[j].next \in 0 .. k /\ M[j].prev \in 0 .. k
      <4>1. CASE j = k
        BY <1>7, <1>8, <1>11, <4>1
      <4>2. CASE j # k
        <5>1. j \in 1 .. len /\ M[j] = N[j]
          BY <1>8, <1>11, <4>2
        <5>2. N[j].next \in 0 .. len /\ N[j].prev \in 0 .. len
          BY <1>5, <5>1
        <5>3. 0 .. len \subseteq 0 .. k
          BY <1>6
        <5>4. QED
          BY <5>1, <5>2, <5>3
      <4>3. QED
        BY <4>1, <4>2
    <3>2. QED
      BY <3>1
  <2>2. h \in -1 .. k /\ t \in 0 .. k
    BY <1>5, <1>6
  <2>3. QED
    BY <1>5, <1>8, <1>9, <1>10, <2>1, <2>2 DEF Pointers, Nodes
<1>13. \A i \in 1 .. l : M[q[i]] = N[q[i]] /\ q[i] \in 1 .. k
  BY <1>1, <1>6, <1>8
<1>14. Chain(A, k, l, q)
  <2>1. q \in [1 .. l -> 1 .. k]
    BY <1>1, <1>13
  <2>2. QED
    BY <1>1, <1>2, <1>4, <1>10, <1>13, <2>1 DEF Chain
<1>15. DList(A, k, l, q)
  BY <1>2, <1>4, <1>10, <1>12, <1>13, <1>14 DEF DList
<1>16. NamesKept(A, L, len)
  BY <1>4, <1>8, <1>10 DEF NamesKept
<1>17. QED
  BY <1>6, <1>7, <1>8, <1>10, <1>15, <1>16

(* The steps of cache_insert on the list put the new node behind it, when  *)
(* no node there has the name.                                             *)
LEMMA RelinkedExact ==
  ASSUME item \in Seq(Items), NEW len, len = Len(item),
         NEW L, NEW l, NEW q, DList(L, len, l, q), NEW n \in Name,
         \A i \in 1 .. l : L.node[q[i]].name # n,
         NEW E, E = Relinked(L, n)
  PROVE  /\ DList(E, len + 1, l + 1, Longer(q, l, len + 1)) /\ NamesKept(E, L, len)
         /\ E.node[len + 1].name = n
<1>1. len \in Nat
  BY LenProperties
<1>2. /\ L.head # -1 /\ (L.head = 0 <=> l = 0)
      /\ l \in Nat /\ q \in [1 .. l -> 1 .. len]
      /\ (\A i \in 1 .. l : q[i] \in 1 .. len)
      /\ Len(L.node) = len
      /\ \A i, j \in 1 .. l : q[i] = q[j] => i = j
  <2>1. Listing(L, len, l, q)
    BY <1>1, ListFacts
  <2>2. QED
    BY <2>1 DEF Listing
<1>3. PICK k, A, B, D, r, p :
        /\ k = len + 1 /\ A = EnlargedList(L, n) /\ B = Enqueue(A, k) /\ D = Deque(B, n)
        /\ r = Longer(q, l, k) /\ p = l + 1
  OBVIOUS
<1>4. k \in Nat /\ k \in 1 .. k /\ p \in Nat /\ p # 0 /\ p - 1 = l /\ p \in 1 .. p
      /\ \A j \in 1 .. len : j \in 1 .. k /\ j # k
  BY <1>1, <1>2, <1>3
<1>5. DList(A, k, l, q) /\ NamesKept(A, L, len) /\ A.node[k].name = n
  BY <1>1, <1>3, AddedExact
<1>6. \A i \in 1 .. l : q[i] # k
  BY <1>2, <1>4
<1>7. DList(B, k, p, r) /\ NamesKept(B, A, k)
  BY <1>3, <1>4, <1>5, <1>6, EnqueueExact
<1>8. r[p] = k /\ \A i \in 1 .. p : i # p => i \in 1 .. l /\ r[i] = q[i]
  BY <1>2, <1>3, <1>4 DEF Longer
<1>9. n = B.node[r[p]].name /\ \A i \in 1 .. p : B.node[r[i]].name = n => i = p
  <2>1. B.node[k].name = n
    BY <1>4, <1>5, <1>7 DEF NamesKept
  <2>2. ASSUME NEW i \in 1 .. p, i # p
        PROVE  B.node[r[i]].name # n
    <3>1. i \in 1 .. l /\ r[i] = q[i] /\ q[i] \in 1 .. len /\ q[i] \in 1 .. k
      BY <1>2, <1>4, <1>8, <2>2
    <3>2. B.node[q[i]].name = A.node[q[i]].name /\ A.node[q[i]].name = L.node[q[i]].name
      BY <1>5, <1>7, <3>1 DEF NamesKept
    <3>3. QED
      BY <3>1, <3>2
  <2>3. QED
    BY <1>8, <2>1, <2>2
<1>10. /\ DList(D, k, l, Shorter(r, p)) /\ NamesKept(D, B, k)
       /\ FirstNamed(B, n) = k
  <2>1. /\ DList(D, k, p - 1, Shorter(r, p)) /\ NamesKept(D, B, k)
        /\ FirstNamed(B, n) = r[p]
    <3>1. LastNamed(B, p, r, n)
      BY <1>4, <1>9 DEF LastNamed
    <3>2. QED
      BY <1>3, <1>4, <1>7, <3>1, DequeLastExact
  <2>2. QED
    BY <1>4, <1>8, <2>1
<1>11. Shorter(r, p) = q
  <2>1. \A i \in 1 .. l : i \in 1 .. p /\ i # p
    BY <1>2, <1>3
  <2>2. \A i \in 1 .. l : r[i] = q[i]
    BY <1>8, <2>1
  <2>3. Shorter(r, p) = [i \in 1 .. l |-> r[i]]
    BY <1>4 DEF Shorter
  <2>4. QED
    BY <1>2, <2>2, <2>3
<1>12. E = Enqueue(D, k)
  <2>1. D.head # -1
    BY <1>4, <1>10, ListFacts DEF Listing
  <2>2. E = MoveToTail(B, n)
    BY <1>3 DEF Relinked, EnlargedList
  <2>3. QED
    BY <1>3, <1>10, <2>1, <2>2 DEF MoveToTail, Faulted
<1>13. DList(E, k, p, r) /\ NamesKept(E, D, k)
  BY <1>3, <1>4, <1>6, <1>10, <1>11, <1>12, EnqueueExact
<1>14. \A j \in 1 .. k : E.node[j].name = A.node[j].name
  BY <1>7, <1>10, <1>13 DEF NamesKept
<1>15. NamesKept(E, L, len)
  BY <1>4, <1>5, <1>14 DEF NamesKept
<1>16. QED
  BY <1>3, <1>4, <1>5, <1>13, <1>14, <1>15

-----------------------------------------------------------------------------
(* Eviction from it.                                                        *)
(* What is remembered of a cached file.                                    *)
Entry == [name : Name, size : Nat]

(* The sizes of the l files e.                                             *)
Sizes(e, l) == [i \in 1 .. l |-> e[i].size]

(* What is left of q without its first i members.                          *)
From(q, i, l) == [a \in 1 .. l - i |-> q[a + i]]

(* The l nodes q of the list L are named as the files e, all different;    *)
(* each of them leads to one item of the table T, of that size, and the    *)
(* table has no others.                                                    *)
Matches(T, I, L, l, q, e) ==
  /\ e \in [1 .. l -> Entry]
  /\ \A i \in 1 .. l : L.node[q[i]].name = e[i].name
  /\ \A i, j \in 1 .. l : e[i].name = e[j].name => i = j
  /\ \A n \in Name : T[n] # <<>> => /\ \E k : T[n] = <<k>>
                                    /\ \E i \in 1 .. l : e[i].name = n
  /\ \A i \in 1 .. l : T[e[i].name] # <<>> /\ I[Head(T[e[i].name])].size = e[i].size

(* The list is a list, and it matches the table.                           *)
InOrder(T, I, L, l, q, e) == DList(L, Len(I), l, q) /\ Matches(T, I, L, l, q, e)

(* Eviction that has come to c has taken the first i files, no more and no *)
(* others, out of the list, the table and the total, and stands at the     *)
(* next one.                                                               *)
OldestGone(c, i, l, q, e) ==
  /\ Evicting(c)
  /\ InOrder(c.table, item, c.lru, l - i, From(q, i, l), From(e, i, l))
  /\ c.tmp = (IF i = l THEN 0 ELSE q[i + 1])
  /\ c.evicted = SumUpTo(Sizes(e, l), i)
  /\ c.total = total - SumUpTo(Sizes(e, l), i)
  /\ \A n \in Name : c.table[n] = table[n] \/ c.table[n] = <<>>

(* One member less is the rest.                                            *)
LEMMA FromNext ==
  ASSUME NEW q, NEW l \in Nat, NEW i \in 0 .. l - 1
  PROVE  /\ Rest(From(q, i, l), l - i) = From(q, i + 1, l)
         /\ l - i - 1 = l - (i + 1) /\ l - i \in Nat /\ l - i # 0
         /\ From(q, i, l)[1] = q[i + 1]
         /\ l - i # 1 => From(q, i, l)[2] = q[i + 2]
<1>1. l - i \in Nat /\ l - i # 0 /\ l - i - 1 = l - (i + 1) /\ 1 \in 1 .. l - i
  OBVIOUS
<1>2. \A a \in 1 .. l - (i + 1) : a + 1 \in 1 .. l - i /\ a + 1 + i = a + (i + 1)
  OBVIOUS
<1>3. Rest(From(q, i, l), l - i) = [a \in 1 .. l - (i + 1) |-> From(q, i, l)[a + 1]]
  BY <1>1 DEF Rest
<1>4. \A a \in 1 .. l - (i + 1) : From(q, i, l)[a + 1] = q[a + (i + 1)]
  BY <1>2 DEF From
<1>5. Rest(From(q, i, l), l - i) = From(q, i + 1, l)
  BY <1>3, <1>4 DEF From
<1>6. From(q, i, l)[1] = q[i + 1]
  <2>1. From(q, i, l)[1] = q[1 + i]
    BY <1>1 DEF From
  <2>2. 1 + i = i + 1
    OBVIOUS
  <2>3. QED
    BY <2>1, <2>2
<1>7. l - i # 1 => From(q, i, l)[2] = q[i + 2]
  <2>1. l - i # 1 => 2 \in 1 .. l - i
    OBVIOUS
  <2>2. l - i # 1 => From(q, i, l)[2] = q[2 + i]
    BY <2>1 DEF From
  <2>3. 2 + i = i + 2
    OBVIOUS
  <2>4. QED
    BY <2>2, <2>3
<1>8. QED
  BY <1>1, <1>5, <1>6, <1>7

(* None less is all of it.                                                 *)
LEMMA FromStart ==
  ASSUME NEW l \in Nat, NEW S, NEW q \in [1 .. l -> S]
  PROVE  From(q, 0, l) = q
<1>1. l - 0 = l /\ \A a \in 1 .. l : a + 0 = a
  OBVIOUS
<1>2. From(q, 0, l) = [a \in 1 .. l |-> q[a]]
  BY <1>1 DEF From
<1>3. QED
  BY <1>2

(* The names on the list still match the table when the oldest file has    *)
(* left both.                                                              *)
LEMMA RestMatches ==
  ASSUME NEW S, NEW T \in [Name -> S], NEW I, NEW L, NEW E, NEW l \in Nat, l # 0, NEW q,
         NEW e, Matches(T, I, L, l, q, e),
         \A i \in 1 .. l : E.node[q[i]].name = L.node[q[i]].name,
         NEW n, n = e[1].name, NEW V, V = Without(T, n)
  PROVE  Matches(V, I, E, l - 1, Rest(q, l), Rest(e, l))
<1>1. /\ e \in [1 .. l -> Entry]
      /\ \A i \in 1 .. l : L.node[q[i]].name = e[i].name
      /\ \A i, j \in 1 .. l : e[i].name = e[j].name => i = j
  BY DEF Matches
<1>2. /\ \A m \in Name : T[m] # <<>> => \E k : T[m] = <<k>>
      /\ \A m \in Name : T[m] # <<>> => \E i \in 1 .. l : e[i].name = m
      /\ \A i \in 1 .. l : T[e[i].name] # <<>> /\ I[Head(T[e[i].name])].size = e[i].size
  BY DEF Matches
<1>3. PICK p, r, d : p = l - 1 /\ r = Rest(q, l) /\ d = Rest(e, l)
  OBVIOUS
<1>4. /\ p \in Nat /\ 1 \in 1 .. l
      /\ \A i \in 1 .. p : i + 1 \in 1 .. l /\ i + 1 # 1 /\ r[i] = q[i + 1] /\ d[i] = e[i + 1]
  BY <1>3 DEF Rest
<1>5. \A i \in 1 .. l : e[i] \in Entry /\ e[i].name \in Name
  BY <1>1 DEF Entry
<1>6. d \in [1 .. p -> Entry]
  BY <1>3, <1>4, <1>5 DEF Rest
<1>7. n \in Name /\ T[n] # <<>>
  BY <1>2, <1>4, <1>5
<1>8. V[n] = <<>> /\ \A m \in Name : m # n => V[m] = T[m]
  <2>1. V[n] = Tail(T[n]) /\ \A m \in Name : m # n => V[m] = T[m]
    BY <1>7 DEF Without
  <2>2. PICK k : T[n] = <<k>>
    BY <1>2, <1>7
  <2>3. Tail(<<k>>) = <<>>
    OBVIOUS
  <2>4. QED
    BY <2>1, <2>2, <2>3
<1>9. \A i \in 1 .. p : E.node[r[i]].name = d[i].name
  BY <1>1, <1>4
<1>10. \A i, j \in 1 .. p : d[i].name = d[j].name => i = j
  <2>1. ASSUME NEW i \in 1 .. p, NEW j \in 1 .. p, d[i].name = d[j].name
        PROVE  i = j
    <3>1. i + 1 = j + 1
      BY <1>1, <1>4, <2>1
    <3>2. QED
      BY <1>4, <3>1
  <2>2. QED
    BY <2>1
<1>11. ASSUME NEW m \in Name, V[m] # <<>>
       PROVE  (\E k : V[m] = <<k>>) /\ \E i \in 1 .. p : d[i].name = m
  <2>1. m # n /\ V[m] = T[m]
    BY <1>8, <1>11
  <2>2. PICK j \in 1 .. l : e[j].name = m
    BY <1>2, <1>11, <2>1
  <2>3. j # 1
    BY <2>1, <2>2
  <2>4. j - 1 \in 1 .. p /\ (j - 1) + 1 = j
    BY <1>3, <2>3
  <2>5. d[j - 1].name = m
    BY <1>4, <2>2, <2>4
  <2>6. \E k : V[m] = <<k>>
    BY <1>2, <1>11, <2>1
  <2>7. QED
    BY <2>4, <2>5, <2>6
<1>12. ASSUME NEW i \in 1 .. p
       PROVE  V[d[i].name] # <<>> /\ I[Head(V[d[i].name])].size = d[i].size
  <2>1. i + 1 \in 1 .. l /\ i + 1 # 1 /\ d[i] = e[i + 1]
    BY <1>4
  <2>2. d[i].name # n /\ d[i].name \in Name
    BY <1>1, <1>4, <1>5, <2>1
  <2>3. V[d[i].name] = T[e[i + 1].name]
    BY <1>8, <2>1, <2>2
  <2>4. QED
    BY <1>2, <2>1, <2>3
<1>13. Matches(V, I, E, p, r, d)
  BY <1>6, <1>9, <1>10, <1>11, <1>12 DEF Matches
<1>14. QED
  BY <1>3, <1>13

(* A turn of cache_evict's second loop takes out the oldest file, if       *)
(* nobody uses it.                                                         *)
LEMMA TurnDropsOldest ==
  ASSUME CInv, NEW l \in Nat, NEW q, NEW e, InOrder(table, item, lru, l, q, e),
         NEW i \in 0 .. l - 1, NEW c, OldestGone(c, i, l, q, e),
         Unused(Head(table[e[i + 1].name]))
  PROVE  OldestGone(EvictTurn(c), i + 1, l, q, e)
<1>1. item \in Seq(Items) /\ Len(item) \in Nat
  <2>1. item \in Seq(Items)
    BY DEF CInv, Typed
  <2>2. QED
    BY <2>1, LenProperties
<1>2. PICK T, s, L, t, v : c = [table |-> T, total |-> s, lru |-> L, tmp |-> t, evicted |-> v]
  BY DEF OldestGone, Evicting
<1>3. c.table = T /\ c.total = s /\ c.lru = L /\ c.tmp = t /\ c.evicted = v
  BY <1>2
<1>4. PICK p, r, d, len : p = l - i /\ r = From(q, i, l) /\ d = From(e, i, l) /\ len = Len(item)
  OBVIOUS
<1>5. /\ DList(L, len, p, r) /\ Matches(T, item, L, p, r, d)
      /\ t = (IF i = l THEN 0 ELSE q[i + 1])
      /\ v = SumUpTo(Sizes(e, l), i)
      /\ s = total - SumUpTo(Sizes(e, l), i)
      /\ \A n \in Name : T[n] = table[n] \/ T[n] = <<>>
      /\ Evicting(c)
  BY <1>3, <1>4 DEF OldestGone, InOrder
<1>6. /\ Rest(r, p) = From(q, i + 1, l) /\ Rest(d, p) = From(e, i + 1, l)
      /\ p - 1 = l - (i + 1) /\ p \in Nat /\ p # 0 /\ r[1] = q[i + 1] /\ d[1] = e[i + 1]
      /\ (p # 1 => r[2] = q[i + 2])
  BY <1>4, FromNext
<1>7. i # l /\ (i + 1 = l <=> p = 1) /\ i + 1 \in 1 .. l /\ i \in Nat /\ 1 \in 1 .. p /\ i + 1 + 1 = i + 2
  BY <1>4
<1>8. Listing(L, len, p, r)
  BY <1>1, <1>4, <1>5, ListFacts
<1>9. /\ L.head # -1 /\ t = r[1] /\ t \in 1 .. len
      /\ \A j \in 1 .. p : r[j] \in 1 .. len
  BY <1>5, <1>6, <1>7, <1>8 DEF Listing
<1>10. PICK n, E, k : n = L.node[t].name /\ E = Deque(L, n) /\ k = Head(T[n])
  OBVIOUS
<1>11. /\ DList(E, len, p - 1, Rest(r, p)) /\ NamesKept(E, L, len)
       /\ FirstNamed(L, n) = r[1]
       /\ E.node[r[1]].next = IF p = 1 THEN 0 ELSE r[2]
  <2>1. n = L.node[r[1]].name
    BY <1>9, <1>10
  <2>2. FirstGone(E, L, len, p, r, n)
    BY <1>1, <1>4, <1>5, <1>6, <1>10, <2>1, DequeFirstExact
  <2>3. QED
    BY <2>2 DEF FirstGone
<1>12. /\ n = d[1].name /\ n = e[i + 1].name /\ n \in Name /\ T[n] # <<>>
       /\ item[k].size = d[1].size /\ T[n] = table[n]
  <2>1. d \in [1 .. p -> Entry] /\ L.node[r[1]].name = d[1].name
        /\ T[d[1].name] # <<>> /\ item[Head(T[d[1].name])].size = d[1].size
    BY <1>5, <1>7 DEF Matches
  <2>2. n = d[1].name
    BY <1>9, <1>10, <2>1
  <2>3. n \in Name
    BY <1>7, <2>1, <2>2 DEF Entry
  <2>4. QED
    BY <1>5, <1>6, <1>10, <2>1, <2>2, <2>3
<1>13. Unused(k)
  BY <1>10, <1>12
<1>14. E.head # -1
  <2>1. p - 1 \in Nat
    BY <1>6
  <2>2. Listing(E, len, p - 1, Rest(r, p))
    BY <1>1, <1>4, <1>11, ListFacts
  <2>3. QED
    BY <2>2 DEF Listing
<1>15. PICK V, x, tt : V = Without(T, n) /\ x = item[k].size /\ tt = E.node[r[1]].next
  OBVIOUS
<1>16. EvictTurn(c) = [table |-> V, total |-> s - x, lru |-> E, tmp |-> tt, evicted |-> v + x]
  <2>1. FirstNamed(L, n) = r[1] /\ ~Faulted(E)
    BY <1>11, <1>14 DEF Faulted
  <2>2. QED
    BY <1>2, <1>10, <1>12, <1>13, <1>15, <2>1 DEF EvictTurn, Unlinked, Reclaimed, Without
<1>17. PICK b : b = EvictTurn(c)
  OBVIOUS
<1>18. b.table = V /\ b.total = s - x /\ b.lru = E /\ b.tmp = tt /\ b.evicted = v + x
  BY <1>16, <1>17
<1>19. Evicting(b)
  BY <1>1, <1>3, <1>5, <1>9, <1>17, TurnEvicting
<1>20. Matches(V, item, E, p - 1, Rest(r, p), Rest(d, p))
  <2>1. T \in [Name -> Seq(1 .. len)]
    BY <1>3, <1>4, <1>5 DEF Evicting, GoodTable
  <2>2. \A j \in 1 .. p : E.node[r[j]].name = L.node[r[j]].name
    BY <1>9, <1>11 DEF NamesKept
  <2>3. QED
    BY <1>5, <1>6, <1>12, <1>15, <2>1, <2>2, RestMatches
<1>21. tt = IF i + 1 = l THEN 0 ELSE q[i + 1 + 1]
  BY <1>6, <1>7, <1>11, <1>15
<1>22. SumUpTo(Sizes(e, l), i + 1) = SumUpTo(Sizes(e, l), i) + x
  <2>1. Sizes(e, l)[i + 1] = x
    BY <1>6, <1>7, <1>12, <1>15 DEF Sizes
  <2>2. SumUpTo(Sizes(e, l), i + 1) = SumUpTo(Sizes(e, l), i) + Sizes(e, l)[i + 1]
    BY <1>7, SumByTurns
  <2>3. QED
    BY <2>1, <2>2
<1>23. \A m \in Name : V[m] = table[m] \/ V[m] = <<>>
  <2>1. T[n] # <<>> => \E j : T[n] = <<j>>
    BY <1>5, <1>12 DEF Matches
  <2>2. PICK j : T[n] = <<j>>
    BY <1>12, <2>1
  <2>3. Tail(<<j>>) = <<>>
    OBVIOUS
  <2>4. V \in [Name -> Seq(1 .. len)] /\ V[n] = Tail(T[n]) /\ \A m \in Name : m # n => V[m] = T[m]
    <3>1. T \in [Name -> Seq(1 .. len)]
      BY <1>3, <1>4, <1>5 DEF Evicting, GoodTable
    <3>2. V \in [Name -> Seq(1 .. len)]
      BY <1>4, <1>18, <1>19 DEF Evicting, GoodTable
    <3>3. QED
      BY <1>12, <1>15, <3>1, <3>2 DEF Without
  <2>5. QED
    BY <1>5, <2>2, <2>3, <2>4
<1>24. InOrder(V, item, E, l - (i + 1), From(q, i + 1, l), From(e, i + 1, l))
  BY <1>4, <1>6, <1>11, <1>20 DEF InOrder
<1>25. /\ SumUpTo(Sizes(e, l), i) \in Int /\ x \in Int /\ total \in Int
  <2>1. ASSUME NEW a \in 1 .. l
        PROVE  Sizes(e, l)[a] \in Nat
    <3>1. e \in [1 .. l -> Entry]
      BY DEF InOrder, Matches
    <3>2. QED
      BY <3>1 DEF Sizes, Entry
  <2>2. SumUpTo(Sizes(e, l), i) \in Nat
    <3>1. \A a \in 1 .. i : Sizes(e, l)[a] \in Nat
      BY <1>7, <2>1
    <3>2. QED
      BY <1>7, <3>1, SumOfNats
  <2>3. x \in Nat
    <3>1. Sizes(e, l)[i + 1] = x
      BY <1>6, <1>7, <1>12, <1>15 DEF Sizes
    <3>2. QED
      BY <1>7, <2>1, <3>1
  <2>4. total \in Nat
    BY <1>1, WeightIsNat DEF CInv, Totalled
  <2>5. QED
    BY <2>2, <2>3, <2>4
<1>26. /\ v + x = SumUpTo(Sizes(e, l), i + 1)
       /\ s - x = total - SumUpTo(Sizes(e, l), i + 1)
  BY <1>5, <1>22, <1>25
<1>27. OldestGone(b, i + 1, l, q, e)
  BY <1>18, <1>19, <1>21, <1>23, <1>24, <1>26 DEF OldestGone
<1>28. QED
  BY <1>17, <1>27

(* What the invariant says of the numbers.                                 *)
LEMMA CountsFromStart ==
  ASSUME CInv
  PROVE  item \in Seq(Items) /\ Len(item) \in Nat /\ total \in Nat
<1>1. item \in Seq(Items)
  BY DEF CInv, Typed
<1>2. total \in Nat
  BY <1>1, WeightIsNat DEF CInv, Totalled
<1>3. QED
  BY <1>1, <1>2, LenProperties

(* Sums of sizes are naturals.                                             *)
LEMMA SizesSum ==
  ASSUME NEW l \in Nat, NEW e \in [1 .. l -> Entry]
  PROVE  /\ \A i \in 1 .. l : Sizes(e, l)[i] = e[i].size /\ Sizes(e, l)[i] \in Nat
         /\ \A i \in 0 .. l : SumUpTo(Sizes(e, l), i) \in Nat
         /\ SumUpTo(Sizes(e, l), 0) = 0
<1>1. \A i \in 1 .. l : Sizes(e, l)[i] = e[i].size /\ Sizes(e, l)[i] \in Nat
  BY DEF Sizes, Entry
<1>2. ASSUME NEW i \in 0 .. l
      PROVE  SumUpTo(Sizes(e, l), i) \in Nat
  <2>1. i \in Nat /\ \A a \in 1 .. i : a \in 1 .. l
    OBVIOUS
  <2>2. \A a \in 1 .. i : Sizes(e, l)[a] \in Nat
    BY <1>1, <2>1
  <2>3. QED
    BY <2>1, <2>2, SumOfNats
<1>3. SumUpTo(Sizes(e, l), 0) = 0
  BY SumByTurns
<1>4. QED
  BY <1>1, <1>2, <1>3

(* Eviction begins with the oldest file.                                   *)
LEMMA OldestAtStart ==
  ASSUME CInv, NEW l \in Nat, NEW q, NEW e, InOrder(table, item, lru, l, q, e)
  PROVE  OldestGone(Present, 0, l, q, e)
<1>1. item \in Seq(Items) /\ Len(item) \in Nat /\ total \in Nat
  BY CountsFromStart
<1>2. DList(lru, Len(item), l, q) /\ Matches(table, item, lru, l, q, e)
  BY DEF InOrder
<1>3. /\ q \in [1 .. l -> 1 .. Len(item)] /\ e \in [1 .. l -> Entry]
      /\ lru.head = IF l = 0 THEN 0 ELSE q[1]
  BY <1>2 DEF DList, Chain, Matches
<1>4. From(q, 0, l) = q /\ From(e, 0, l) = e
  BY <1>3, FromStart
<1>5. PICK c : c = Present
  OBVIOUS
<1>6. c.table = table /\ c.total = total /\ c.lru = lru /\ c.tmp = lru.head /\ c.evicted = 0
  BY <1>5 DEF Present
<1>7. Evicting(c)
  BY <1>5, PresentEvicting
<1>8. InOrder(c.table, item, c.lru, l - 0, From(q, 0, l), From(e, 0, l))
  BY <1>4, <1>6
<1>9. SumUpTo(Sizes(e, l), 0) = 0
  BY SumByTurns
<1>10. c.tmp = IF 0 = l THEN 0 ELSE q[0 + 1]
  BY <1>3, <1>6
<1>11. OldestGone(c, 0, l, q, e)
  BY <1>1, <1>6, <1>7, <1>8, <1>9, <1>10 DEF OldestGone
<1>12. QED
  BY <1>5, <1>11

(* m is the least number of files, oldest first, that frees need bytes.    *)
FreesEnough(e, l, m, need) ==
  /\ SumUpTo(Sizes(e, l), m) >= need
  /\ \A j \in 0 .. m - 1 : SumUpTo(Sizes(e, l), j) < need

(* Nobody uses the m oldest files.                                         *)
OldestUnused(e, m) == \A a \in 1 .. m : Unused(Head(table[e[a].name]))

(* Then these are the files that cache_evict evicts.                       *)
LEMMA EvictsOldest ==
  ASSUME CInv, NEW l \in Nat, NEW q, NEW e, InOrder(table, item, lru, l, q, e),
         NEW need \in Int, NEW m \in 0 .. l, OldestUnused(e, m), FreesEnough(e, l, m, need)
  PROVE  OldestGone(Evict(need), m, l, q, e)
<1>1. item \in Seq(Items) /\ Len(item) \in Nat /\ total \in Nat
  BY CountsFromStart
<1>2. DList(lru, Len(item), l, q) /\ Matches(table, item, lru, l, q, e)
  BY DEF InOrder
<1>3. /\ q \in [1 .. l -> 1 .. Len(item)] /\ e \in [1 .. l -> Entry]
      /\ \A i, j \in 1 .. l : q[i] = q[j] => i = j
      /\ \A i \in 1 .. l : q[i] # 0
  BY <1>1, <1>2 DEF DList, Chain, Matches
<1>4. l <= Len(item)
  BY <1>1, <1>3, InjectiveIsShort
<1>5. MaxTurns \in Nat /\ m <= MaxTurns
  <2>1. ASSUME NEW a \in Nat
        PROVE  (a + 1) * a \in Nat /\ a <= (a + 1) * a
    OBVIOUS
  <2>2. MaxTurns \in Nat /\ Len(item) <= MaxTurns
    BY <1>1, <2>1 DEF MaxTurns
  <2>3. QED
    BY <1>1, <1>4, <2>2
<1>6. PICK g : Turns(need, MaxTurns, g) /\ Evict(need) = g[MaxTurns]
  BY <1>5, EvictByTurns
<1> DEFINE S == {j \in Nat : j <= MaxTurns =>
                   \E i \in 0 .. m : OldestGone(g[j], i, l, q, e) /\ (i = j \/ i = m)}
<1>7. 0 \in S
  <2>1. g[0] = Present
    BY <1>5, <1>6 DEF Turns
  <2>2. OldestGone(g[0], 0, l, q, e)
    BY <2>1, OldestAtStart
  <2>3. QED
    BY <2>2
<1>8. ASSUME NEW j \in Nat, j \in S
      PROVE  j + 1 \in S
  <2>1. SUFFICES ASSUME j + 1 <= MaxTurns
                 PROVE  \E i \in 0 .. m : OldestGone(g[j + 1], i, l, q, e) /\ (i = j + 1 \/ i = m)
    OBVIOUS
  <2>2. PICK c, d : c = g[j] /\ d = g[j + 1]
    OBVIOUS
  <2>3. PICK i \in 0 .. m : OldestGone(c, i, l, q, e) /\ (i = j \/ i = m)
    <3>1. j <= MaxTurns
      BY <1>5, <2>1
    <3>2. QED
      BY <1>8, <2>2, <3>1
  <2>4. d = IF c.tmp = 0 \/ c.evicted >= need \/ Faulted(c.lru) THEN c ELSE EvictTurn(c)
    <3>1. j + 1 \in 0 .. MaxTurns /\ j + 1 # 0 /\ (j + 1) - 1 = j
      BY <1>5, <2>1
    <3>2. g[j + 1] = IF j + 1 = 0 THEN Present
                     ELSE LET b == g[(j + 1) - 1]
                          IN IF b.tmp = 0 \/ b.evicted >= need \/ Faulted(b.lru) THEN b ELSE EvictTurn(b)
      BY <1>6, <3>1 DEF Turns
    <3>3. QED
      BY <2>2, <3>1, <3>2
  <2>5. c.evicted = SumUpTo(Sizes(e, l), i) /\ c.tmp = IF i = l THEN 0 ELSE q[i + 1]
    BY <2>3 DEF OldestGone
  <2>6. CASE i = m
    <3>1. c.evicted >= need
      BY <2>5, <2>6 DEF FreesEnough
    <3>2. d = c
      BY <2>4, <3>1
    <3>3. QED
      BY <2>2, <2>3, <2>6, <3>2
  <2>7. CASE i # m
    <3>1. i \in 0 .. l - 1 /\ i \in 0 .. m - 1 /\ i = j /\ i + 1 \in 1 .. m /\ i + 1 \in 1 .. l /\ i # l
      BY <2>3, <2>7
    <3>2. SumUpTo(Sizes(e, l), i) < need /\ SumUpTo(Sizes(e, l), i) \in Nat
      <4>1. SumUpTo(Sizes(e, l), i) \in Nat
        BY <1>3, <3>1, SizesSum
      <4>2. QED
        BY <3>1, <4>1 DEF FreesEnough
    <3>3. ~(c.evicted >= need)
      BY <2>5, <3>2
    <3>4. c.tmp # 0
      BY <1>3, <2>5, <3>1
    <3>5. ~Faulted(c.lru)
      <4>1. PICK p, r : DList(c.lru, Len(item), p, r)
        BY <2>3 DEF OldestGone, InOrder
      <4>2. Listing(c.lru, Len(item), p, r)
        BY <1>1, <4>1, ListFacts
      <4>3. QED
        BY <4>2 DEF Listing, Faulted
    <3>6. d = EvictTurn(c)
      BY <2>4, <3>3, <3>4, <3>5
    <3>7. Unused(Head(table[e[i + 1].name]))
      BY <3>1 DEF OldestUnused
    <3>8. OldestGone(EvictTurn(c), i + 1, l, q, e)
      BY <2>3, <3>1, <3>7, TurnDropsOldest
    <3>9. i + 1 \in 0 .. m /\ i + 1 = j + 1
      BY <3>1
    <3>10. QED
      BY <2>2, <3>6, <3>8, <3>9
  <2>8. QED
    BY <2>6, <2>7
<1> HIDE DEF S
<1>9. MaxTurns \in S
  BY <1>5, <1>7, <1>8, SetInduction
<1>10. PICK i \in 0 .. m : OldestGone(g[MaxTurns], i, l, q, e) /\ (i = MaxTurns \/ i = m)
  BY <1>5, <1>9 DEF S
<1>11. i = m
  BY <1>5, <1>10
<1>12. QED
  BY <1>6, <1>10, <1>11

(* The names that cache_evict meets are those of the cached files, oldest  *)
(* first.                                                                  *)
LEMMA ListIsEntries ==
  ASSUME CInv, NEW l \in Nat, NEW q, NEW e, InOrder(table, item, lru, l, q, e)
  PROVE  /\ Forward(lru) = q /\ ~Faulted(lru)
         /\ q \in [1 .. l -> 1 .. Len(item)] /\ e \in [1 .. l -> Entry]
         /\ Listed = [a \in 1 .. l |-> e[a].name]
<1>1. item \in Seq(Items) /\ Len(item) \in Nat /\ total \in Nat
  BY CountsFromStart
<1>2. DList(lru, Len(item), l, q) /\ Matches(table, item, lru, l, q, e)
  BY DEF InOrder
<1>3. Listing(lru, Len(item), l, q)
  BY <1>1, <1>2, ListFacts
<1>4. Len(lru.node) = Len(item) /\ lru.head # -1 /\ q \in [1 .. l -> 1 .. Len(item)]
  BY <1>3 DEF Listing
<1>5. Chain(lru, Len(item), l, q)
  BY <1>2 DEF DList
<1>6. Forward(lru) = q
  BY <1>1, <1>4, <1>5, ForwardIsChain
<1>7. e \in [1 .. l -> Entry] /\ \A i \in 1 .. l : lru.node[q[i]].name = e[i].name
  BY <1>2 DEF Matches
<1>8. Listed = [a \in 1 .. l |-> lru.node[q[a]].name]
  BY <1>4, <1>6 DEF Listed
<1>9. Listed = [a \in 1 .. l |-> e[a].name]
  BY <1>7, <1>8
<1>10. QED
  BY <1>4, <1>6, <1>7, <1>9 DEF Faulted

(* So its first loop adds up their sizes, as long as they are unused, and  *)
(* finds an item for each.                                                 *)
LEMMA FirstLoop ==
  ASSUME CInv, NEW l \in Nat, NEW q, NEW e, InOrder(table, item, lru, l, q, e),
         NEW names, names = Listed
  PROVE  /\ Len(names) = l
         /\ \A m \in 0 .. l : /\ Evictable(names, m) <=> OldestUnused(e, m)
                              /\ Promised(names, m) = SumUpTo(Sizes(e, l), m)
         /\ \A m \in 0 .. l - 1 : table[names[m + 1]] # <<>>
<1>1. names = [a \in 1 .. l |-> e[a].name] /\ e \in [1 .. l -> Entry]
  BY ListIsEntries
<1>2. /\ \A i \in 1 .. l : table[e[i].name] # <<>> /\ item[Head(table[e[i].name])].size = e[i].size
  BY DEF InOrder, Matches
<1>3. \A i \in 1 .. l : names[i] = e[i].name /\ names[i] \in Name
  BY <1>1 DEF Entry
<1>4. names \in [1 .. l -> Name]
  BY <1>1, <1>3
<1>5. Len(names) = l
  BY <1>4
<1>6. ASSUME NEW m \in 0 .. l
      PROVE  /\ Evictable(names, m) <=> OldestUnused(e, m)
             /\ Promised(names, m) = SumUpTo(Sizes(e, l), m)
  <2>1. m \in Nat /\ \A i \in 1 .. m : i \in 1 .. l
    OBVIOUS
  <2>2. Evictable(names, m) <=> OldestUnused(e, m)
    BY <1>2, <1>3, <2>1 DEF Evictable, OldestUnused, Candidate
  <2>3. PICK f : f = [i \in 1 .. m |-> item[Candidate(names[i])].size]
    OBVIOUS
  <2>4. \A i \in 1 .. m : f[i] = Sizes(e, l)[i]
    BY <1>2, <1>3, <2>1, <2>3 DEF Sizes, Candidate
  <2>5. SumUpTo(f, m) = SumUpTo(Sizes(e, l), m)
    BY <2>1, <2>4, SumDependsOnTerms
  <2>6. QED
    BY <2>2, <2>3, <2>5 DEF Promised
<1>7. ASSUME NEW m \in 0 .. l - 1
      PROVE  table[names[m + 1]] # <<>>
  <2>1. m + 1 \in 1 .. l
    OBVIOUS
  <2>2. QED
    BY <1>2, <1>3, <2>1
<1>8. QED
  BY <1>5, <1>6, <1>7

(* When cache_insert does not give up, room has been made for the file by  *)
(* evicting the oldest files, as few as will do and none in use.           *)
LEMMA RoomMade ==
  ASSUME CInv, NEW l \in Nat, NEW q, NEW e, InOrder(table, item, lru, l, q, e),
         NEW size \in Nat, ~Refused(size)
  PROVE  \E m \in 0 .. l : /\ OldestUnused(e, m) /\ FreesEnough(e, l, m, size - Room)
                           /\ OldestGone(Cleared(size), m, l, q, e)
<1>1. total \in Nat /\ MaxCacheSize \in Nat
  BY CountsFromStart, CacheAssumption
<1>2. Room \in Int
  BY <1>1 DEF Room
<1>3. CASE size <= Room
  <2>1. Cleared(size) = Present
    BY <1>3 DEF Cleared
  <2>2. OldestGone(Present, 0, l, q, e)
    BY OldestAtStart
  <2>3. SumUpTo(Sizes(e, l), 0) = 0
    BY SumByTurns
  <2>4. FreesEnough(e, l, 0, size - Room)
    BY <1>2, <1>3, <2>3 DEF FreesEnough
  <2>5. OldestUnused(e, 0)
    BY DEF OldestUnused
  <2>6. 0 \in 0 .. l
    OBVIOUS
  <2>7. QED
    BY <2>1, <2>2, <2>4, <2>5, <2>6
<1>4. CASE ~(size <= Room)
  <2>1. PICK names, need : names = Listed /\ need = size - Room
    OBVIOUS
  <2>2. need \in Int /\ Room < size
    BY <1>2, <1>4, <2>1
  <2>3. /\ Len(names) = l
        /\ \A m \in 0 .. l : /\ Evictable(names, m) <=> OldestUnused(e, m)
                             /\ Promised(names, m) = SumUpTo(Sizes(e, l), m)
        /\ \A m \in 0 .. l - 1 : table[names[m + 1]] # <<>>
    BY <2>1, FirstLoop
  <2>4. ~MeetsNull(need)
    BY <2>1, <2>3 DEF MeetsNull
  <2>5. CanEvict(need)
    BY <2>1, <2>2, <2>4 DEF Refused
  <2>6. PICK T : T = {m \in 0 .. l : OldestUnused(e, m) /\ SumUpTo(Sizes(e, l), m) >= need}
    OBVIOUS
  <2>7. T \subseteq Nat /\ T # {}
    BY <2>1, <2>3, <2>5, <2>6 DEF CanEvict
  <2>8. PICK m \in T : \A y \in T : m <= y
    BY <2>7, Least
  <2>9. m \in 0 .. l /\ OldestUnused(e, m) /\ SumUpTo(Sizes(e, l), m) >= need
    BY <2>6, <2>8
  <2>10. ASSUME NEW j \in 0 .. m - 1
         PROVE  SumUpTo(Sizes(e, l), j) < need
    <3>1. j \in 0 .. l /\ ~(m <= j)
      BY <2>9
    <3>2. j \notin T
      BY <2>8, <3>1
    <3>3. OldestUnused(e, j)
      <4>1. \A a \in 1 .. j : a \in 1 .. m
        BY <2>9
      <4>2. QED
        BY <2>9, <4>1 DEF OldestUnused
    <3>4. ~(SumUpTo(Sizes(e, l), j) >= need)
      BY <2>6, <3>1, <3>2, <3>3
    <3>5. SumUpTo(Sizes(e, l), j) \in Nat
      <4>1. e \in [1 .. l -> Entry]
        BY ListIsEntries
      <4>2. QED
        BY <3>1, <4>1, SizesSum
    <3>6. QED
      BY <2>2, <3>4, <3>5
  <2>11. FreesEnough(e, l, m, need)
    BY <2>9, <2>10 DEF FreesEnough
  <2>12. OldestGone(Evict(need), m, l, q, e)
    BY <2>2, <2>9, <2>11, EvictsOldest
  <2>13. Cleared(size) = Evict(need)
    BY <1>4, <2>1, <2>4 DEF Cleared
  <2>14. QED
    BY <2>1, <2>9, <2>11, <2>12, <2>13
<1>5. QED
  BY <1>3, <1>4

-----------------------------------------------------------------------------
(* Insertion into it, and the invariant.                                    *)
(* What the files that stay add up to.                                     *)
LEMMA SuffixSum ==
  ASSUME NEW l \in Nat, NEW e \in [1 .. l -> Entry], NEW m \in 0 .. l
  PROVE  SumUpTo(Sizes(From(e, m, l), l - m), l - m) = SumUpTo(Sizes(e, l), l) - SumUpTo(Sizes(e, l), m)
<1>1. PICK f, g, p : f = Sizes(e, l) /\ g = Sizes(From(e, m, l), l - m) /\ p = l - m
  OBVIOUS
<1>2. /\ p \in Nat /\ m \in Nat /\ m + p = l
      /\ \A a \in 0 .. l : SumUpTo(f, a) \in Nat
      /\ \A a \in 1 .. l : f[a] \in Nat
  BY <1>1, SizesSum
<1>3. \A a \in 1 .. p : g[a] = f[a + m]
  <2>1. \A a \in 1 .. p : a + m \in 1 .. l
    BY <1>1
  <2>2. \A a \in 1 .. p : From(e, m, l)[a] = e[a + m]
    BY <1>1 DEF From
  <2>3. QED
    BY <1>1, <2>1, <2>2 DEF Sizes
<1> DEFINE S == {a \in Nat : a <= p => SumUpTo(g, a) = SumUpTo(f, m + a) - SumUpTo(f, m)}
<1>4. 0 \in S
  <2>1. SumUpTo(g, 0) = 0
    BY SumByTurns
  <2>2. m + 0 = m /\ SumUpTo(f, m) \in Nat
    BY <1>2
  <2>3. QED
    BY <2>1, <2>2
<1>5. ASSUME NEW a \in Nat, a \in S
      PROVE  a + 1 \in S
  <2>1. SUFFICES ASSUME a + 1 <= p
                 PROVE  SumUpTo(g, a + 1) = SumUpTo(f, m + (a + 1)) - SumUpTo(f, m)
    OBVIOUS
  <2>2. SumUpTo(g, a) = SumUpTo(f, m + a) - SumUpTo(f, m)
    BY <1>2, <1>5, <2>1
  <2>3. SumUpTo(g, a + 1) = SumUpTo(g, a) + g[a + 1]
    BY SumByTurns
  <2>4. m + a \in Nat /\ m + (a + 1) = (m + a) + 1 /\ a + 1 \in 1 .. p /\ a + 1 + m = m + a + 1
    BY <1>2, <2>1
  <2>5. SumUpTo(f, (m + a) + 1) = SumUpTo(f, m + a) + f[(m + a) + 1]
    BY <2>4, SumByTurns
  <2>6. g[a + 1] = f[(m + a) + 1]
    BY <1>3, <2>4
  <2>7. m + a \in 0 .. l /\ (m + a) + 1 \in 1 .. l
    BY <1>2, <2>1
  <2>8. SumUpTo(f, m + a) \in Nat /\ SumUpTo(f, m) \in Nat /\ f[(m + a) + 1] \in Nat
    BY <1>2, <2>7
  <2>9. QED
    BY <2>2, <2>3, <2>4, <2>5, <2>6, <2>8
<1> HIDE DEF S
<1>6. p \in S
  BY <1>2, <1>4, <1>5, SetInduction
<1>7. SumUpTo(g, p) = SumUpTo(f, m + p) - SumUpTo(f, m)
  BY <1>2, <1>6 DEF S
<1>8. QED
  BY <1>1, <1>2, <1>7

(* A file more adds its size.                                              *)
LEMMA LongerSum ==
  ASSUME NEW p \in Nat, NEW d \in [1 .. p -> Entry], NEW x \in Entry
  PROVE  /\ Longer(d, p, x) \in [1 .. p + 1 -> Entry]
         /\ SumUpTo(Sizes(Longer(d, p, x), p + 1), p + 1) = SumUpTo(Sizes(d, p), p) + x.size
<1>1. PICK b, f, g : b = Longer(d, p, x) /\ f = Sizes(d, p) /\ g = Sizes(b, p + 1)
  OBVIOUS
<1>2. \A i \in 1 .. p : i \in 1 .. p + 1 /\ i # p + 1
  OBVIOUS
<1>3. b[p + 1] = x /\ \A i \in 1 .. p : b[i] = d[i]
  BY <1>1, <1>2 DEF Longer
<1>4. b \in [1 .. p + 1 -> Entry]
  <2>1. \A i \in 1 .. p + 1 : i = p + 1 \/ i \in 1 .. p
    OBVIOUS
  <2>2. \A i \in 1 .. p + 1 : b[i] \in Entry
    BY <1>3, <2>1
  <2>3. QED
    BY <1>1, <2>2 DEF Longer
<1>5. g[p + 1] = x.size /\ \A i \in 1 .. p : g[i] = f[i]
  BY <1>1, <1>2, <1>3 DEF Sizes
<1>6. SumUpTo(g, p + 1) = SumUpTo(g, p) + g[p + 1]
  BY SumByTurns
<1>7. SumUpTo(g, p) = SumUpTo(f, p)
  BY <1>5, SumDependsOnTerms
<1>8. QED
  BY <1>1, <1>4, <1>5, <1>6, <1>7

(* The names on the list match the table again when the new file is in     *)
(* both.                                                                   *)
LEMMA AddedMatches ==
  ASSUME NEW I \in Seq(Items), NEW T, GoodTable(T, I), NEW L,
         NEW p \in Nat, NEW r \in [1 .. p -> 1 .. Len(I)], NEW d, Matches(T, I, L, p, r, d),
         NEW n \in Name, T[n] = <<>>,
         NEW x \in Items, x.name = n, NEW J, J = Append(I, x),
         NEW k, k = Len(I) + 1, NEW V, V = With(T, n, k),
         NEW E, NamesKept(E, L, Len(I)), E.node[k].name = n
  PROVE  Matches(V, J, E, p + 1, Longer(r, p, k), Longer(d, p, [name |-> n, size |-> x.size]))
<1>1. PICK y, s, b, h, len : /\ y = [name |-> n, size |-> x.size] /\ s = Longer(r, p, k) /\ b = Longer(d, p, y)
                             /\ h = p + 1 /\ len = Len(I)
  OBVIOUS
<1>2. /\ d \in [1 .. p -> Entry]
      /\ \A i \in 1 .. p : L.node[r[i]].name = d[i].name
      /\ \A i, j \in 1 .. p : d[i].name = d[j].name => i = j
  BY DEF Matches
<1>3. /\ \A m \in Name : T[m] # <<>> => \E a : T[m] = <<a>>
      /\ \A m \in Name : T[m] # <<>> => \E i \in 1 .. p : d[i].name = m
      /\ \A i \in 1 .. p : T[d[i].name] # <<>> /\ I[Head(T[d[i].name])].size = d[i].size
  BY DEF Matches
<1>4. len \in Nat /\ k = len + 1 /\ J[k] = x /\ \A i \in 1 .. len : J[i] = I[i]
  BY <1>1, LenProperties, AppendProperties
<1>5. y \in Entry /\ y.name = n /\ y.size = x.size
  BY <1>1 DEF Entry, Items
<1>6. b \in [1 .. h -> Entry]
  BY <1>1, <1>2, <1>5, LongerSum
<1>7. /\ h \in 1 .. h /\ \A i \in 1 .. h : i # h => i \in 1 .. p
      /\ \A i \in 1 .. p : i \in 1 .. h /\ i # h
  BY <1>1
<1>8. /\ b[h] = y /\ s[h] = k
      /\ \A i \in 1 .. p : b[i] = d[i] /\ s[i] = r[i]
  BY <1>1, <1>7 DEF Longer
<1>9. T \in [Name -> Seq(1 .. len)]
  BY <1>1 DEF GoodTable
<1>10. V[n] = <<k>> /\ Head(V[n]) = k /\ \A m \in Name : m # n => V[m] = T[m]
  <2>1. V[n] = <<k>> \o T[n] /\ \A m \in Name : m # n => V[m] = T[m]
    BY <1>9 DEF With
  <2>2. <<k>> \o <<>> = <<k>> /\ Head(<<k>>) = k
    OBVIOUS
  <2>3. QED
    BY <2>1, <2>2
<1>11. \A i \in 1 .. p : d[i].name \in Name /\ d[i].name # n
  BY <1>2, <1>3 DEF Entry
<1>12. ASSUME NEW i \in 1 .. h
       PROVE  E.node[s[i]].name = b[i].name
  <2>1. CASE i = h
    BY <1>5, <1>8, <2>1
  <2>2. CASE i # h
    <3>1. i \in 1 .. p
      BY <1>7, <2>2
    <3>2. r[i] \in 1 .. len
      BY <1>1, <3>1
    <3>3. E.node[r[i]].name = L.node[r[i]].name
      BY <1>1, <3>2 DEF NamesKept
    <3>4. QED
      BY <1>2, <1>8, <3>1, <3>3
  <2>3. QED
    BY <2>1, <2>2
<1>13. ASSUME NEW i \in 1 .. h, NEW j \in 1 .. h, b[i].name = b[j].name
       PROVE  i = j
  <2>1. CASE i = h
    BY <1>5, <1>7, <1>8, <1>11, <1>13, <2>1
  <2>2. CASE i # h
    BY <1>2, <1>5, <1>7, <1>8, <1>11, <1>13, <2>2
  <2>3. QED
    BY <2>1, <2>2
<1>14. ASSUME NEW m \in Name, V[m] # <<>>
       PROVE  (\E a : V[m] = <<a>>) /\ \E i \in 1 .. h : b[i].name = m
  <2>1. CASE m = n
    BY <1>5, <1>7, <1>8, <1>10, <2>1
  <2>2. CASE m # n
    <3>1. V[m] = T[m] /\ T[m] # <<>>
      BY <1>10, <1>14, <2>2
    <3>2. PICK i \in 1 .. p : d[i].name = m
      BY <1>3, <3>1
    <3>3. i \in 1 .. h /\ b[i].name = m
      BY <1>7, <1>8, <3>2
    <3>4. \E a : V[m] = <<a>>
      BY <1>3, <3>1
    <3>5. QED
      BY <3>3, <3>4
  <2>3. QED
    BY <2>1, <2>2
<1>15. ASSUME NEW i \in 1 .. h
       PROVE  V[b[i].name] # <<>> /\ J[Head(V[b[i].name])].size = b[i].size
  <2>1. CASE i = h
    <3>1. V[n] # <<>>
      BY <1>10
    <3>2. QED
      BY <1>4, <1>5, <1>8, <1>10, <2>1, <3>1
  <2>2. CASE i # h
    <3>1. i \in 1 .. p /\ b[i] = d[i]
      BY <1>7, <1>8, <2>2
    <3>2. PICK m : m = d[i].name
      OBVIOUS
    <3>3. m \in Name /\ V[m] = T[m] /\ T[m] # <<>> /\ I[Head(T[m])].size = d[i].size
      BY <1>3, <1>10, <1>11, <3>1, <3>2
    <3>4. T[m] \in Seq(1 .. len)
      BY <1>9, <3>3
    <3>5. Head(T[m]) \in 1 .. len
      BY <3>3, <3>4, TailOfQueue
    <3>6. QED
      BY <1>4, <3>1, <3>2, <3>3, <3>5
  <2>3. QED
    BY <2>1, <2>2
<1>16. Matches(V, J, E, h, s, b)
  BY <1>6, <1>12, <1>13, <1>14, <1>15 DEF Matches
<1>17. QED
  BY <1>1, <1>16

(* After eviction, cache_insert makes the new file the last of the list    *)
(* and its node does not follow NULL.                                      *)
LEMMA InsertedInOrder ==
  ASSUME CInv, NEW n \in Name, table[n] = <<>>,
         NEW l \in Nat, NEW q, NEW e, InOrder(table, item, lru, l, q, e),
         NEW c, NEW m \in 0 .. l, OldestGone(c, m, l, q, e),
         NEW x \in Items, x.name = n, NEW J, J = Append(item, x),
         NEW V, V = With(c.table, n, Len(item) + 1), NEW E, E = Relinked(c.lru, n)
  PROVE  /\ InOrder(V, J, E, l - m + 1, Longer(From(q, m, l), l - m, Len(item) + 1),
                    Longer(From(e, m, l), l - m, [name |-> n, size |-> x.size]))
         /\ ~Faulted(E)
<1>1. item \in Seq(Items) /\ Len(item) \in Nat
  BY CountsFromStart
<1>2. PICK p, r, d, len, k, T, L : /\ p = l - m /\ r = From(q, m, l) /\ d = From(e, m, l)
                                   /\ len = Len(item) /\ k = len + 1 /\ T = c.table /\ L = c.lru
  OBVIOUS
<1>3. p \in Nat /\ len \in Nat /\ k \in Nat
  BY <1>1, <1>2
<1>4. /\ DList(L, len, p, r) /\ Matches(T, item, L, p, r, d) /\ GoodTable(T, item)
      /\ T[n] = <<>>
  BY <1>2 DEF OldestGone, InOrder, Evicting
<1>5. Listing(L, len, p, r)
  BY <1>3, <1>4, ListFacts
<1>6. r \in [1 .. p -> 1 .. len] /\ \A i \in 1 .. p : r[i] \in 1 .. len
  BY <1>5 DEF Listing
<1>7. ASSUME NEW i \in 1 .. p
      PROVE  L.node[r[i]].name # n
  <2>1. L.node[r[i]].name = d[i].name /\ T[d[i].name] # <<>>
    BY <1>4 DEF Matches
  <2>2. QED
    BY <1>4, <2>1
<1>8. E = Relinked(L, n)
  BY <1>2
<1>9. /\ DList(E, k, p + 1, Longer(r, p, k)) /\ NamesKept(E, L, len)
      /\ E.node[k].name = n
  BY <1>1, <1>2, <1>4, <1>7, <1>8, RelinkedExact
<1>10. Matches(V, J, E, p + 1, Longer(r, p, k), Longer(d, p, [name |-> n, size |-> x.size]))
  <2>1. r \in [1 .. p -> 1 .. Len(item)] /\ V = With(T, n, k) /\ k = Len(item) + 1 /\ NamesKept(E, L, Len(item))
    BY <1>2, <1>6, <1>9
  <2>2. QED
    BY <1>1, <1>3, <1>4, <1>9, <2>1, AddedMatches
<1>11. Len(J) = k
  BY <1>1, <1>2, AppendProperties
<1>12. InOrder(V, J, E, p + 1, Longer(r, p, k), Longer(d, p, [name |-> n, size |-> x.size]))
  BY <1>9, <1>10, <1>11 DEF InOrder
<1>13. ~Faulted(E)
  <2>1. Listing(E, k, p + 1, Longer(r, p, k))
    BY <1>3, <1>9, ListFacts
  <2>2. QED
    BY <2>1 DEF Listing, Faulted
<1>14. QED
  BY <1>2, <1>12, <1>13

(* Use counts do not matter to the list.                                   *)
LEMMA SameSizesInOrder ==
  ASSUME NEW I \in Seq(Items), NEW T, GoodTable(T, I), NEW J, Len(J) = Len(I),
         \A k \in 1 .. Len(I) : J[k].size = I[k].size,
         NEW L, NEW l, NEW q, NEW e, InOrder(T, I, L, l, q, e)
  PROVE  InOrder(T, J, L, l, q, e)
<1>1. DList(L, Len(J), l, q)
  BY DEF InOrder
<1>2. /\ e \in [1 .. l -> Entry]
      /\ \A i \in 1 .. l : L.node[q[i]].name = e[i].name
      /\ \A i, j \in 1 .. l : e[i].name = e[j].name => i = j
      /\ \A n \in Name : T[n] # <<>> => /\ \E k : T[n] = <<k>>
                                        /\ \E i \in 1 .. l : e[i].name = n
      /\ \A i \in 1 .. l : T[e[i].name] # <<>> /\ I[Head(T[e[i].name])].size = e[i].size
  BY DEF InOrder, Matches
<1>3. ASSUME NEW i \in 1 .. l
      PROVE  J[Head(T[e[i].name])].size = e[i].size
  <2>1. PICK n : n = e[i].name
    OBVIOUS
  <2>2. n \in Name
    BY <1>2, <2>1 DEF Entry
  <2>3. T[n] \in Seq(1 .. Len(I)) /\ T[n] # <<>>
    BY <1>2, <2>1, <2>2 DEF GoodTable
  <2>4. Head(T[n]) \in 1 .. Len(I)
    BY <2>3, TailOfQueue
  <2>5. QED
    BY <1>2, <2>1, <2>4
<1>4. Matches(T, J, L, l, q, e)
  BY <1>2, <1>3 DEF Matches
<1>5. QED
  BY <1>1, <1>4 DEF InOrder

(* The cache is a queue of the files e, and the total is what they add up  *)
(* to.                                                                     *)
Queued(T, I, L, s, l, q, e) == InOrder(T, I, L, l, q, e) /\ s = SumUpTo(Sizes(e, l), l)

(* The workers that are about to insert a file insert different ones, none *)
(* of which is cached.                                                     *)
Separate ==
  \A v \in Inserting : /\ table[file[v].name] = <<>>
                       /\ \A u \in Inserting : file[u].name = file[v].name => u = v

(* The inductive invariant, when no two workers read the same file at      *)
(* once.                                                                   *)
DInv == /\ CInv /\ Separate /\ WithinLimit
        /\ \E l \in Nat : \E q, e : Queued(table, item, lru, total, l, q, e)

(* w's cache_insert has evicted the m oldest files and put the new one     *)
(* behind the others.                                                      *)
Replaces(w, m, l, q, e) ==
  /\ OldestUnused(e, m) /\ FreesEnough(e, l, m, file[w].size - Room)
  /\ Queued(table', item', lru', total', l - m + 1, Longer(From(q, m, l), l - m, Len(item) + 1),
            Longer(From(e, m, l), l - m, [name |-> file[w].name, size |-> file[w].size]))
  /\ total' = total - SumUpTo(Sizes(e, l), m) + file[w].size
  /\ item' = Append(item, [name |-> file[w].name, size |-> file[w].size, inuse |-> InsertedInUse])
  /\ held' = [held EXCEPT ![w] = Len(item) + 1]
  /\ pc' = [pc EXCEPT ![w] = "send"]
  /\ file' = file
  /\ \A n \in Name : n # file[w].name /\ table[n] = <<>> => table'[n] = <<>>

(* So it does, for some m, unless it gives up or the file is empty.        *)
LEMMA InsertReplaces ==
  ASSUME CInv, NEW w \in Worker, Insert(w), table[file[w].name] = <<>>,
         ~Refused(file[w].size), ~NoBuffer(w),
         NEW l \in Nat, NEW q, NEW e, Queued(table, item, lru, total, l, q, e)
  PROVE  \E m \in 0 .. l : Replaces(w, m, l, q, e)
<1>1. PICK n, z, c, x, k : /\ n = file[w].name /\ z = file[w].size /\ c = Cleared(z) /\ k = Len(item) + 1
                           /\ x = [name |-> n, size |-> z, inuse |-> InsertedInUse]
  OBVIOUS
<1>2. pc[w] = "insert" /\ file' = file /\ InsertItem(w, c)
  BY <1>1 DEF Insert
<1>3. n \in Name /\ z \in Nat \ {0}
  <2>1. n \in Name /\ z \in FileSizes[n]
    BY <1>1, <1>2 DEF CInv, Typed
  <2>2. QED
    BY <1>1, <2>1, CacheAssumption DEF NoBuffer
<1>4. InOrder(table, item, lru, l, q, e) /\ total = SumUpTo(Sizes(e, l), l)
  BY DEF Queued
<1>5. PICK m \in 0 .. l : OldestUnused(e, m) /\ FreesEnough(e, l, m, z - Room) /\ OldestGone(c, m, l, q, e)
  BY <1>1, <1>3, <1>4, RoomMade
<1>6. x \in Items /\ x.name = n /\ x.size = z
  BY <1>1, <1>3 DEF Items, InsertedInUse
<1>7. PICK V, J, E, y : /\ V = With(c.table, n, k) /\ J = Append(item, x)
                        /\ E = Relinked(c.lru, n) /\ y = [name |-> n, size |-> z]
  OBVIOUS
<1>8. /\ InOrder(V, J, E, l - m + 1, Longer(From(q, m, l), l - m, k), Longer(From(e, m, l), l - m, y))
      /\ ~Faulted(E)
  <2>1. table[n] = <<>> /\ V = With(c.table, n, Len(item) + 1)
    BY <1>1, <1>7
  <2>2. /\ InOrder(V, J, E, l - m + 1, Longer(From(q, m, l), l - m, Len(item) + 1),
                   Longer(From(e, m, l), l - m, [name |-> n, size |-> x.size]))
        /\ ~Faulted(E)
    BY <1>3, <1>4, <1>5, <1>6, <1>7, <2>1, InsertedInOrder
  <2>3. y = [name |-> n, size |-> x.size]
    BY <1>6, <1>7
  <2>4. QED
    BY <1>1, <2>2, <2>3
<1>9. ~Faulted(c.lru)
  <2>1. DList(c.lru, Len(item), l - m, From(q, m, l))
    BY <1>5 DEF OldestGone, InOrder
  <2>2. Len(item) \in Nat
    BY CountsFromStart
  <2>3. Listing(c.lru, Len(item), l - m, From(q, m, l))
    BY <2>1, <2>2, ListFacts
  <2>4. QED
    BY <2>3 DEF Listing, Faulted
<1>10. /\ item' = J /\ table' = V /\ lru' = E
       /\ total' = c.total + z
       /\ held' = [held EXCEPT ![w] = k]
       /\ pc' = [pc EXCEPT ![w] = "send"]
  BY <1>1, <1>2, <1>7, <1>8, <1>9 DEF InsertItem, With
<1>11. c.total = total - SumUpTo(Sizes(e, l), m)
  BY <1>5 DEF OldestGone
<1>12. e \in [1 .. l -> Entry]
  BY <1>4 DEF InOrder, Matches
<1>13. SumUpTo(Sizes(e, l), m) \in Nat /\ SumUpTo(Sizes(e, l), l) \in Nat
  <2>1. m \in 0 .. l /\ l \in 0 .. l
    OBVIOUS
  <2>2. QED
    BY <1>12, <2>1, SizesSum
<1>14. total' = SumUpTo(Sizes(Longer(From(e, m, l), l - m, y), l - m + 1), l - m + 1)
  <2>1. l - m \in Nat /\ From(e, m, l) \in [1 .. l - m -> Entry]
    <3>1. \A a \in 1 .. l - m : a + m \in 1 .. l
      OBVIOUS
    <3>2. l - m \in Nat
      OBVIOUS
    <3>3. QED
      BY <1>12, <3>1, <3>2 DEF From
  <2>2. y \in Entry /\ y.size = z
    BY <1>3, <1>7 DEF Entry
  <2>3. SumUpTo(Sizes(Longer(From(e, m, l), l - m, y), l - m + 1), l - m + 1) =
          SumUpTo(Sizes(From(e, m, l), l - m), l - m) + z
    BY <2>1, <2>2, LongerSum
  <2>4. SumUpTo(Sizes(From(e, m, l), l - m), l - m) = SumUpTo(Sizes(e, l), l) - SumUpTo(Sizes(e, l), m)
    BY <1>12, SuffixSum
  <2>5. QED
    BY <1>4, <1>10, <1>11, <2>3, <2>4
<1>15. Queued(table', item', lru', total', l - m + 1, Longer(From(q, m, l), l - m, k),
              Longer(From(e, m, l), l - m, y))
  BY <1>8, <1>10, <1>14 DEF Queued
<1>16. ASSUME NEW a \in Name, a # n, table[a] = <<>>
       PROVE  table'[a] = <<>>
  <2>1. c.table[a] = <<>>
    BY <1>5, <1>16 DEF OldestGone
  <2>2. c.table \in [Name -> Seq(1 .. Len(item))]
    BY <1>5 DEF OldestGone, Evicting, GoodTable
  <2>3. V[a] = c.table[a]
    BY <1>7, <1>16, <2>2 DEF With
  <2>4. QED
    BY <1>10, <2>1, <2>3
<1>17. total' = total - SumUpTo(Sizes(e, l), m) + z
  BY <1>10, <1>11
<1>18. Replaces(w, m, l, q, e)
  BY <1>1, <1>2, <1>5, <1>7, <1>10, <1>15, <1>16, <1>17 DEF Replaces
<1>19. QED
  BY <1>18

(* A change of a use count changes no name and no size, whatever it is     *)
(* changed to.                                                             *)
LEMMA OnlyUse ==
  ASSUME NEW I \in Seq(Items), NEW k \in 1 .. Len(I), NEW u \in Int, NEW J, J = InUse(I, k, u)
  PROVE  /\ Len(J) = Len(I)
         /\ \A i \in 1 .. Len(I) : J[i].name = I[i].name /\ J[i].size = I[i].size
<1>1. PICK l, S : l = Len(I) /\ S = [name : Name, size : Nat \ {0}, inuse : Int]
  OBVIOUS
<1>2. I \in [1 .. l -> Items] /\ l \in Nat /\ k \in 1 .. l
  BY <1>1, LenProperties
<1>3. \A i \in 1 .. l : I[i] \in S /\ I[i] \in Items
  <2>1. \A i \in 1 .. l : I[i] \in Items
    BY <1>2
  <2>2. Items \subseteq S
    BY <1>1 DEF Items
  <2>3. QED
    BY <2>1, <2>2
<1>4. [I[k] EXCEPT !.inuse = u] \in S
  BY <1>1, <1>2 DEF Items
<1>5. J = [I EXCEPT ![k] = [I[k] EXCEPT !.inuse = u]]
  BY DEF InUse
<1>6. J \in [1 .. l -> S]
  BY <1>2, <1>3, <1>4, <1>5
<1>7. Len(J) = l
  BY <1>2, <1>6
<1>8. \A i \in 1 .. l : J[i] = IF i = k THEN [I[k] EXCEPT !.inuse = u] ELSE I[i]
  BY <1>2, <1>5
<1>9. QED
  BY <1>1, <1>3, <1>7, <1>8 DEF Items

(* A hit changes nothing but a use count, of an item of that name.         *)
LEMMA HitUses ==
  ASSUME CInv, NEW w \in Worker, NEW n \in Name, Hit(w, n)
  PROVE  /\ Head(table[n]) \in 1 .. Len(item) /\ item[Head(table[n])].name = n
         /\ Len(item') = Len(item)
         /\ \A k \in 1 .. Len(item) : item'[k].name = item[k].name /\ item'[k].size = item[k].size
<1>1. PICK k : k = Head(table[n])
  OBVIOUS
<1>2. table[n] # <<>> /\ item' = [item EXCEPT ![k].inuse = @ + 1]
  BY <1>1 DEF Hit
<1>3. k \in 1 .. Len(item) /\ item[k].name = n
  BY <1>1, <1>2, TableItems
<1>4. item \in Seq(Items)
  BY DEF CInv, Typed
<1>5. item[k] \in Items
  BY <1>3, <1>4, LenProperties
<1>6. item[k].inuse + 1 \in Int
  BY <1>5 DEF Items
<1>7. item' = InUse(item, k, item[k].inuse + 1)
  BY <1>2 DEF InUse
<1>8. /\ Len(item') = Len(item)
      /\ \A i \in 1 .. Len(item) : item'[i].name = item[i].name /\ item'[i].size = item[i].size
  BY <1>3, <1>4, <1>6, <1>7, OnlyUse
<1>9. QED
  BY <1>1, <1>3, <1>8

(* Neither does the end of a request.                                      *)
LEMMA FinishReturns ==
  ASSUME CInv, NEW w \in Worker, Finish(w)
  PROVE  /\ Len(item') = Len(item)
         /\ \A k \in 1 .. Len(item) : item'[k].name = item[k].name /\ item'[k].size = item[k].size
<1>1. item \in Seq(Items) /\ Len(item) \in Nat
  BY CountsFromStart
<1>2. PICK k : k = held[w]
  OBVIOUS
<1>3. k \in 0 .. Len(item)
  BY <1>2 DEF CInv, Typed
<1>4. CASE k = 0
  BY <1>1, <1>2, <1>4 DEF Finish
<1>5. CASE k # 0
  <2>1. k \in 1 .. Len(item)
    BY <1>1, <1>3, <1>5
  <2>2. item[k] \in Items
    BY <1>1, <2>1, LenProperties
  <2>3. item[k].inuse - 1 \in Int
    BY <2>2 DEF Items
  <2>4. item' = [item EXCEPT ![k].inuse = @ - 1]
    BY <1>2, <1>5 DEF Finish
  <2>5. item' = InUse(item, k, item[k].inuse - 1)
    BY <2>4 DEF InUse
  <2>6. QED
    BY <1>1, <2>1, <2>3, <2>5, OnlyUse
<1>6. QED
  BY <1>4, <1>5

(* The queue is the same after such a step.                                *)
LEMMA QueueKept ==
  ASSUME CInv, table' = table, lru' = lru, total' = total, Len(item') = Len(item),
         \A k \in 1 .. Len(item) : item'[k].size = item[k].size,
         NEW l \in Nat, NEW q, NEW e, Queued(table, item, lru, total, l, q, e)
  PROVE  Queued(table', item', lru', total', l, q, e)
<1>1. item \in Seq(Items) /\ GoodTable(table, item)
  BY DEF CInv, Typed
<1>2. PICK I, J, T, L, s : I = item /\ J = item' /\ T = table /\ L = lru /\ s = total
  OBVIOUS
<1>3. InOrder(T, J, L, l, q, e)
  BY <1>1, <1>2, SameSizesInOrder DEF Queued
<1>4. Queued(T, J, L, s, l, q, e)
  BY <1>2, <1>3 DEF Queued
<1>5. QED
  BY <1>2, <1>4

(* The empty cache is an empty queue.                                      *)
LEMMA DInvInit ==
  ASSUME Init
  PROVE  DInv /\ Queued(table, item, lru, total, 0, <<>>, <<>>)
<1>1. CInv
  BY CInvInit
<1>2. /\ item = <<>> /\ Len(item) = 0 /\ total = 0 /\ table = [n \in Name |-> <<>>]
      /\ lru = [node |-> <<>>, head |-> 0, tail |-> 0]
      /\ pc = [w \in Worker |-> "idle"]
  BY DEF Init
<1>3. Inserting = {}
  BY <1>2 DEF Inserting
<1>4. <<>> = [i \in 1 .. 0 |-> 0]
  OBVIOUS
<1>5. lru.node = <<>> /\ lru.head = 0 /\ lru.tail = 0
  BY <1>2
<1>6. DList(lru, 0, 0, <<>>)
  <2>0. PICK L : L = lru
    OBVIOUS
  <2>1. Pointers(L, 0)
    <3>1. L = [node |-> <<>>, head |-> 0, tail |-> 0] /\ L.node = <<>> /\ L.head = 0 /\ L.tail = 0
      BY <1>2, <2>0
    <3>2. QED
      BY <3>1 DEF Pointers, Nodes
  <2>2. <<>> \in [1 .. 0 -> 1 .. 0] /\ 0 \in Nat
    BY <1>4
  <2>3. Chain(lru, 0, 0, <<>>)
    BY <1>5, <2>2 DEF Chain
  <2>4. QED
    BY <1>5, <2>0, <2>1, <2>3 DEF DList
<1>7. Matches(table, item, lru, 0, <<>>, <<>>)
  <2>1. <<>> \in [1 .. 0 -> Entry]
    BY <1>4
  <2>2. \A n \in Name : table[n] = <<>>
    BY <1>2
  <2>3. QED
    BY <2>1, <2>2 DEF Matches
<1>8. Queued(table, item, lru, total, 0, <<>>, <<>>)
  BY <1>2, <1>6, <1>7, SumByTurns DEF Queued, InOrder
<1>9. Separate /\ WithinLimit
  BY <1>2, <1>3, CacheAssumption DEF Separate, WithinLimit
<1>10. QED
  BY <1>1, <1>8, <1>9 DEF DInv

(* A worker that does not begin to insert does not disturb those that do.  *)
LEMMA SeparateKept ==
  ASSUME CInv, Separate, NEW w \in Worker, pc'[w] # "insert", table' = table,
         \A v \in Worker : v # w => pc'[v] = pc[v] /\ file'[v] = file[v]
  PROVE  Separate'
<1>1. \A v \in Inserting' : v \in Inserting /\ file'[v] = file[v]
  BY DEF Inserting
<1>2. QED
  BY <1>1 DEF Separate

(* The steps preserve the invariant: a hit,                                *)
LEMMA DInvHit ==
  ASSUME DInv, NEW w \in Worker, NEW n \in Name, Hit(w, n), CInv'
  PROVE  DInv'
<1>1. /\ table' = table /\ total' = total /\ lru' = lru
      /\ pc' = [pc EXCEPT ![w] = "send"]
      /\ file' = [file EXCEPT ![w] = [name |-> n, size |-> item[Head(table[n])].size]]
  BY DEF Hit
<1>2. pc'[w] # "insert" /\ \A v \in Worker : v # w => pc'[v] = pc[v] /\ file'[v] = file[v]
  BY <1>1 DEF DInv, CInv, Typed
<1>3. Separate'
  BY <1>1, <1>2, SeparateKept DEF DInv
<1>4. Len(item') = Len(item) /\ \A k \in 1 .. Len(item) : item'[k].size = item[k].size
  BY HitUses DEF DInv
<1>5a. PICK l \in Nat : \E q, e : Queued(table, item, lru, total, l, q, e)
  BY DEF DInv
<1>5. PICK q, e : Queued(table, item, lru, total, l, q, e)
  BY <1>5a
<1>6. Queued(table', item', lru', total', l, q, e)
  BY <1>1, <1>4, <1>5, QueueKept DEF DInv
<1>7. WithinLimit'
  BY <1>1 DEF DInv, WithinLimit
<1>8. QED
  BY <1>3, <1>6, <1>7 DEF DInv

(* the end of a request,                                                   *)
LEMMA DInvFinish ==
  ASSUME DInv, NEW w \in Worker, Finish(w), CInv'
  PROVE  DInv'
<1>1. /\ table' = table /\ total' = total /\ lru' = lru
      /\ pc' = [pc EXCEPT ![w] = "idle"]
      /\ file' = [file EXCEPT ![w] = NoFile]
  BY DEF Finish
<1>2. pc'[w] # "insert" /\ \A v \in Worker : v # w => pc'[v] = pc[v] /\ file'[v] = file[v]
  BY <1>1 DEF DInv, CInv, Typed
<1>3. Separate'
  BY <1>1, <1>2, SeparateKept DEF DInv
<1>4. Len(item') = Len(item) /\ \A k \in 1 .. Len(item) : item'[k].size = item[k].size
  BY FinishReturns DEF DInv
<1>5a. PICK l \in Nat : \E q, e : Queued(table, item, lru, total, l, q, e)
  BY DEF DInv
<1>5. PICK q, e : Queued(table, item, lru, total, l, q, e)
  BY <1>5a
<1>6. Queued(table', item', lru', total', l, q, e)
  BY <1>1, <1>4, <1>5, QueueKept DEF DInv
<1>7. WithinLimit'
  BY <1>1 DEF DInv, WithinLimit
<1>8. QED
  BY <1>3, <1>6, <1>7 DEF DInv

(* a miss for a file that nobody else reads,                               *)
LEMMA DInvMiss ==
  ASSUME DInv, NEW w \in Worker, NEW n \in Name, Miss(w, n),
         \A v \in Inserting : file[v].name # n, CInv'
  PROVE  DInv'
<1>1. /\ item' = item /\ table' = table /\ total' = total /\ lru' = lru
      /\ pc' = [pc EXCEPT ![w] = "insert"] /\ table[n] = <<>>
  BY DEF Miss, cache
<1>2. PICK s : file' = [file EXCEPT ![w] = [name |-> n, size |-> s]]
  BY DEF Miss
<1>3. /\ file'[w].name = n
      /\ \A v \in Worker : v # w => pc'[v] = pc[v] /\ file'[v] = file[v]
  BY <1>1, <1>2 DEF DInv, CInv, Typed
<1>4. \A v \in Inserting' : v = w \/ (v # w /\ v \in Inserting /\ file'[v] = file[v])
  BY <1>3 DEF Inserting
<1>5. Separate'
  BY <1>1, <1>3, <1>4 DEF DInv, Separate
<1>6. QED
  BY <1>1, <1>5 DEF DInv, WithinLimit

(* a cache_insert that leaves the file out,                                *)
LEMMA DInvLeftOut ==
  ASSUME DInv, NEW w \in Worker, Insert(w), Refused(file[w].size) \/ NoBuffer(w), CInv'
  PROVE  DInv'
<1>1a. PICK s \in {"send", "null"} : pc' = [pc EXCEPT ![w] = s]
  BY LeavesOut
<1>1. item' = item /\ table' = table /\ total' = total /\ lru' = lru /\ file' = file
  BY LeavesOut DEF cache
<1>2. pc'[w] # "insert" /\ \A v \in Worker : v # w => pc'[v] = pc[v] /\ file'[v] = file[v]
  BY <1>1, <1>1a DEF DInv, CInv, Typed
<1>3. Separate'
  BY <1>1, <1>2, SeparateKept DEF DInv
<1>4. QED
  BY <1>1, <1>3 DEF DInv, WithinLimit

(* (the others insert a file that is not cached)                           *)
LEMMA InsertIsNew ==
  ASSUME DInv, NEW w \in Worker, Insert(w)
  PROVE  table[file[w].name] = <<>>
BY DEF DInv, Separate, Insert, Inserting

(* and one that puts the file in: it stays within the limit, and the files *)
(* that the others are about to insert are still not cached.               *)
LEMMA DInvReplaces ==
  ASSUME DInv, NEW w \in Worker, Insert(w), CInv',
         NEW l \in Nat, NEW q, NEW e, Queued(table, item, lru, total, l, q, e),
         NEW m \in 0 .. l, Replaces(w, m, l, q, e)
  PROVE  DInv'
<1>1. /\ FreesEnough(e, l, m, file[w].size - Room)
      /\ total' = total - SumUpTo(Sizes(e, l), m) + file[w].size
      /\ pc' = [pc EXCEPT ![w] = "send"] /\ file' = file
      /\ \A n \in Name : n # file[w].name /\ table[n] = <<>> => table'[n] = <<>>
      /\ \E k \in Nat : \E r, d : Queued(table', item', lru', total', k, r, d)
  <2>1. l - m + 1 \in Nat
    OBVIOUS
  <2>2. QED
    BY <2>1 DEF Replaces
<1>2. pc[w] = "insert" /\ w \in Inserting
  BY DEF Insert, Inserting
<1>3. \A v \in Inserting : file[v].name \in Name
  BY DEF DInv, CInv, Typed, Inserting
<1>4. \A v \in Inserting' : v \in Inserting /\ v # w
  BY <1>1 DEF Inserting, DInv, CInv, Typed
<1>5. Separate'
  BY <1>1, <1>2, <1>3, <1>4 DEF DInv, Separate
<1>6. WithinLimit'
  <2>1. total \in Nat /\ MaxCacheSize \in Nat
    BY CountsFromStart, CacheAssumption DEF DInv
  <2>2. file[w].size \in Nat
    <3>1. file[w].name \in Name /\ file[w].size \in FileSizes[file[w].name]
      BY <1>2 DEF DInv, CInv, Typed
    <3>2. QED
      BY <3>1, CacheAssumption
  <2>3. SumUpTo(Sizes(e, l), m) \in Nat
    <3>1. e \in [1 .. l -> Entry]
      BY DEF Queued, InOrder, Matches
    <3>2. QED
      BY <3>1, SizesSum
  <2>4. SumUpTo(Sizes(e, l), m) >= file[w].size - (MaxCacheSize - total)
    BY <1>1 DEF FreesEnough, Room
  <2>5. total - SumUpTo(Sizes(e, l), m) + file[w].size <= MaxCacheSize
    BY <2>1, <2>2, <2>3, <2>4
  <2>6. QED
    BY <1>1, <2>5 DEF WithinLimit
<1>7. QED
  BY <1>1, <1>5, <1>6 DEF DInv

(* So every step does.                                                     *)
LEMMA DInvStep ==
  ASSUME DInv, [NextDistinct]_vars
  PROVE  DInv'
<1>1. CInv'
  BY CInvStep DEF DInv, NextDistinct, Next
<1>2. ASSUME NEW w \in Worker, NEW n \in Name, Hit(w, n)
      PROVE  DInv'
  BY <1>1, <1>2, DInvHit
<1>3. ASSUME NEW w \in Worker, NEW n \in Name, Miss(w, n), \A v \in Inserting : file[v].name # n
      PROVE  DInv'
  BY <1>1, <1>3, DInvMiss
<1>4. ASSUME NEW w \in Worker, Insert(w)
      PROVE  DInv'
  <2>1a. PICK l \in Nat : \E q, e : Queued(table, item, lru, total, l, q, e)
    BY DEF DInv
  <2>1. PICK q, e : Queued(table, item, lru, total, l, q, e)
    BY <2>1a
  <2>2. CASE Refused(file[w].size) \/ NoBuffer(w)
    BY <1>1, <1>4, <2>2, DInvLeftOut
  <2>3. CASE ~Refused(file[w].size) /\ ~NoBuffer(w)
    <3>1. PICK m \in 0 .. l : Replaces(w, m, l, q, e)
      BY <1>4, <2>1, <2>3, InsertIsNew, InsertReplaces DEF DInv
    <3>2. QED
      BY <1>1, <1>4, <2>1, <3>1, DInvReplaces
  <2>4. QED
    BY <2>2, <2>3
<1>5. ASSUME NEW w \in Worker, Finish(w)
      PROVE  DInv'
  BY <1>1, <1>5, DInvFinish
<1>6. ASSUME UNCHANGED vars
      PROVE  DInv'
  <2>1. /\ item' = item /\ table' = table /\ total' = total /\ lru' = lru /\ pc' = pc /\ file' = file
    BY <1>6 DEF vars
  <2>2. Separate' /\ WithinLimit'
    BY <2>1 DEF DInv, Separate, Inserting, WithinLimit
  <2>3. QED
    BY <1>1, <2>1, <2>2 DEF DInv
<1>7. QED
  BY <1>2, <1>3, <1>4, <1>5, <1>6 DEF NextDistinct, Ended

(* As long as no two workers read one file at once, the cache is at all    *)
(* times the queue of its files in the order they were inserted: list,     *)
(* table and total agree, for any number of workers and files, any sizes   *)
(* and any limit.                                                          *)
THEOREM DistinctInvariance == SpecDistinct => []DInv
<1>1. Init => DInv
  BY DInvInit
<1>2. DInv /\ [NextDistinct]_vars => DInv'
  BY DInvStep
<1>3. QED
  BY <1>1, <1>2, PTL DEF SpecDistinct

-----------------------------------------------------------------------------
(* A copy of NULL is that of an empty file.                                 *)
NullsWereEmpty == \A w \in Worker : CopiedNull(w) => NoBuffer(w)

(* It is so from the beginning,                                             *)
LEMMA NullsInit ==
  ASSUME Init
  PROVE  NullsWereEmpty
BY DEF Init, NullsWereEmpty, CopiedNull

(* and after every step: who goes on with another file has copied nothing. *)
LEMMA NullsStep ==
  ASSUME CInv, NullsWereEmpty, [Next]_vars
  PROVE  NullsWereEmpty'
<1>1. ASSUME NEW w \in Worker, pc' = [pc EXCEPT ![w] = "null"], file' = file, NoBuffer(w)
      PROVE  NullsWereEmpty'
  BY <1>1 DEF CInv, Typed, NullsWereEmpty, CopiedNull, NoBuffer
<1>2. ASSUME NEW w \in Worker, NEW s \in {"idle", "insert", "send"}, pc' = [pc EXCEPT ![w] = s],
             \A v \in Worker : v # w => file'[v] = file[v]
      PROVE  NullsWereEmpty'
  BY <1>2 DEF CInv, Typed, NullsWereEmpty, CopiedNull, NoBuffer
<1>3. ASSUME pc' = pc, file' = file
      PROVE  NullsWereEmpty'
  BY <1>3 DEF NullsWereEmpty, CopiedNull, NoBuffer
<1>4. ASSUME NEW w \in Worker, NEW n \in Name, Hit(w, n) \/ Miss(w, n)
      PROVE  NullsWereEmpty'
  <2>1. \E s \in {"idle", "insert", "send"} : pc' = [pc EXCEPT ![w] = s]
    BY <1>4 DEF Hit, Miss
  <2>2. \A v \in Worker : v # w => file'[v] = file[v]
    BY <1>4 DEF Hit, Miss, CInv, Typed
  <2>3. QED
    BY <1>2, <2>1, <2>2
<1>5. ASSUME NEW w \in Worker, Insert(w)
      PROVE  NullsWereEmpty'
  <2>1. file' = file
    BY <1>5 DEF Insert
  <2>2. \/ pc' = [pc EXCEPT ![w] = "send"] \/ pc' = pc
        \/ pc' = [pc EXCEPT ![w] = "null"] /\ NoBuffer(w)
    BY <1>5 DEF Insert, InsertItem
  <2>3. QED
    BY <1>1, <1>2, <1>3, <2>1, <2>2
<1>6. ASSUME NEW w \in Worker, Finish(w)
      PROVE  NullsWereEmpty'
  <2>1. pc' = [pc EXCEPT ![w] = "idle"] /\ \A v \in Worker : v # w => file'[v] = file[v]
    BY <1>6 DEF Finish, CInv, Typed
  <2>2. QED
    BY <1>2, <2>1
<1>7. ASSUME UNCHANGED vars
      PROVE  NullsWereEmpty'
  BY <1>3, <1>7 DEF vars
<1>8. QED
  BY <1>4, <1>5, <1>6, <1>7 DEF Next, Ended

(* What the workers are promised.                                           *)
(* As long as no two workers read one file at once, whatever the sizes of  *)
(* the files: the server ends only in createItem, at a file that is empty  *)
(* and has no buffer, and never in the list or the table; the eviction     *)
(* list names every cached file once and nothing else; and the cache is    *)
(* never larger than max_cache_size (server_init: "limit its size to       *)
(* max_cache_size").                                                       *)
THEOREM OrderedAndBounded == SpecDistinct => []OrderedAndLimited
<1>1. DInv /\ NullsWereEmpty => OrderedAndLimited
  <2>1. SUFFICES ASSUME DInv, NullsWereEmpty
                 PROVE  OrderedAndLimited
    OBVIOUS
  <2>2a. PICK l \in Nat : \E q, e : Queued(table, item, lru, total, l, q, e)
    BY <2>1 DEF DInv
  <2>2. PICK q, e : Queued(table, item, lru, total, l, q, e)
    BY <2>2a
  <2>3. CInv /\ WithinLimit /\ InOrder(table, item, lru, l, q, e)
    BY <2>1, <2>2 DEF DInv, Queued
  <2>4. ~Faulted(lru) /\ e \in [1 .. l -> Entry] /\ Listed = [a \in 1 .. l |-> e[a].name]
    BY <2>3, ListIsEntries
  <2>5. /\ \A i, j \in 1 .. l : e[i].name = e[j].name => i = j
        /\ \A n \in Name : table[n] # <<>> => \E k : table[n] = <<k>>
        /\ \A n \in Name : table[n] # <<>> => \E i \in 1 .. l : e[i].name = n
        /\ \A i \in 1 .. l : table[e[i].name] # <<>>
    BY <2>3 DEF InOrder, Matches
  <2>6. PICK names : names = Listed
    OBVIOUS
  <2>7. DOMAIN names = 1 .. l /\ \A i \in 1 .. l : names[i] = e[i].name /\ names[i] \in Name
    BY <2>4, <2>6 DEF Entry
  <2>8. IsInjective(names)
    BY <2>5, <2>7 DEF IsInjective
  <2>9. Range(names) = {n \in Name : table[n] # <<>>}
    <3>1. ASSUME NEW n \in Range(names)
          PROVE  n \in {a \in Name : table[a] # <<>>}
      BY <2>5, <2>7, <3>1 DEF Range
    <3>2. ASSUME NEW n \in Name, table[n] # <<>>
          PROVE  n \in Range(names)
      <4>1. PICK i \in 1 .. l : e[i].name = n
        BY <2>5, <3>2
      <4>2. QED
        BY <2>7, <4>1 DEF Range
    <3>3. QED
      BY <3>1, <3>2
  <2>10. ASSUME NEW n \in Name
         PROVE  Len(table[n]) <= 1
    <3>1. CASE table[n] = <<>>
      BY <3>1
    <3>2. CASE table[n] # <<>>
      <4>1. PICK k : table[n] = <<k>>
        BY <2>5, <3>2
      <4>2. Len(<<k>>) = 1
        OBVIOUS
      <4>3. QED
        BY <4>1, <4>2
    <3>3. QED
      BY <3>1, <3>2
  <2>11. ListMatchesTable
    BY <2>6, <2>8, <2>9, <2>10 DEF ListMatchesTable
  <2>12. EndsOnlyOnEmpty
    BY <2>1, <2>4 DEF EndsOnlyOnEmpty, Crashed, NullsWereEmpty
  <2>13. QED
    BY <2>3, <2>11, <2>12 DEF OrderedAndLimited
<1>2. Init => NullsWereEmpty
  BY NullsInit
<1>3. DInv /\ NullsWereEmpty /\ [NextDistinct]_vars => NullsWereEmpty'
  BY NullsStep DEF DInv, NextDistinct, Next
<1>4. QED
  BY <1>1, <1>2, <1>3, DistinctInvariance, PTL DEF SpecDistinct

(* What ImplementsFifo substitutes for the parameters and the variables of *)
(* FifoCache, under names of its own.                                      *)
AllSizes == (UNION {FileSizes[n] : n \in Name}) \ {0}

(* The cached files, oldest first, and who uses them.                      *)
EntriesOf(T, I, L) == [i \in DOMAIN Forward(L) |->
                         LET k == Head(T[L.node[Forward(L)[i]].name])
                         IN [name |-> I[k].name, size |-> I[k].size]]
UsersOf(H, I) == [n \in Name |-> {w \in Worker : H[w] # 0 /\ I[H[w]].name = n}]

Entries == EntriesOf(table, item, lru)
Users == UsersOf(held, item)

Queue == INSTANCE FifoCache WITH
  Size <- AllSizes, Limit <- MaxCacheSize, entries <- Entries, users <- Users

(* The files that the list leads to are those of the queue.                *)
LEMMA MappedEntries ==
  ASSUME NEW I \in Seq(Items), NEW T, GoodTable(T, I), NEW L, NEW s, NEW l \in Nat, NEW q, NEW e,
         Queued(T, I, L, s, l, q, e)
  PROVE  EntriesOf(T, I, L) = e
<1>1. Len(I) \in Nat /\ DList(L, Len(I), l, q) /\ Matches(T, I, L, l, q, e)
  BY LenProperties DEF Queued, InOrder
<1>2. Len(L.node) = Len(I) /\ q \in [1 .. l -> 1 .. Len(I)]
  <2>1. Listing(L, Len(I), l, q)
    BY <1>1, ListFacts
  <2>2. QED
    BY <2>1 DEF Listing
<1>3. Forward(L) = q
  BY <1>1, <1>2, ForwardIsChain DEF DList
<1>4. /\ e \in [1 .. l -> Entry]
      /\ \A i \in 1 .. l : L.node[q[i]].name = e[i].name
      /\ \A i \in 1 .. l : T[e[i].name] # <<>> /\ I[Head(T[e[i].name])].size = e[i].size
  BY <1>1 DEF Matches
<1>5. ASSUME NEW i \in 1 .. l
      PROVE  [name |-> I[Head(T[L.node[q[i]].name])].name, size |-> I[Head(T[L.node[q[i]].name])].size] = e[i]
  <2>1. PICK n, k : n = e[i].name /\ k = Head(T[n])
    OBVIOUS
  <2>2. e[i] \in Entry
    BY <1>4
  <2>3. n \in Name /\ e[i] = [name |-> n, size |-> e[i].size]
    BY <2>1, <2>2 DEF Entry
  <2>4. T[n] \in Seq(1 .. Len(I)) /\ T[n] # <<>> /\ \A j \in Range(T[n]) : I[j].name = n
    BY <1>4, <2>1, <2>3 DEF GoodTable
  <2>5. k \in Range(T[n])
    BY <2>1, <2>4, TailOfQueue
  <2>6. I[k].name = n /\ I[k].size = e[i].size
    BY <1>4, <2>1, <2>4, <2>5
  <2>7. QED
    BY <1>4, <2>1, <2>3, <2>6
<1>6. EntriesOf(T, I, L) = [i \in 1 .. l |-> [name |-> I[Head(T[L.node[q[i]].name])].name,
                                               size |-> I[Head(T[L.node[q[i]].name])].size]]
  BY <1>2, <1>3 DEF EntriesOf
<1>7. EntriesOf(T, I, L) = [i \in 1 .. l |-> e[i]]
  BY <1>5, <1>6
<1>8. QED
  BY <1>4, <1>7

(* How FifoCache cuts and measures such a queue.                           *)
LEMMA EntriesAsSeq ==
  ASSUME NEW l \in Nat, NEW e \in [1 .. l -> Entry]
  PROVE  /\ e \in Seq(Entry) /\ Len(e) = l /\ DOMAIN e = 1 .. l
         /\ \A m \in 0 .. l : SubSeq(e, m + 1, l) = From(e, m, l)
         /\ \A m \in 0 .. l : Queue!Bytes(SubSeq(e, m + 1, l)) =
              SumUpTo(Sizes(e, l), l) - SumUpTo(Sizes(e, l), m)
         /\ \A m \in 0 .. l : \A y \in Entry :
              Append(SubSeq(e, m + 1, l), y) = Longer(From(e, m, l), l - m, y)
<1>1. e \in Seq(Entry) /\ Len(e) = l /\ DOMAIN e = 1 .. l
  OBVIOUS
<1>2. ASSUME NEW m \in 0 .. l
      PROVE  SubSeq(e, m + 1, l) = From(e, m, l)
  <2>1. PICK d, p, a : d = SubSeq(e, m + 1, l) /\ p = l - m /\ a = m + 1
    OBVIOUS
  <2>2. p \in Nat /\ a \in 1 .. Len(e) + 1 /\ l - a + 1 = p /\ l \in a - 1 .. Len(e)
    BY <1>1, <2>1
  <2>3. d = [i \in 1 .. p |-> e[a + i - 1]]
    BY <2>1, <2>2
  <2>4. \A i \in 1 .. p : a + i - 1 = i + m
    BY <2>1
  <2>5. d = [i \in 1 .. p |-> e[i + m]]
    BY <2>3, <2>4
  <2>6. QED
    BY <2>1, <2>5 DEF From
<1>3. ASSUME NEW m \in 0 .. l
      PROVE  /\ Queue!Bytes(SubSeq(e, m + 1, l)) = SumUpTo(Sizes(e, l), l) - SumUpTo(Sizes(e, l), m)
             /\ \A y \in Entry : Append(SubSeq(e, m + 1, l), y) = Longer(From(e, m, l), l - m, y)
  <2>1. PICK d, p : d = From(e, m, l) /\ p = l - m
    OBVIOUS
  <2>2. p \in Nat /\ \A i \in 1 .. p : i + m \in 1 .. l
    BY <2>1
  <2>3. d \in [1 .. p -> Entry]
    BY <2>1, <2>2 DEF From
  <2>4. Len(d) = p /\ DOMAIN d = 1 .. p /\ d \in Seq(Entry)
    BY <2>2, <2>3
  <2>5. Queue!Bytes(d) = SumUpTo(Sizes(d, p), p)
    <3>1. Queue!Bytes(d) = Queue!SumUpTo(Sizes(d, p), p)
      BY <2>4 DEF Queue!Bytes, Sizes
    <3>2. Queue!SumUpTo(Sizes(d, p), p) = SumUpTo(Sizes(d, p), p)
      BY DEF Queue!SumUpTo, SumUpTo
    <3>3. QED
      BY <3>1, <3>2
  <2>6. SumUpTo(Sizes(d, p), p) = SumUpTo(Sizes(e, l), l) - SumUpTo(Sizes(e, l), m)
    BY <2>1, SuffixSum
  <2>7. ASSUME NEW y \in Entry
        PROVE  Append(d, y) = Longer(d, p, y)
    <3>1. PICK b : b = Append(d, y)
      OBVIOUS
    <3>2. /\ b \in Seq(Entry) /\ Len(b) = p + 1 /\ b[p + 1] = y
          /\ \A i \in 1 .. p : b[i] = d[i]
      BY <2>2, <2>4, <3>1, AppendProperties
    <3>3. DOMAIN b = 1 .. p + 1 /\ b = [i \in DOMAIN b |-> b[i]]
      BY <3>2, LenProperties
    <3>4. \A i \in 1 .. p + 1 : i = p + 1 \/ i \in 1 .. p
      BY <2>2
    <3>5. \A i \in 1 .. p + 1 : b[i] = IF i = p + 1 THEN y ELSE d[i]
      BY <3>2, <3>4
    <3>6. b = [i \in 1 .. p + 1 |-> IF i = p + 1 THEN y ELSE d[i]]
      BY <3>3, <3>5
    <3>7. QED
      BY <3>1, <3>6 DEF Longer
  <2>8. QED
    BY <1>2, <2>1, <2>5, <2>6, <2>7
<1>4. QED
  BY <1>1, <1>2, <1>3

(* An item that a worker uses is one of the table, and counted as used.    *)
LEMMA HolderItems ==
  ASSUME CInv, NEW v \in Worker, held[v] # 0
  PROVE  /\ held[v] \in 1 .. Len(item) /\ item[held[v]].name \in Name
         /\ held[v] \in Range(table[item[held[v]].name])
         /\ ~Unused(held[v])
<1>1. item \in Seq(Items) /\ Len(item) \in Nat /\ held[v] \in 0 .. Len(item)
  BY CountsFromStart DEF CInv, Typed
<1>2. held[v] \in 1 .. Len(item)
  BY <1>1
<1>3. held[v] \in InTable
  BY DEF CInv, HeldStaysCached
<1>4. PICK n \in Name : held[v] \in Range(table[n])
  BY <1>3 DEF InTable
<1>5. item[held[v]].name = n
  BY <1>4 DEF CInv, GoodTable
<1>6. ~Unused(held[v])
  <2>1. PICK A : A = {u \in Worker : held[u] = held[v]}
    OBVIOUS
  <2>2. A \subseteq Worker /\ A # {}
    BY <2>1
  <2>3. IsFiniteSet(A) /\ Cardinality(A) # 0
    BY <2>2, HoldersFinite, FS_EmptySet
  <2>4. item[held[v]].inuse = Cardinality(A)
    BY <1>1, <1>2, <2>1, LenProperties DEF CInv, InUseCounts
  <2>5. QED
    BY <2>3, <2>4 DEF Unused
<1>7. QED
  BY <1>2, <1>4, <1>5, <1>6

(* So nobody uses a file that is not cached, or whose use count is 0.      *)
LEMMA NobodyUsesUnused ==
  ASSUME CInv, NEW n \in Name, table[n] = <<>> \/ \E k : table[n] = <<k>> /\ Unused(k)
  PROVE  Users[n] = {}
<1>1. SUFFICES ASSUME NEW v \in Worker, held[v] # 0, item[held[v]].name = n
               PROVE  FALSE
  BY DEF Users, UsersOf
<1>2. held[v] \in Range(table[n]) /\ ~Unused(held[v])
  BY <1>1, HolderItems
<1>3. table[n] # <<>>
  BY <1>2, EmptyQueue
<1>4. PICK k : table[n] = <<k>> /\ Unused(k)
  BY <1>3
<1>5. Range(<<k>>) = {k}
  BY DEF Range
<1>6. QED
  BY <1>2, <1>4, <1>5

(* A worker that does not send a file uses none.                           *)
LEMMA IdleNotBusy ==
  ASSUME CInv, NEW w \in Worker, pc[w] # "send"
  PROVE  held[w] = 0 /\ ~Queue!Busy(w)
<1>1. held[w] = 0
  BY DEF CInv, OnlySendersHold
<1>2. QED
  BY <1>1 DEF Queue!Busy, Users, UsersOf

(* A hit is a use of the file.                                             *)
LEMMA HitMaps ==
  ASSUME DInv, NEW w \in Worker, NEW n \in Name, Hit(w, n), Entries' = Entries,
         NEW l \in Nat, NEW q, NEW e, Queued(table, item, lru, total, l, q, e), Entries = e
  PROVE  Queue!Use(w, n)
<1>1. PICK k : k = Head(table[n])
  OBVIOUS
<1>2. pc[w] = "idle" /\ table[n] # <<>> /\ held' = [held EXCEPT ![w] = k]
  BY <1>1 DEF Hit
<1>3. /\ k \in 1 .. Len(item) /\ item[k].name = n /\ k # 0
      /\ \A i \in 1 .. Len(item) : item'[i].name = item[i].name
  <2>1. Len(item) \in Nat
    BY CountsFromStart DEF DInv
  <2>2. QED
    BY <1>1, <2>1, HitUses DEF DInv
<1>4. n \in Queue!Cached
  <2>1. PICK i \in 1 .. l : e[i].name = n
    BY <1>2 DEF Queued, InOrder, Matches
  <2>2. e \in [1 .. l -> Entry]
    BY DEF Queued, InOrder, Matches
  <2>3. QED
    BY <2>1, <2>2 DEF Queue!Cached
<1>5. held[w] = 0 /\ ~Queue!Busy(w)
  BY <1>2, IdleNotBusy DEF DInv
<1>6. \A v \in Worker : held'[v] = IF v = w THEN k ELSE held[v]
  BY <1>2 DEF DInv, CInv, Typed
<1>7. \A v \in Worker : held[v] # 0 => item'[held[v]].name = item[held[v]].name
  BY <1>3, HolderItems DEF DInv
<1>8. \A a \in Name : Users'[a] = IF a = n THEN Users[n] \cup {w} ELSE Users[a]
  <2>1. ASSUME NEW a \in Name, NEW v \in Worker
        PROVE  v \in Users'[a] <=> v \in Users[a] \/ (a = n /\ v = w)
    <3>1. CASE v = w
      BY <1>3, <1>5, <1>6, <3>1 DEF Users, UsersOf
    <3>2. CASE v # w
      BY <1>6, <1>7, <3>2 DEF Users, UsersOf
    <3>3. QED
      BY <3>1, <3>2
  <2>2. \A a \in Name : Users'[a] \subseteq Worker /\ Users[a] \subseteq Worker
    BY DEF Users, UsersOf
  <2>3. QED
    BY <2>1, <2>2
<1>9. Users' = [Users EXCEPT ![n] = @ \cup {w}]
  <2>1. Users' = [a \in Name |-> Users'[a]] /\ Users = [a \in Name |-> Users[a]]
    BY DEF Users, UsersOf
  <2>2. QED
    BY <1>8, <2>1
<1>10. QED
  BY <1>4, <1>5, <1>9 DEF Queue!Use

(* The end of a request is the end of a use.                               *)
LEMMA FinishMaps ==
  ASSUME DInv, NEW w \in Worker, Finish(w), Entries' = Entries
  PROVE  Queue!Done(w)
<1>1. held' = [held EXCEPT ![w] = 0]
  BY DEF Finish
<1>2. \A i \in 1 .. Len(item) : item'[i].name = item[i].name
  BY FinishReturns DEF DInv
<1>3. \A v \in Worker : held'[v] = IF v = w THEN 0 ELSE held[v]
  BY <1>1 DEF DInv, CInv, Typed
<1>4. \A v \in Worker : held[v] # 0 => item'[held[v]].name = item[held[v]].name
  BY <1>2, HolderItems DEF DInv
<1>5. ASSUME NEW a \in Name
      PROVE  Users'[a] = Users[a] \ {w}
  <2>1. ASSUME NEW v \in Worker
        PROVE  v \in Users'[a] <=> v \in Users[a] /\ v # w
    BY <1>3, <1>4 DEF Users, UsersOf
  <2>2. Users'[a] \subseteq Worker /\ Users[a] \subseteq Worker
    BY DEF Users, UsersOf
  <2>3. QED
    BY <2>1, <2>2
<1>6. Users' = [a \in Name |-> Users[a] \ {w}]
  <2>1. Users' = [a \in Name |-> Users'[a]]
    BY DEF Users, UsersOf
  <2>2. QED
    BY <1>5, <2>1
<1>7. QED
  BY <1>6 DEF Queue!Done

(* cache_insert adds the file, and what it evicts for it are the oldest    *)
(* files, as few as will do and none in use.                               *)
LEMMA InsertMaps ==
  ASSUME DInv, NEW w \in Worker, Insert(w), ~NoBuffer(w),
         NEW l \in Nat, NEW q, NEW e, Queued(table, item, lru, total, l, q, e), Entries = e,
         NEW m \in 0 .. l, Replaces(w, m, l, q, e),
         Entries' = Longer(From(e, m, l), l - m, [name |-> file[w].name, size |-> file[w].size])
  PROVE  \E n \in Name : \E size \in AllSizes : Queue!Add(w, n, size)
<1>1. PICK n, size, k : n = file[w].name /\ size = file[w].size /\ k = Len(item) + 1
  OBVIOUS
<1>2. n \in Name /\ size \in AllSizes /\ size \in Nat
  <2>1. n \in Name /\ size \in FileSizes[n]
    BY <1>1 DEF Insert, DInv, CInv, Typed
  <2>2. QED
    BY <1>1, <2>1, CacheAssumption DEF AllSizes, NoBuffer
<1>3. /\ e \in [1 .. l -> Entry]
      /\ \A i \in 1 .. l : table[e[i].name] # <<>>
      /\ \A a \in Name : table[a] # <<>> => \E j : table[a] = <<j>>
      /\ total = SumUpTo(Sizes(e, l), l)
  BY DEF Queued, InOrder, Matches
<1>4. /\ OldestUnused(e, m) /\ FreesEnough(e, l, m, size - Room)
      /\ item' = Append(item, [name |-> n, size |-> size, inuse |-> InsertedInUse])
      /\ held' = [held EXCEPT ![w] = k]
  BY <1>1 DEF Replaces
<1>5. table[n] = <<>>
  BY <1>1, InsertIsNew
<1>6. n \notin Queue!Cached
  BY <1>3, <1>5 DEF Queue!Cached
<1>7. held[w] = 0 /\ ~Queue!Busy(w)
  BY IdleNotBusy DEF DInv, Insert
<1>8. \A j \in 0 .. l : Queue!MakesRoom(j, size) <=> total - SumUpTo(Sizes(e, l), j) + size <= MaxCacheSize
  <2>1. Len(e) = l /\ \A j \in 0 .. l : Queue!Bytes(SubSeq(e, j + 1, l)) = total - SumUpTo(Sizes(e, l), j)
    BY <1>3, EntriesAsSeq
  <2>2. QED
    BY <2>1 DEF Queue!MakesRoom
<1>9. total \in Nat /\ MaxCacheSize \in Nat /\ \A j \in 0 .. l : SumUpTo(Sizes(e, l), j) \in Nat
  BY <1>3, CountsFromStart, CacheAssumption, SizesSum DEF DInv
<1>10. Queue!MakesRoom(m, size)
  <2>1. SumUpTo(Sizes(e, l), m) >= size - (MaxCacheSize - total)
    BY <1>4 DEF FreesEnough, Room
  <2>2. SumUpTo(Sizes(e, l), m) \in Nat
    BY <1>9
  <2>3. total - SumUpTo(Sizes(e, l), m) + size <= MaxCacheSize
    BY <1>2, <1>9, <2>1, <2>2
  <2>4. QED
    BY <1>8, <2>3
<1>11. ASSUME NEW j \in 0 .. m - 1
       PROVE  ~Queue!MakesRoom(j, size)
  <2>1. SumUpTo(Sizes(e, l), j) < size - (MaxCacheSize - total)
    BY <1>4 DEF FreesEnough, Room
  <2>2. j \in 0 .. l /\ SumUpTo(Sizes(e, l), j) \in Nat
    BY <1>9
  <2>3. ~(total - SumUpTo(Sizes(e, l), j) + size <= MaxCacheSize)
    BY <1>2, <1>9, <2>1, <2>2
  <2>4. QED
    BY <1>8, <2>2, <2>3
<1>12. ASSUME NEW i \in 1 .. m
       PROVE  Users[e[i].name] = {}
  <2>1. i \in 1 .. l
    OBVIOUS
  <2>2. PICK a : a = e[i].name
    OBVIOUS
  <2>3. a \in Name /\ table[a] # <<>> /\ Unused(Head(table[a]))
    BY <1>3, <1>4, <2>1, <2>2 DEF Entry, OldestUnused
  <2>4. PICK j : table[a] = <<j>>
    BY <1>3, <2>3
  <2>5. Head(<<j>>) = j
    OBVIOUS
  <2>6. Users[a] = {}
    BY <2>3, <2>4, <2>5, NobodyUsesUnused DEF DInv
  <2>7. QED
    BY <2>2, <2>6
<1>13. Entries' = Append(SubSeq(e, m + 1, Len(e)), [name |-> n, size |-> size])
  <2>1. [name |-> n, size |-> size] \in Entry
    BY <1>2 DEF Entry
  <2>2. QED
    BY <1>1, <1>3, <2>1, EntriesAsSeq
<1>14. Users' = [Users EXCEPT ![n] = {w}]
  <2>1. Users[n] = {}
    BY <1>2, <1>5, NobodyUsesUnused DEF DInv
  <2>2. \A v \in Worker : held'[v] = IF v = w THEN k ELSE held[v]
    BY <1>4 DEF DInv, CInv, Typed
  <2>3. /\ item'[k].name = n /\ k # 0
        /\ \A i \in 1 .. Len(item) : item'[i] = item[i]
    <3>1. item \in Seq(Items) /\ Len(item) \in Nat
      BY CountsFromStart DEF DInv
    <3>2. PICK x : x = [name |-> n, size |-> size, inuse |-> InsertedInUse]
      OBVIOUS
    <3>3. item' = Append(item, x) /\ x.name = n
      BY <1>4, <3>2
    <3>4. item'[k] = x /\ \A i \in 1 .. Len(item) : item'[i] = item[i]
      BY <1>1, <3>1, <3>3, AppendProperties
    <3>5. QED
      BY <1>1, <3>1, <3>3, <3>4
  <2>4. \A v \in Worker : held[v] # 0 => item'[held[v]] = item[held[v]]
    BY <2>3, HolderItems DEF DInv
  <2>5. ASSUME NEW a \in Name, NEW v \in Worker
        PROVE  v \in Users'[a] <=> v \in Users[a] \/ (a = n /\ v = w)
    <3>1. CASE v = w
      BY <1>7, <2>2, <2>3, <3>1 DEF Users, UsersOf
    <3>2. CASE v # w
      BY <2>2, <2>4, <3>2 DEF Users, UsersOf
    <3>3. QED
      BY <3>1, <3>2
  <2>6. \A a \in Name : Users'[a] \subseteq Worker /\ Users[a] \subseteq Worker
    BY DEF Users, UsersOf
  <2>7. \A a \in Name : Users'[a] = IF a = n THEN {w} ELSE Users[a]
    BY <2>1, <2>5, <2>6
  <2>8. Users' = [a \in Name |-> Users'[a]] /\ Users = [a \in Name |-> Users[a]]
    BY DEF Users, UsersOf
  <2>9. QED
    BY <2>7, <2>8
<1>15. m \in 0 .. Len(e)
  BY <1>3, EntriesAsSeq
<1>16. Queue!Add(w, n, size)
  BY <1>6, <1>7, <1>10, <1>11, <1>12, <1>13, <1>14, <1>15 DEF Queue!Add
<1>17. QED
  BY <1>2, <1>16

(* Steps that keep the queue keep the entries.                             *)
LEMMA SameEntries ==
  ASSUME DInv, CInv', table' = table, lru' = lru, total' = total, Len(item') = Len(item),
         \A k \in 1 .. Len(item) : item'[k].size = item[k].size,
         NEW l \in Nat, NEW q, NEW e, Queued(table, item, lru, total, l, q, e)
  PROVE  Entries = e /\ Entries' = e
<1>1. PICK I, T, L, s : I = item /\ T = table /\ L = lru /\ s = total
  OBVIOUS
<1>2. PICK J, V, E, t : J = item' /\ V = table' /\ E = lru' /\ t = total'
  OBVIOUS
<1>3. I \in Seq(Items) /\ GoodTable(T, I) /\ Queued(T, I, L, s, l, q, e)
  BY <1>1 DEF DInv, CInv, Typed
<1>4. EntriesOf(T, I, L) = e
  BY <1>3, MappedEntries
<1>5. J \in Seq(Items) /\ GoodTable(V, J)
  BY <1>2 DEF CInv, Typed
<1>6. Queued(V, J, E, t, l, q, e)
  BY <1>2, QueueKept DEF DInv
<1>7. EntriesOf(V, J, E) = e
  BY <1>5, <1>6, MappedEntries
<1>8. QED
  BY <1>1, <1>2, <1>4, <1>7 DEF Entries

(* cache_insert changes them as it changes the queue.                      *)
LEMMA NewEntries ==
  ASSUME DInv, CInv', NEW w \in Worker, NEW l \in Nat, NEW q, NEW e,
         Queued(table, item, lru, total, l, q, e), NEW m \in 0 .. l, Replaces(w, m, l, q, e)
  PROVE  /\ Entries = e
         /\ Entries' = Longer(From(e, m, l), l - m, [name |-> file[w].name, size |-> file[w].size])
<1>1. PICK I, T, L, s : I = item /\ T = table /\ L = lru /\ s = total
  OBVIOUS
<1>2. PICK J, V, E, t, k, r, d : /\ J = item' /\ V = table' /\ E = lru' /\ t = total' /\ k = l - m + 1
                                 /\ r = Longer(From(q, m, l), l - m, Len(item) + 1)
                                 /\ d = Longer(From(e, m, l), l - m, [name |-> file[w].name, size |-> file[w].size])
  OBVIOUS
<1>3. I \in Seq(Items) /\ GoodTable(T, I) /\ Queued(T, I, L, s, l, q, e)
  BY <1>1 DEF DInv, CInv, Typed
<1>4. EntriesOf(T, I, L) = e
  BY <1>3, MappedEntries
<1>5. J \in Seq(Items) /\ GoodTable(V, J) /\ k \in Nat
  <2>1. l - m + 1 \in Nat
    OBVIOUS
  <2>2. J \in Seq(Items) /\ GoodTable(V, J)
    BY <1>2 DEF CInv, Typed
  <2>3. QED
    BY <1>2, <2>1, <2>2
<1>6. Queued(V, J, E, t, k, r, d)
  BY <1>2 DEF Replaces
<1>7. EntriesOf(V, J, E) = d
  BY <1>5, <1>6, MappedEntries
<1>8. QED
  BY <1>1, <1>2, <1>4, <1>7 DEF Entries

(* Every step is one of FifoCache, or none: a miss, a file that is left    *)
(* out, or the end of the process at an empty file, is not seen there.     *)
LEMMA FifoStep ==
  ASSUME DInv, [NextDistinct]_vars
  PROVE  [Queue!Next]_<<Entries, Users>>
<1>1. CInv'
  BY DInvStep DEF DInv
<1>2a. PICK l \in Nat : \E q, e : Queued(table, item, lru, total, l, q, e)
  BY DEF DInv
<1>2. PICK q, e : Queued(table, item, lru, total, l, q, e)
  BY <1>2a
<1>3. ASSUME NEW w \in Worker, NEW n \in Name, Hit(w, n)
      PROVE  Queue!Next
  <2>1. table' = table /\ lru' = lru /\ total' = total
    BY <1>3 DEF Hit
  <2>2. Len(item') = Len(item) /\ \A k \in 1 .. Len(item) : item'[k].size = item[k].size
    BY <1>3, HitUses DEF DInv
  <2>3. Entries = e /\ Entries' = e
    BY <1>1, <1>2, <2>1, <2>2, SameEntries
  <2>4. Queue!Use(w, n)
    BY <1>2, <1>3, <2>3, HitMaps
  <2>5. QED
    BY <2>4 DEF Queue!Next
<1>4. ASSUME NEW w \in Worker, NEW n \in Name, Miss(w, n)
      PROVE  UNCHANGED <<Entries, Users>>
  BY <1>4 DEF Miss, cache, Entries, Users
<1>5. ASSUME NEW w \in Worker, Insert(w)
      PROVE  [Queue!Next]_<<Entries, Users>>
  <2>1. CASE Refused(file[w].size) \/ NoBuffer(w)
    <3>1. UNCHANGED <<cache, held>>
      BY <1>5, <2>1, LeavesOut
    <3>2. QED
      BY <3>1 DEF cache, Entries, Users
  <2>2. CASE ~Refused(file[w].size) /\ ~NoBuffer(w)
    <3>1. PICK m \in 0 .. l : Replaces(w, m, l, q, e)
      BY <1>2, <1>5, <2>2, InsertIsNew, InsertReplaces DEF DInv
    <3>2. /\ Entries = e
          /\ Entries' = Longer(From(e, m, l), l - m, [name |-> file[w].name, size |-> file[w].size])
      BY <1>1, <1>2, <3>1, NewEntries
    <3>3. \E n \in Name : \E size \in AllSizes : Queue!Add(w, n, size)
      BY <1>2, <1>5, <2>2, <3>1, <3>2, InsertMaps
    <3>4. QED
      BY <3>3 DEF Queue!Next
  <2>3. QED
    BY <2>1, <2>2
<1>6. ASSUME NEW w \in Worker, Finish(w)
      PROVE  Queue!Next
  <2>1. table' = table /\ lru' = lru /\ total' = total
    BY <1>6 DEF Finish
  <2>2. Len(item') = Len(item) /\ \A k \in 1 .. Len(item) : item'[k].size = item[k].size
    BY <1>6, FinishReturns DEF DInv
  <2>3. Entries' = Entries
    BY <1>1, <1>2, <2>1, <2>2, SameEntries
  <2>4. Queue!Done(w)
    BY <1>6, <2>3, FinishMaps
  <2>5. QED
    BY <2>4 DEF Queue!Next
<1>7. ASSUME UNCHANGED vars
      PROVE  UNCHANGED <<Entries, Users>>
  BY <1>7 DEF vars, Entries, Users
<1>8. QED
  BY <1>3, <1>4, <1>5, <1>6, <1>7 DEF NextDistinct, Ended

(* Both begin empty.                                                       *)
LEMMA FifoInit ==
  ASSUME Init
  PROVE  Queue!Init
<1>1. DInv /\ Queued(table, item, lru, total, 0, <<>>, <<>>)
  BY DInvInit
<1>2. PICK I, T, L, s : I = item /\ T = table /\ L = lru /\ s = total
  OBVIOUS
<1>3. I \in Seq(Items) /\ GoodTable(T, I) /\ Queued(T, I, L, s, 0, <<>>, <<>>)
  BY <1>1, <1>2 DEF DInv, CInv, Typed
<1>4. EntriesOf(T, I, L) = <<>>
  BY <1>3, MappedEntries
<1>5. Users = [n \in Name |-> {}]
  BY DEF Init, Users, UsersOf
<1>6. QED
  BY <1>2, <1>4, <1>5 DEF Queue!Init, Entries

(* As long as no two workers read one file at once, what cache_lookup,     *)
(* cache_insert and cache_evict do with the table, the list and the        *)
(* counters is what a bounded first-in first-out cache does.               *)
THEOREM FifoImplemented == SpecDistinct => ImplementsFifo
<1>1. Init => Queue!Init
  BY FifoInit
<1>2. DInv /\ [NextDistinct]_vars => [Queue!Next]_<<Entries, Users>>
  BY FifoStep
<1>3. SpecDistinct => Queue!Spec
  BY <1>1, <1>2, DistinctInvariance, PTL DEF SpecDistinct, Queue!Spec
<1>4. Queue!Init <=> Fifo!Init
  BY DEF Queue!Init, Fifo!Init, Entries, Users, EntriesOf, UsersOf
<1>5. [Queue!Next]_<<Entries, Users>> <=>
        [Fifo!Next]_<<[i \in DOMAIN Forward(lru) |->
                         LET k == Head(table[lru.node[Forward(lru)[i]].name])
                         IN [name |-> item[k].name, size |-> item[k].size]],
                      [n \in Name |-> {w \in Worker : held[w] # 0 /\ item[held[w]].name = n}]>>
  BY DEF Queue!Next, Fifo!Next, Queue!Use, Fifo!Use, Queue!Add, Fifo!Add, Queue!Done, Fifo!Done,
         Queue!Busy, Fifo!Busy, Queue!Cached, Fifo!Cached, Queue!MakesRoom, Fifo!MakesRoom,
         Queue!Bytes, Fifo!Bytes, Queue!SumUpTo, Fifo!SumUpTo,
         AllSizes, Entries, Users, EntriesOf, UsersOf
<1>6. QED
  BY <1>3, <1>4, <1>5, PTL DEF Queue!Spec, ImplementsFifo, Fifo!Spec
=============================================================================
