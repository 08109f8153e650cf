---------------------------- MODULE QueueLemmas ----------------------------
(***************************************************************************)
(* What the queue operations of the models keep: the elements of a queue   *)
(* and the fact that nothing is in it twice.                               *)
(***************************************************************************)
EXTENDS Integers, Sequences, SequencesExt, Sums, SequenceTheorems, WellFoundedInduction, TLAPS

(* The elements of a queue of S are elements of S.                          *)
LEMMA RangeOfQueue ==
  ASSUME NEW S, NEW q \in Seq(S)
  PROVE  /\ Range(q) \subseteq S
         /\ q = <<>> => Range(q) = {}
         /\ q # <<>> => Head(q) \in Range(q)
         /\ q # <<>> <=> Len(q) > 0
<1>1. DOMAIN q = 1 .. Len(q) /\ q \in [1 .. Len(q) -> S] /\ Len(q) \in Nat
  BY LenProperties
<1>2. q # <<>> => Len(q) > 0 /\ Head(q) = q[1]
  BY <1>1
<1>3. QED
  BY <1>1, <1>2 DEF Range

(* The empty queue.                                                         *)
LEMMA EmptyQueue == Range(<<>>) = {} /\ IsInjective(<<>>)
BY DEF Range, IsInjective

(* Enqueuing adds one element, and keeps a queue without duplicates so when *)
(* the element is new.                                                      *)
LEMMA AppendQueue ==
  ASSUME NEW S, NEW q \in Seq(S), NEW x \in S
  PROVE  /\ Append(q, x) \in Seq(S)
         /\ Append(q, x) # <<>>
         /\ Range(Append(q, x)) = Range(q) \cup {x}
         /\ IsInjective(q) /\ x \notin Range(q) => IsInjective(Append(q, x))
<1> DEFINE a == Append(q, x)
<1>1. DOMAIN q = 1 .. Len(q) /\ Len(q) \in Nat
  BY LenProperties
<1>2. /\ a \in Seq(S) /\ Len(a) = Len(q) + 1
      /\ \A i \in 1 .. Len(q) : a[i] = q[i]
      /\ a[Len(q) + 1] = x
  BY <1>1
<1>3. DOMAIN a = 1 .. Len(q) + 1
  BY <1>2, LenProperties
<1>4. Range(a) = Range(q) \cup {x}
  BY <1>1, <1>2, <1>3 DEF Range
<1>5. ASSUME IsInjective(q), x \notin Range(q)
      PROVE  IsInjective(a)
  BY <1>1, <1>2, <1>3, <1>5 DEF IsInjective, Range
<1>6. a # <<>>
  <2>1. Len(a) # 0
    BY <1>1, <1>2
  <2>2. QED
    BY <2>1, EmptySeq
<1>7. QED
  BY <1>2, <1>4, <1>5, <1>6

(* Concatenating two queues that share nothing.                             *)
LEMMA ConcatQueue ==
  ASSUME NEW S, NEW q \in Seq(S), NEW r \in Seq(S)
  PROVE  /\ q \o r \in Seq(S)
         /\ Range(q \o r) = Range(q) \cup Range(r)
         /\ IsInjective(q) /\ IsInjective(r) /\ Range(q) \cap Range(r) = {}
              => IsInjective(q \o r)
<1> DEFINE c == q \o r
<1>1. /\ DOMAIN q = 1 .. Len(q) /\ Len(q) \in Nat
      /\ DOMAIN r = 1 .. Len(r) /\ Len(r) \in Nat
  BY LenProperties
<1>2. /\ c \in Seq(S) /\ Len(c) = Len(q) + Len(r)
      /\ \A i \in 1 .. Len(q) + Len(r) :
           c[i] = IF i <= Len(q) THEN q[i] ELSE r[i - Len(q)]
  BY ConcatProperties
<1>3. DOMAIN c = 1 .. Len(q) + Len(r)
  BY <1>2, LenProperties
<1>4. Range(c) = Range(q) \cup Range(r)
  <2>1. ASSUME NEW i \in DOMAIN c PROVE c[i] \in Range(q) \cup Range(r)
    BY <1>1, <1>2, <1>3 DEF Range
  <2>2. ASSUME NEW i \in DOMAIN q PROVE q[i] \in Range(c)
    <3>1. i \in DOMAIN c /\ c[i] = q[i]
      BY <1>1, <1>2, <1>3
    <3>2. QED
      BY <3>1 DEF Range
  <2>3. ASSUME NEW i \in DOMAIN r PROVE r[i] \in Range(c)
    <3>1. i + Len(q) \in DOMAIN c /\ c[i + Len(q)] = r[i]
      BY <1>1, <1>2, <1>3
    <3>2. QED
      BY <3>1 DEF Range
  <2>4. QED
    BY <2>1, <2>2, <2>3 DEF Range
<1>5. ASSUME IsInjective(q), IsInjective(r), Range(q) \cap Range(r) = {}
      PROVE  IsInjective(c)
  <2>1. SUFFICES ASSUME NEW i \in DOMAIN c, NEW j \in DOMAIN c, c[i] = c[j]
                 PROVE  i = j
    BY DEF IsInjective
  <2>2. \A k \in DOMAIN q, l \in DOMAIN r : q[k] # r[l]
    BY <1>5 DEF Range
  <2>3. CASE i <= Len(q) /\ j <= Len(q)
    BY <1>1, <1>2, <1>3, <1>5, <2>1, <2>3 DEF IsInjective
  <2>4. CASE i > Len(q) /\ j > Len(q)
    <3>1. i - Len(q) \in DOMAIN r /\ j - Len(q) \in DOMAIN r
      BY <1>1, <1>3, <2>1, <2>4
    <3>2. r[i - Len(q)] = r[j - Len(q)]
      BY <1>1, <1>2, <1>3, <2>1, <2>4
    <3>3. i - Len(q) = j - Len(q)
      BY <3>1, <3>2, <1>5 DEF IsInjective
    <3>4. QED
      BY <3>3, <1>1, <1>3
  <2>5. CASE i <= Len(q) /\ j > Len(q)
    BY <1>1, <1>2, <1>3, <2>1, <2>2, <2>5
  <2>6. CASE i > Len(q) /\ j <= Len(q)
    BY <1>1, <1>2, <1>3, <2>1, <2>2, <2>6
  <2>7. QED
    BY <2>3, <2>4, <2>5, <2>6, <1>1, <1>3
<1>6. QED
  BY <1>2, <1>4, <1>5

(* A queue without duplicates, cut after its first k elements.              *)
LEMMA CutQueue ==
  ASSUME NEW S, NEW q \in Seq(S), NEW k \in 0 .. Len(q)
  PROVE  /\ SubSeq(q, 1, k) \in Seq(S)
         /\ SubSeq(q, k + 1, Len(q)) \in Seq(S)
         /\ Range(SubSeq(q, 1, k)) \cup Range(SubSeq(q, k + 1, Len(q))) = Range(q)
         /\ IsInjective(q) =>
              /\ IsInjective(SubSeq(q, 1, k))
              /\ IsInjective(SubSeq(q, k + 1, Len(q)))
              /\ Range(SubSeq(q, 1, k)) \cap Range(SubSeq(q, k + 1, Len(q))) = {}
<1> DEFINE a == SubSeq(q, 1, k)
           b == SubSeq(q, k + 1, Len(q))
<1>1. DOMAIN q = 1 .. Len(q) /\ Len(q) \in Nat /\ \A i \in 1 .. Len(q) : q[i] \in S
  BY LenProperties, ElementOfSeq
<1>2. a \in Seq(S) /\ Len(a) = k /\ \A i \in 1 .. k : a[i] = q[i]
  <2>1. \A i \in 1 .. k : q[i] \in S
    BY <1>1
  <2>2. /\ a \in Seq(S)
        /\ Len(a) = IF 1 <= k THEN k - 1 + 1 ELSE 0
        /\ \A i \in 1 .. k - 1 + 1 : a[i] = q[1 + i - 1]
    BY <2>1, <1>1, SubSeqProperties
  <2>3. QED
    BY <2>2, <1>1
<1>3. b \in Seq(S) /\ Len(b) = Len(q) - k /\ \A i \in 1 .. Len(q) - k : b[i] = q[k + i]
  <2>1. \A i \in k + 1 .. Len(q) : q[i] \in S
    BY <1>1
  <2>2. /\ b \in Seq(S)
        /\ Len(b) = IF k + 1 <= Len(q) THEN Len(q) - (k + 1) + 1 ELSE 0
        /\ \A i \in 1 .. Len(q) - (k + 1) + 1 : b[i] = q[k + 1 + i - 1]
    BY <2>1, <1>1, SubSeqProperties
  <2> HIDE DEF b
  <2>3. Len(b) = Len(q) - k
    <3> DEFINE l == Len(q)
    <3>1. l \in Nat /\ k \in 0 .. l
      BY <1>1
    <3>2. Len(b) = IF k + 1 <= l THEN l - (k + 1) + 1 ELSE 0
      BY <2>2
    <3> HIDE DEF l
    <3>3. (IF k + 1 <= l THEN l - (k + 1) + 1 ELSE 0) = l - k
      BY <3>1
    <3>4. Len(b) = l - k
      BY <3>2, <3>3
    <3>5. QED
      BY <3>4 DEF l
  <2>4. ASSUME NEW i \in 1 .. Len(q) - k PROVE b[i] = q[k + i]
    <3>1. k + 1 + i - 1 = k + i /\ i \in 1 .. Len(q) - (k + 1) + 1
      BY <1>1
    <3>2. QED
      BY <2>2, <3>1
  <2>5. QED
    BY <2>2, <2>3, <2>4
<1> HIDE DEF a, b
<1>4. DOMAIN a = 1 .. k /\ DOMAIN b = 1 .. Len(q) - k
  BY <1>2, <1>3, LenProperties
<1>5. Range(a) \cup Range(b) = Range(q)
  <2>1. Range(a) \cup Range(b) \subseteq Range(q)
    <3>1. \A i \in DOMAIN a : i \in DOMAIN q /\ a[i] = q[i]
      BY <1>1, <1>2, <1>4
    <3>2. \A i \in DOMAIN b : k + i \in DOMAIN q /\ b[i] = q[k + i]
      BY <1>1, <1>3, <1>4
    <3>3. QED
      BY <3>1, <3>2 DEF Range
  <2>2. ASSUME NEW i \in DOMAIN q PROVE q[i] \in Range(a) \cup Range(b)
    <3>1. CASE i <= k
      BY <3>1, <1>1, <1>2, <1>4 DEF Range
    <3>2. CASE i > k
      <4>1. i - k \in DOMAIN b /\ b[i - k] = q[i]
        BY <3>2, <1>1, <1>3, <1>4
      <4>2. QED
        BY <4>1 DEF Range
    <3>3. QED
      BY <3>1, <3>2, <1>1
  <2>3. QED
    BY <2>1, <2>2 DEF Range
<1>6. ASSUME IsInjective(q)
      PROVE  IsInjective(a) /\ IsInjective(b) /\ Range(a) \cap Range(b) = {}
  <2>1. IsInjective(a)
    BY <1>1, <1>2, <1>4, <1>6 DEF IsInjective
  <2>2. IsInjective(b)
    <3>1. SUFFICES ASSUME NEW i \in DOMAIN b, NEW j \in DOMAIN b, b[i] = b[j]
                   PROVE  i = j
      BY DEF IsInjective
    <3>2. k + i \in DOMAIN q /\ k + j \in DOMAIN q /\ q[k + i] = q[k + j]
      BY <1>1, <1>3, <1>4, <3>1
    <3>3. k + i = k + j
      BY <3>2, <1>6 DEF IsInjective
    <3>4. QED
      BY <3>3, <1>4
  <2>3. ASSUME NEW i \in DOMAIN a, NEW j \in DOMAIN b PROVE a[i] # b[j]
    <3>1. i \in DOMAIN q /\ k + j \in DOMAIN q /\ i # k + j
      BY <1>1, <1>4
    <3>2. q[i] # q[k + j]
      BY <3>1, <1>6 DEF IsInjective
    <3>3. QED
      BY <3>2, <1>2, <1>3, <1>4
  <2>4. QED
    BY <2>1, <2>2, <2>3 DEF Range
<1>7. QED
  BY <1>2, <1>3, <1>5, <1>6 DEF a, b
(* A queue without duplicates, without its k-th element.                    *)
LEMMA RemoveQueue ==
  ASSUME NEW S, NEW q \in Seq(S), NEW k \in DOMAIN q, IsInjective(q)
  PROVE  /\ RemoveAt(q, k) \in Seq(S)
         /\ Range(RemoveAt(q, k)) = Range(q) \ {q[k]}
         /\ IsInjective(RemoveAt(q, k))
<1> DEFINE a == SubSeq(q, 1, k - 1)
           b == SubSeq(q, k, Len(q))
           c == SubSeq(q, k + 1, Len(q))
<1>1. DOMAIN q = 1 .. Len(q) /\ Len(q) \in Nat /\ k \in Int
  BY LenProperties
<1>2. /\ a \in Seq(S) /\ b \in Seq(S) /\ Range(a) \cup Range(b) = Range(q)
      /\ IsInjective(a) /\ IsInjective(b) /\ Range(a) \cap Range(b) = {}
  <2>1. k - 1 \in 0 .. Len(q) /\ k - 1 + 1 = k
    BY <1>1
  <2>2. QED
    BY <2>1, CutQueue
<1>3. /\ c \in Seq(S) /\ IsInjective(c)
      /\ Range(SubSeq(q, 1, k)) \cup Range(c) = Range(q)
      /\ Range(SubSeq(q, 1, k)) \cap Range(c) = {}
  BY <1>1, CutQueue
<1>4. Range(SubSeq(q, 1, k)) = Range(a) \cup {q[k]} /\ q[k] \notin Range(a)
  <2> DEFINE d == SubSeq(q, 1, k)
  <2>1. \A i \in 1 .. k : q[i] \in S
    BY <1>1, ElementOfSeq
  <2>2. /\ d \in Seq(S) /\ Len(d) = k /\ \A i \in 1 .. k : d[i] = q[i]
    BY <2>1, <1>1, SubSeqProperties
  <2>3. /\ Len(a) = k - 1 /\ \A i \in 1 .. k - 1 : a[i] = q[i]
    <3>1. \A i \in 1 .. k - 1 : q[i] \in S
      BY <2>1, <1>1
    <3>2. /\ Len(a) = IF 1 <= k - 1 THEN k - 1 - 1 + 1 ELSE 0
          /\ \A i \in 1 .. k - 1 - 1 + 1 : a[i] = q[1 + i - 1]
      BY <3>1, <1>1, SubSeqProperties
    <3> HIDE DEF a
    <3>3. QED
      BY <3>2, <1>1
  <2> HIDE DEF a, d
  <2>4. DOMAIN a = 1 .. k - 1 /\ DOMAIN d = 1 .. k
    BY <1>2, <2>2, <2>3, LenProperties
  <2>5. \A i \in 1 .. k - 1 : q[i] # q[k]
    BY <1>1 DEF IsInjective
  <2>6. Range(d) = Range(a) \cup {q[k]} /\ q[k] \notin Range(a)
    BY <2>2, <2>3, <2>4, <2>5, <1>1 DEF Range
  <2>7. QED
    BY <2>6 DEF d
<1> HIDE DEF a, b, c
<1>5. Range(a) \cap Range(c) = {} /\ Range(a) \cup Range(c) = Range(q) \ {q[k]}
  <2>1. q[k] \notin Range(c)
    BY <1>3, <1>4
  <2>2. QED
    BY <1>3, <1>4, <2>1
<1>6. RemoveAt(q, k) = a \o c
  BY DEF RemoveAt, a, c
<1>7. QED
  BY <1>2, <1>3, <1>5, <1>6, ConcatQueue
(* The first element of a queue, as a queue of its own.                     *)
LEMMA FirstOfQueue ==
  ASSUME NEW S, NEW q \in Seq(S), q # <<>>
  PROVE  /\ 1 \in 0 .. Len(q)
         /\ q[1] \in Range(q)
         /\ Range(SubSeq(q, 1, 1)) = {q[1]}
<1>1. DOMAIN q = 1 .. Len(q) /\ Len(q) \in Nat /\ Len(q) > 0
  BY LenProperties, RangeOfQueue
<1>2. q[1] \in S
  BY <1>1
<1> DEFINE a == SubSeq(q, 1, 1)
<1>3. \A i \in 1 .. 1 : q[i] \in S
  BY <1>2
<1>4. a \in Seq(S) /\ Len(a) = (1 - 1) + 1 /\ \A i \in 1 .. (1 - 1) + 1 : a[i] = q[(1 + i) - 1]
  BY <1>3, SubSeqProperties
<1> HIDE DEF a
<1>5. DOMAIN a = 1 .. Len(a)
  BY <1>4, LenProperties
<1>6. DOMAIN a = {1} /\ a[1] = q[1]
  BY <1>4, <1>5
<1>7. Range(a) = {q[1]}
  BY <1>6 DEF Range
<1>8. QED
  BY <1>1, <1>7 DEF Range, a
(* Which positions of a queue without duplicates a cut after k takes away.  *)
LEMMA CutPositions ==
  ASSUME NEW S, NEW q \in Seq(S), NEW k \in 0 .. Len(q), IsInjective(q), NEW j \in DOMAIN q
  PROVE  q[j] \in Range(SubSeq(q, k + 1, Len(q))) <=> j > k
<1> DEFINE b == SubSeq(q, k + 1, Len(q))
<1>1. DOMAIN q = 1 .. Len(q) /\ Len(q) \in Nat /\ k \in Nat /\ j \in Nat
  BY LenProperties
<1>2. /\ DOMAIN SubSeq(q, 1, k) = 1 .. k
      /\ \A i \in 1 .. k : SubSeq(q, 1, k)[i] = q[i]
  <2>1. \A i \in 1 .. k : q[i] \in S
    BY <1>1, ElementOfSeq
  <2>2. /\ SubSeq(q, 1, k) \in Seq(S)
        /\ Len(SubSeq(q, 1, k)) = IF 1 <= k THEN k - 1 + 1 ELSE 0
        /\ \A i \in 1 .. k - 1 + 1 : SubSeq(q, 1, k)[i] = q[1 + i - 1]
    BY <2>1, <1>1, SubSeqProperties
  <2>3. DOMAIN SubSeq(q, 1, k) = 1 .. Len(SubSeq(q, 1, k))
    BY <2>2, LenProperties
  <2> DEFINE a == SubSeq(q, 1, k)
  <2> HIDE DEF a
  <2>4. Len(a) = k /\ DOMAIN a = 1 .. Len(a) /\ \A i \in 1 .. k - 1 + 1 : a[i] = q[1 + i - 1]
    BY <2>2, <2>3, <1>1 DEF a
  <2>5. QED
    BY <2>4, <1>1 DEF a
<1>3. j <= k => q[j] \in Range(SubSeq(q, 1, k))
  BY <1>1, <1>2 DEF Range
<1>4. /\ Range(SubSeq(q, 1, k)) \cup Range(b) = Range(q)
      /\ Range(SubSeq(q, 1, k)) \cap Range(b) = {}
  BY CutQueue
<1> HIDE DEF b
<1>5. j <= k => q[j] \notin Range(b)
  BY <1>3, <1>4
<1>6. ASSUME j > k PROVE q[j] \in Range(b)
  <2>1. q[j] \notin Range(SubSeq(q, 1, k))
    <3>1. SUFFICES ASSUME NEW i \in 1 .. k, q[i] = q[j] PROVE FALSE
      BY <1>2 DEF Range
    <3>2. i \in DOMAIN q /\ i # j
      BY <1>1, <1>6
    <3>3. QED
      BY <3>1, <3>2 DEF IsInjective
  <2>2. QED
    BY <2>1, <1>4 DEF Range
<1>7. QED
  BY <1>1, <1>5, <1>6 DEF b

(* Where the elements of a cut-off prefix, appended to another queue, go.   *)
LEMMA PrefixMoved ==
  ASSUME NEW S, NEW q \in Seq(S), NEW r \in Seq(S), NEW k \in 0 .. Len(q),
         NEW i \in 1 .. k
  PROVE  /\ Len(r) + i \in DOMAIN (r \o SubSeq(q, 1, k))
         /\ (r \o SubSeq(q, 1, k))[Len(r) + i] = q[i]
<1> DEFINE a == SubSeq(q, 1, k)
           c == r \o a
<1>1. Len(q) \in Nat /\ Len(r) \in Nat /\ k \in Nat /\ \A m \in 1 .. k : q[m] \in S
  BY LenProperties, ElementOfSeq
<1>2. /\ a \in Seq(S) /\ Len(a) = IF 1 <= k THEN k - 1 + 1 ELSE 0
      /\ \A m \in 1 .. k - 1 + 1 : a[m] = q[1 + m - 1]
  BY <1>1, SubSeqProperties
<1> HIDE DEF a
<1>3. Len(a) = k /\ \A m \in 1 .. k : a[m] = q[m]
  BY <1>1, <1>2
<1>4. /\ c \in Seq(S) /\ Len(c) = Len(r) + Len(a)
      /\ \A m \in 1 .. Len(r) + Len(a) : c[m] = IF m <= Len(r) THEN r[m] ELSE a[m - Len(r)]
  BY <1>2, ConcatProperties
<1>5. DOMAIN c = 1 .. Len(r) + k
  BY <1>3, <1>4, LenProperties
<1> HIDE DEF c
<1>6. Len(r) + i \in DOMAIN c /\ c[Len(r) + i] = q[i]
  <2> DEFINE l == Len(r)
  <2>1. l \in Nat /\ DOMAIN c = 1 .. l + k
        /\ \A m \in 1 .. l + k : c[m] = IF m <= l THEN r[m] ELSE a[m - l]
    BY <1>1, <1>3, <1>4, <1>5
  <2> HIDE DEF l
  <2>2. l + i \in 1 .. l + k /\ ~(l + i <= l) /\ (l + i) - l = i
    BY <2>1, <1>1
  <2>3. QED
    BY <2>1, <2>2, <1>3 DEF l
<1>7. QED
  BY <1>6 DEF c, a

-----------------------------------------------------------------------------
(* A set of naturals that is not empty has a least element.                *)
LEMMA Least ==
  ASSUME NEW T, T \subseteq Nat, T # {}
  PROVE  \E x \in T : \A y \in T : x <= y
<1> DEFINE R == OpToRel(<, Nat)
<1>1. IsWellFoundedOn(R, Nat)
  BY NatLessThanWellFounded
<1>3. \A x, y \in Nat : x < y => <<x, y>> \in R
  BY DEF OpToRel
<1> HIDE DEF R
<1>2. PICK x \in T : \A y \in T : ~(<<y, x>> \in R)
  BY <1>1, WFMin, Zenon
<1>4. \A y \in T : ~(y < x)
  BY <1>2, <1>3
<1>5. QED
  BY <1>4

(* Induction over the naturals, for a set rather than for an operator:     *)
(* what 0 is in, and each successor of a member, has every natural in it.  *)
(* The induction theorems of the library take an operator, which the       *)
(* provers cannot be given.                                                *)
LEMMA SetInduction ==
  ASSUME NEW S, 0 \in S, \A n \in Nat : n \in S => n + 1 \in S
  PROVE  Nat \subseteq S
<1> DEFINE T == {n \in Nat : n \notin S}
<1>1. SUFFICES ASSUME T # {} PROVE FALSE
  OBVIOUS
<1>2. PICK x \in T : \A y \in T : x <= y
  BY <1>1, Least
<1>3. x # 0 /\ x - 1 \in Nat /\ x - 1 \notin T /\ x = (x - 1) + 1
  BY <1>2
<1>4. QED
  BY <1>2, <1>3

(* g is the table of partial sums that SumUpTo(f, n) reads off.            *)
SumTable(f, n, g) == g = [i \in 0 .. n |-> IF i = 0 THEN 0 ELSE g[i - 1] + f[i]]

(* There is such a table, for every n.                                     *)
LEMMA SumTableExists ==
  ASSUME NEW f, NEW n \in Nat
  PROVE  \E g : SumTable(f, n, g)
<1> DEFINE S == {m \in Nat : \E g : SumTable(f, m, g)}
<1>1. 0 \in S
  <2>1. SumTable(f, 0, [i \in 0 .. 0 |-> 0])
    BY DEF SumTable
  <2>2. QED
    BY <2>1
<1>2. ASSUME NEW m \in Nat, m \in S
      PROVE  m + 1 \in S
  <2>1. PICK g : SumTable(f, m, g)
    BY <1>2
  <2> DEFINE h == [i \in 0 .. m + 1 |-> IF i = m + 1 THEN g[m] + f[m + 1] ELSE g[i]]
  <2>2. ASSUME NEW i \in 0 .. m + 1
        PROVE  h[i] = IF i = 0 THEN 0 ELSE h[i - 1] + f[i]
    BY <2>1 DEF SumTable
  <2>3. SumTable(f, m + 1, h)
    BY <2>2 DEF SumTable
  <2>4. QED
    BY <2>3
<1>3. Nat \subseteq S
  BY <1>1, <1>2, SetInduction
<1>4. QED
  BY <1>3

(* So SumUpTo is the last entry of one.                                    *)
LEMMA SumIsTable ==
  ASSUME NEW f, NEW n \in Nat
  PROVE  \E g : SumTable(f, n, g) /\ SumUpTo(f, n) = g[n]
<1> DEFINE g == CHOOSE h : SumTable(f, n, h)
<1>1. SumTable(f, n, g)
  BY SumTableExists
<1>2. SumUpTo(f, n) = g[n]
  BY DEF SumUpTo, SumTable
<1>3. QED
  BY <1>1, <1>2

(* Two tables agree as far as what they sum agrees.                        *)
LEMMA SumTablesAgree ==
  ASSUME NEW f, NEW e, NEW n \in Nat, NEW m \in Nat, NEW g, NEW h,
         SumTable(f, n, g), SumTable(e, m, h),
         \A i \in 1 .. n : f[i] = e[i], n <= m
  PROVE  g[n] = h[n]
<1> DEFINE S == {i \in Nat : i <= n => g[i] = h[i]}
<1>1. 0 \in S
  BY DEF SumTable
<1>2. ASSUME NEW i \in Nat, i \in S
      PROVE  i + 1 \in S
  <2>1. SUFFICES ASSUME i + 1 <= n PROVE g[i + 1] = h[i + 1]
    OBVIOUS
  <2>2. g[i + 1] = g[i] + f[i + 1] /\ h[i + 1] = h[i] + e[i + 1]
    BY <2>1 DEF SumTable
  <2>3. QED
    BY <1>2, <2>1, <2>2
<1> HIDE DEF S
<1>3. n \in S
  BY <1>1, <1>2, SetInduction
<1>4. QED
  BY <1>3 DEF S

(* SumUpTo as the loop computes it: nothing first, and then one term more. *)
LEMMA SumByTurns ==
  ASSUME NEW f, NEW n \in Nat
  PROVE  /\ SumUpTo(f, 0) = 0
         /\ SumUpTo(f, n + 1) = SumUpTo(f, n) + f[n + 1]
<1>1. PICK g : SumTable(f, n, g) /\ SumUpTo(f, n) = g[n]
  BY SumIsTable
<1>2. PICK h : SumTable(f, n + 1, h) /\ SumUpTo(f, n + 1) = h[n + 1]
  BY SumIsTable
<1>3. PICK z : SumTable(f, 0, z) /\ SumUpTo(f, 0) = z[0]
  BY SumIsTable
<1>4. g[n] = h[n]
  BY <1>1, <1>2, SumTablesAgree
<1>5. h[n + 1] = h[n] + f[n + 1] /\ z[0] = 0
  BY <1>2, <1>3 DEF SumTable
<1>6. QED
  BY <1>1, <1>2, <1>3, <1>4, <1>5

(* Only the terms that are summed matter.                                  *)
LEMMA SumDependsOnTerms ==
  ASSUME NEW f, NEW e, NEW n \in Nat, \A i \in 1 .. n : f[i] = e[i]
  PROVE  SumUpTo(f, n) = SumUpTo(e, n)
<1>1. PICK g : SumTable(f, n, g) /\ SumUpTo(f, n) = g[n]
  BY SumIsTable
<1>2. PICK h : SumTable(e, n, h) /\ SumUpTo(e, n) = h[n]
  BY SumIsTable
<1>3. QED
  BY <1>1, <1>2, SumTablesAgree

(* The sum of naturals is a natural.                                       *)
LEMMA SumOfNats ==
  ASSUME NEW f, NEW n \in Nat, \A i \in 1 .. n : f[i] \in Nat
  PROVE  SumUpTo(f, n) \in Nat
<1> DEFINE S == {m \in Nat : m <= n => SumUpTo(f, m) \in Nat}
<1>1. 0 \in S
  BY SumByTurns
<1>2. ASSUME NEW m \in Nat, m \in S
      PROVE  m + 1 \in S
  BY <1>2, SumByTurns
<1> HIDE DEF S
<1>3. n \in S
  BY <1>1, <1>2, SetInduction
<1>4. QED
  BY <1>3 DEF S

(* A change of one term changes the sum by as much.                        *)
LEMMA SumWithOneChanged ==
  ASSUME NEW f, NEW e, NEW n \in Nat, NEW k \in 1 .. n,
         \A i \in 1 .. n : f[i] \in Nat /\ e[i] \in Nat,
         \A i \in 1 .. n : i # k => f[i] = e[i]
  PROVE  SumUpTo(e, n) = SumUpTo(f, n) - f[k] + e[k]
<1> DEFINE S == {m \in Nat : m <= n =>
                  SumUpTo(e, m) = SumUpTo(f, m) + (IF k <= m THEN e[k] - f[k] ELSE 0)}
<1>1. 0 \in S
  BY SumByTurns
<1>2. ASSUME NEW m \in Nat, m \in S
      PROVE  m + 1 \in S
  <2>1. SUFFICES ASSUME m + 1 <= n
        PROVE  SumUpTo(e, m + 1) = SumUpTo(f, m + 1) + (IF k <= m + 1 THEN e[k] - f[k] ELSE 0)
    OBVIOUS
  <2>2. /\ SumUpTo(e, m + 1) = SumUpTo(e, m) + e[m + 1]
        /\ SumUpTo(f, m + 1) = SumUpTo(f, m) + f[m + 1]
    BY SumByTurns
  <2>3. SumUpTo(e, m) = SumUpTo(f, m) + (IF k <= m THEN e[k] - f[k] ELSE 0)
    BY <1>2, <2>1
  <2>4. SumUpTo(f, m) \in Nat /\ SumUpTo(e, m) \in Nat
    BY <2>1, SumOfNats
  <2>5. f[m + 1] \in Nat /\ e[m + 1] \in Nat /\ f[k] \in Nat /\ e[k] \in Nat
    BY <2>1
  <2>6. m + 1 # k => f[m + 1] = e[m + 1]
    BY <2>1
  <2>7. QED
    BY <2>2, <2>3, <2>4, <2>5, <2>6
<1> HIDE DEF S
<1>2a. n \in S
  BY <1>1, <1>2, SetInduction
<1>3. SumUpTo(e, n) = SumUpTo(f, n) + (e[k] - f[k])
  BY <1>2a DEF S
<1>4. SumUpTo(f, n) \in Nat
  BY SumOfNats
<1>5. QED
  BY <1>3, <1>4
=============================================================================
