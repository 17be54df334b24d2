------------------------- MODULE DoublyLinkedProofs -------------------------
(***************************************************************************)
(* Lemmas about numbers and the places of a sequence, which the proofs of  *)
(* all components use, and about doubly linked lists: the pointer updates with which slab.c and          *)
(* slab_pool.c move a node to either end of a list keep it one list of     *)
(* the same nodes, in the order FirstToEnd or ToFront gives.               *)
(***************************************************************************)
EXTENDS DoublyLinked, FiniteSetTheorems, TLAPS

\* Euclidean division, in the form the other lemmas use it.
LEMMA DivMod ==
  ASSUME NEW a \in Nat, NEW b \in Nat \ {0}
  PROVE  /\ a \div b \in Nat
         /\ b * (a \div b) \in Nat
         /\ b * (a \div b) <= a
         /\ a < b * (a \div b) + b
<1> DEFINE q == a \div b
<1>1. q \in Int /\ b * q <= a /\ a < b * q + b
  BY SMT
<1> HIDE DEF q
<1>2. CASE q < 0
  <2>1. PICK m \in Nat : q = -1 - m
    <3>1. -1 - q \in Nat /\ q = -1 - (-1 - q)
      BY <1>1, <1>2
    <3> QED BY <3>1
  <2>2. b * q + b = -(b * m) /\ b * m \in Nat
    BY <2>1, SMT
  <2>3. FALSE
    <3> DEFINE u == b * q + b
               v == b * m
    <3>1. u = -v /\ v \in Nat /\ a < u
      BY <1>1, <2>2
    <3> HIDE DEF u, v
    <3> QED BY <3>1
  <2> QED BY <2>3
<1>3. CASE q \in Nat
  <2>1. b * q \in Nat
    BY <1>3, SMT
  <2> QED BY <1>1, <1>3, <2>1 DEF q
<1> QED BY <1>1, <1>2, <1>3

\* Multiplying by a positive number keeps the order.
LEMMA TimesMonotone ==
  ASSUME NEW c \in Nat \ {0}, NEW i \in Nat, NEW j \in Nat, i < j
  PROVE  c * i + c <= c * j
<1>1. PICK d \in Nat : j = i + 1 + d
  <2>1. j - i - 1 \in Nat /\ j = i + 1 + (j - i - 1)
    OBVIOUS
  <2> QED BY <2>1
<1>2. c * j = c * i + c + c * d
  BY <1>1, SMT
<1>3. c * d \in Nat /\ c * i \in Nat
  BY SMT
<1> QED BY <1>2, <1>3

\* Dividing a multiple gives the factor back.
LEMMA DivTimes ==
  ASSUME NEW c \in Nat \ {0}, NEW i \in Nat
  PROVE  (c * i) \div c = i
<1> DEFINE q == (c * i) \div c
<1>1. c * i \in Nat
  BY SMT
<1>2. q \in Nat /\ c * q \in Nat /\ c * q <= c * i /\ c * i < c * q + c
  BY <1>1, DivMod
<1>3. ~(q < i)
  <2> SUFFICES ASSUME q < i PROVE FALSE
    OBVIOUS
  <2>1. c * q + c <= c * i
    BY <1>2, TimesMonotone
  <2> QED BY <1>1, <1>2, <2>1
<1>4. ~(i < q)
  <2> SUFFICES ASSUME i < q PROVE FALSE
    OBVIOUS
  <2>1. c * i + c <= c * q
    BY <1>2, TimesMonotone
  <2> QED BY <1>1, <1>2, <2>1
<1> QED BY <1>2, <1>3, <1>4

\* A set of naturals has a least element: the naturals are well-ordered
\* because finite sets are by inclusion.
LEMMA LeastElement ==
  ASSUME NEW A \in SUBSET Nat, A # {}
  PROVE  \E m \in A : \A k \in A : m <= k
<1> DEFINE T == {0..a : a \in A}
<1>1. IsWellFoundedOn(StrictSubsetOrdering(Nat), FiniteSubsetsOf(Nat))
  BY FS_StrictSubsetOrderingWellFounded
<1>2. T \subseteq FiniteSubsetsOf(Nat) /\ T # {}
  <2>1. \A a \in A : 0..a \subseteq Nat /\ IsFiniteSet(0..a)
    BY FS_Interval
  <2> QED BY <2>1 DEF FiniteSubsetsOf
<1>3. PICK x \in T : \A y \in T : ~(<<y, x>> \in StrictSubsetOrdering(Nat))
  <2> HIDE DEF T
  <2> QED BY <1>1, <1>2, WFMin
<1>4. PICK m \in A : x = 0..m
  OBVIOUS
<1>5. ASSUME NEW k \in A PROVE m <= k
  <2> SUFFICES ASSUME ~(m <= k) PROVE FALSE
    OBVIOUS
  <2>1. m \in Nat /\ k \in Nat /\ k < m
    OBVIOUS
  <2>2. 0..k \subseteq 0..m /\ 0..k # 0..m
    <3>1. m \in 0..m /\ m \notin 0..k
      BY <2>1
    <3> QED BY <2>1, <3>1
  <2>3. 0..k \in T /\ 0..k \in SUBSET Nat /\ 0..m \in SUBSET Nat
    OBVIOUS
  <2>4. <<0..k, 0..m>> \in StrictSubsetOrdering(Nat)
    BY <2>2, <2>3 DEF StrictSubsetOrdering
  <2> QED BY <1>3, <1>4, <2>3, <2>4
<1> QED BY <1>5

\* So what holds for 0, and with any number for the next, holds for all.
LEMMA AllNaturals ==
  ASSUME NEW A \in SUBSET Nat, 0 \in A, \A k \in A : k + 1 \in A
  PROVE  A = Nat
<1> SUFFICES ASSUME A # Nat PROVE FALSE
  OBVIOUS
<1>1. Nat \ A \in SUBSET Nat /\ Nat \ A # {}
  OBVIOUS
<1>2. PICK m \in Nat \ A : \A k \in Nat \ A : m <= k
  BY <1>1, LeastElement
<1>3. m - 1 \in Nat /\ ~(m <= m - 1) /\ (m - 1) + 1 = m
  BY <1>2
<1>4. m - 1 \in A
  BY <1>2, <1>3
<1> QED BY <1>2, <1>3, <1>4

\* FoldLeft goes through a sequence from its first element to its last: it is
\* a recursive function of sets of places, which takes the largest place last.
Largest(t) == CHOOSE x \in t : \A y \in t : x >= y

\* Without the largest of some places there is one less.
LEMMA SmallerPlaces ==
  ASSUME NEW n \in Nat, NEW t \in SUBSET (1..n)
  PROVE  /\ IsFiniteSet(t) /\ Cardinality(t) \in 0..n
         /\ t # {} => /\ Largest(t) \in t /\ \A y \in t : Largest(t) >= y
                      /\ t \ {Largest(t)} \in SUBSET (1..n)
                      /\ Cardinality(t \ {Largest(t)}) = Cardinality(t) - 1
<1>1. IsFiniteSet(1..n) /\ Cardinality(1..n) = n
  BY FS_Interval
<1>2. IsFiniteSet(t) /\ Cardinality(t) \in Nat /\ Cardinality(t) <= n
  BY <1>1, FS_Subset, FS_CardinalityType
<1>3. ASSUME t # {}
      PROVE  /\ Largest(t) \in t /\ \A y \in t : Largest(t) >= y
             /\ Cardinality(t \ {Largest(t)}) = Cardinality(t) - 1
  <2> DEFINE Below == {n - x : x \in t}
  <2>1. Below \in SUBSET Nat /\ Below # {}
    <3>1. \A x \in t : x \in 1..n /\ n - x \in Nat
      OBVIOUS
    <3> QED BY <1>3, <3>1
  <2>2. PICK m \in Below : \A k \in Below : m <= k
    BY <2>1, LeastElement
  <2>3. PICK x \in t : m = n - x
    BY <2>2
  <2>4. ASSUME NEW y \in t PROVE x >= y
    <3>1. m <= n - y
      BY <2>2
    <3>2. x \in 1..n /\ y \in 1..n
      OBVIOUS
    <3> QED BY <2>3, <3>1, <3>2
  <2> HIDE DEF Below
  <2>5. \E z \in t : \A y \in t : z >= y
    BY <2>4
  <2>6. Largest(t) \in t /\ \A y \in t : Largest(t) >= y
    BY <2>5 DEF Largest
  <2>7. Cardinality(t \ {Largest(t)}) = Cardinality(t) - 1
    BY <1>2, <2>6, FS_RemoveElement
  <2> QED BY <2>6, <2>7
<1>4. t \ {Largest(t)} \in SUBSET (1..n)
  OBVIOUS
<1> QED BY <1>2, <1>3, <1>4

\* In particular the places up to the k-th.
LEMMA UptoPlace ==
  ASSUME NEW n \in Nat, NEW k \in 1..n
  PROVE  /\ 1..k \in SUBSET (1..n) /\ 1..k # {}
         /\ Largest(1..k) = k /\ (1..k) \ {k} = 1..(k - 1)
         /\ 1..0 = {}
<1> DEFINE t == 1..k
<1>1. t \in SUBSET (1..n) /\ t # {} /\ k \in t
  OBVIOUS
<1>2. Largest(t) \in t /\ Largest(t) >= k
  BY <1>1, SmallerPlaces
<1>3. Largest(t) = k
  BY <1>2
<1>4. t \ {k} = 1..(k - 1)
  OBVIOUS
<1> QED BY <1>1, <1>3, <1>4

-----------------------------------------------------------------------------
\* Unlinking the first node and appending it behind the last one, as
\* mem_slab_alloc does with a slot and move_slab_to_end_of_the_list with the
\* first slab of a pool.
LEMMA LinkedFirstToEnd ==
  ASSUME NEW n \in Nat, n >= 2, NEW nodes, NEW nil,
         NEW dom, nodes \subseteq dom, NEW vals,
         NEW next \in [dom -> vals], NEW prev \in [dom -> vals],
         NEW order, Linked(order, n, nodes, next, prev, nil),
         NEW nxt, nxt = [next EXCEPT ![order[n]] = order[1], ![order[1]] = nil],
         NEW prv, prv = [prev EXCEPT ![order[2]] = nil, ![order[1]] = order[n]]
  PROVE  Linked(FirstToEnd(order, n), n, nodes, nxt, prv, nil)
<1> DEFINE o == FirstToEnd(order, n)
<1>1. o \in [1..n -> nodes]
  BY DEF Linked, FirstToEnd
<1>2. \A x \in nodes : \E k \in 1..n : o[k] = x
  <2> TAKE x \in nodes
  <2>1. PICK k \in 1..n : order[k] = x
    BY DEF Linked
  <2>2. CASE k = 1
    BY <2>1, <2>2 DEF FirstToEnd
  <2>3. CASE k # 1
    <3>1. k - 1 \in 1..n /\ o[k - 1] = x
      BY <2>1, <2>3 DEF FirstToEnd
    <3> QED BY <3>1
  <2> QED BY <2>2, <2>3
<1>3. \A j, k \in 1..n : o[j] = o[k] => j = k
  <2> SUFFICES ASSUME NEW j \in 1..n, NEW k \in 1..n, o[j] = o[k]
               PROVE  j = k
    OBVIOUS
  <2> DEFINE src(i) == IF i = n THEN 1 ELSE i + 1
  <2>1. src(j) \in 1..n /\ src(k) \in 1..n
    OBVIOUS
  <2>2. order[src(j)] = order[src(k)]
    BY DEF FirstToEnd
  <2>3. src(j) = src(k)
    BY <2>1, <2>2 DEF Linked
  <2> QED BY <2>3
<1>4. \A k \in 1..n :
        /\ nxt[o[k]] = IF k = n THEN nil ELSE o[k + 1]
        /\ prv[o[k]] = IF k = 1 THEN nil ELSE o[k - 1]
  <2> TAKE k \in 1..n
  <2>1. CASE k = n
    <3>1. o[k] = order[1] /\ o[k - 1] = order[n]
      BY <2>1 DEF FirstToEnd
    <3>2. order[1] \in nodes /\ order[1] # order[n] /\ order[1] # order[2]
      BY DEF Linked
    <3> QED BY <2>1, <3>1, <3>2
  <2>2. CASE k # n
    <3>1. o[k] = order[k + 1] /\ k + 1 \in 2..n
      BY <2>2 DEF FirstToEnd
    <3>2. order[k + 1] \in nodes /\ order[k + 1] # order[1]
      BY <3>1 DEF Linked
    <3>3. nxt[o[k]] = o[k + 1]
      <4>1. CASE k + 1 = n
        <5>1. o[k] = order[n] /\ o[k + 1] = order[1]
          BY <3>1, <4>1 DEF FirstToEnd
        <5>2. order[n] \in dom /\ order[n] # order[1]
          BY <3>2, <4>1
        <5> QED BY <5>1, <5>2
      <4>2. CASE k + 1 # n
        <5>1. order[k + 1] # order[n]
          BY <3>1, <4>2 DEF Linked
        <5>2. next[order[k + 1]] = order[k + 2]
          BY <3>1, <4>2 DEF Linked
        <5> QED BY <2>2, <3>1, <3>2, <4>2, <5>1, <5>2 DEF FirstToEnd
      <4> QED BY <4>1, <4>2
    <3>4. prv[o[k]] = IF k = 1 THEN nil ELSE o[k - 1]
      <4>1. CASE k = 1
        BY <3>1, <3>2, <4>1
      <4>2. CASE k # 1
        <5>1. order[k + 1] # order[2]
          BY <3>1, <4>2 DEF Linked
        <5>2. prev[order[k + 1]] = order[k] /\ o[k - 1] = order[k]
          BY <3>1, <4>2, <2>2 DEF Linked, FirstToEnd
        <5> QED BY <3>1, <3>2, <4>2, <5>1, <5>2
      <4> QED BY <4>1, <4>2
    <3> QED BY <2>2, <3>3, <3>4
  <2> QED BY <2>1, <2>2
<1> QED BY <1>1, <1>2, <1>3, <1>4 DEF Linked

\* Cutting the p-th node out and putting it in front of the first one, as
\* mem_slab_dealloc does with a slot and move_slab_to_start_of_the_list with
\* a slab.
LEMMA LinkedToFront ==
  ASSUME NEW n \in Nat, NEW p \in 2..n, NEW nodes, NEW nil,
         NEW dom, nodes \subseteq dom, NEW vals,
         NEW next \in [dom -> vals], NEW prev \in [dom -> vals],
         NEW order, Linked(order, n, nodes, next, prev, nil),
         NEW nxt, nxt = [next EXCEPT ![order[p - 1]] = next[order[p]],
                                     ![order[p]] = order[1]],
         NEW prv, prv = IF p = n
                        THEN [prev EXCEPT ![order[p]] = nil,
                                          ![order[1]] = order[p]]
                        ELSE [prev EXCEPT ![order[p + 1]] = order[p - 1],
                                          ![order[p]] = nil,
                                          ![order[1]] = order[p]]
  PROVE  Linked(ToFront(order, n, p), n, nodes, nxt, prv, nil)
<1> DEFINE o == ToFront(order, n, p)
<1>1. o \in [1..n -> nodes]
  BY DEF Linked, ToFront
<1>2. \A x \in nodes : \E k \in 1..n : o[k] = x
  <2> TAKE x \in nodes
  <2>1. PICK k \in 1..n : order[k] = x
    BY DEF Linked
  <2>2. CASE k < p
    <3>1. k + 1 \in 1..n /\ o[k + 1] = x
      BY <2>1, <2>2 DEF ToFront
    <3> QED BY <3>1
  <2>3. CASE k = p
    BY <2>1, <2>3 DEF ToFront
  <2>4. CASE k > p
    BY <2>1, <2>4 DEF ToFront
  <2> QED BY <2>2, <2>3, <2>4
<1>3. \A j, k \in 1..n : o[j] = o[k] => j = k
  <2> SUFFICES ASSUME NEW j \in 1..n, NEW k \in 1..n, o[j] = o[k]
               PROVE  j = k
    OBVIOUS
  <2> DEFINE src(i) == IF i = 1 THEN p ELSE IF i <= p THEN i - 1 ELSE i
  <2>1. src(j) \in 1..n /\ src(k) \in 1..n
    OBVIOUS
  <2>2. order[src(j)] = order[src(k)]
    BY DEF ToFront
  <2>3. src(j) = src(k)
    BY <2>1, <2>2 DEF Linked
  <2> QED BY <2>3
<1>4. /\ order \in [1..n -> nodes]
      /\ \A j, k \in 1..n : order[j] = order[k] => j = k
      /\ \A k \in 1..n : order[k] \in dom
      /\ \A k \in 1..n : next[order[k]] = IF k = n THEN nil ELSE order[k + 1]
      /\ \A k \in 1..n : prev[order[k]] = IF k = 1 THEN nil ELSE order[k - 1]
  BY DEF Linked
<1>5. ASSUME NEW k \in 1..n
      PROVE  nxt[o[k]] = IF k = n THEN nil ELSE o[k + 1]
  <2>1. CASE k = 1
    <3>1. o[1] = order[p] /\ o[2] = order[1]
      BY DEF ToFront
    <3>2. nxt[order[p]] = order[1]
      BY <1>4
    <3> QED BY <2>1, <3>1, <3>2
  <2>2. CASE k \in 2..(p - 1)
    <3>1. o[k] = order[k - 1] /\ o[k + 1] = order[k]
      BY <2>2 DEF ToFront
    <3>2. k - 1 \in 1..n /\ k - 1 # p - 1 /\ k - 1 # p
      BY <2>2
    <3>3. nxt[order[k - 1]] = order[k]
      BY <1>4, <3>2, <2>2
    <3> QED BY <2>2, <3>1, <3>3
  <2>3. CASE k = p
    <3>1. o[p] = order[p - 1] /\ (p # n => o[p + 1] = order[p + 1])
      BY DEF ToFront
    <3>2. order[p - 1] # order[p]
      BY <1>4
    <3>3. nxt[order[p - 1]] = next[order[p]]
      BY <1>4, <3>2
    <3> QED BY <1>4, <2>3, <3>1, <3>3
  <2>4. CASE k \in (p + 1)..n
    <3>1. o[k] = order[k] /\ (k # n => o[k + 1] = order[k + 1])
      BY <2>4 DEF ToFront
    <3>2. k # p /\ k # p - 1
      BY <2>4
    <3>3. nxt[order[k]] = next[order[k]]
      BY <1>4, <3>2
    <3> QED BY <1>4, <2>4, <3>1, <3>3
  <2> QED BY <2>1, <2>2, <2>3, <2>4
<1>6. ASSUME NEW k \in 1..n
      PROVE  prv[o[k]] = IF k = 1 THEN nil ELSE o[k - 1]
  <2>1. CASE k = 1
    <3>1. o[1] = order[p] /\ order[p] # order[1]
      BY <1>4 DEF ToFront
    <3>2. prv[order[p]] = nil
      BY <1>4, <3>1
    <3> QED BY <2>1, <3>1, <3>2
  <2>2. CASE k = 2
    <3>1. o[2] = order[1] /\ o[1] = order[p]
      BY DEF ToFront
    <3>2. prv[order[1]] = order[p]
      BY <1>4
    <3> QED BY <2>2, <3>1, <3>2
  <2>3. CASE k \in 3..p
    <3>1. o[k] = order[k - 1] /\ o[k - 1] = order[k - 2]
      BY <2>3 DEF ToFront
    <3>2. k - 1 \in 2..n /\ k - 1 # p /\ k - 1 # p + 1
      BY <2>3
    <3>3. prv[order[k - 1]] = prev[order[k - 1]]
      BY <1>4, <3>2
    <3> QED BY <1>4, <2>3, <3>1, <3>2, <3>3
  <2>4. CASE k = p + 1
    <3>1. o[k] = order[p + 1] /\ o[k - 1] = order[p - 1] /\ p # n
      BY <2>4 DEF ToFront
    <3>2. order[p + 1] # order[p] /\ order[p + 1] # order[1]
      BY <1>4, <3>1
    <3>3. prv[order[p + 1]] = order[p - 1]
      BY <1>4, <3>1, <3>2
    <3> QED BY <2>4, <3>1, <3>3
  <2>5. CASE k \in (p + 2)..n
    <3>1. o[k] = order[k] /\ o[k - 1] = order[k - 1]
      BY <2>5 DEF ToFront
    <3>2. k # p /\ k # p + 1 /\ k # 1
      BY <2>5
    <3>3. prv[order[k]] = prev[order[k]]
      BY <1>4, <3>2
    <3> QED BY <1>4, <2>5, <3>1, <3>3
  <2> QED BY <2>1, <2>2, <2>3, <2>4, <2>5
<1> QED BY <1>1, <1>2, <1>3, <1>5, <1>6 DEF Linked
=============================================================================
