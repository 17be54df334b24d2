---------------------------- MODULE SmallocProofs ----------------------------
(***************************************************************************)
(* The properties of Smalloc, for every set of pages, cache sizes, blocks  *)
(* of the C library and requests: the invariants, and that smalloc.c       *)
(* implements a heap.                                                      *)
(***************************************************************************)
EXTENDS Smalloc, SlabListProofs, SequenceTheorems

\* The links lead from any slab to one without a next, in at most N steps.
Acyclic(next, dom) ==
  \E N \in Nat : \E rank \in [dom -> 0..N] :
    \A p \in dom : next[p] # NULL => rank[next[p]] < rank[p]

\* The slabs of no pool: those of the pools there were before
\* smalloc_initialize ran again.
Lost(m, nodes) == Mapped(m) \ UNION {nodes[i] : i \in CacheSizes}

\* The slabs nodes[i] are the list of pool i, for the pools in made; the
\* others have none.
OwnList(m, nodes, i) ==
  /\ IsList(ListOf(m, i), Mapped(m), nodes[i], m.pools[i].balance)
  /\ \A p \in nodes[i] : m.slabs[p].size = i

ListsApart(m, nodes, made) ==
  /\ nodes \in [CacheSizes -> SUBSET Mapped(m)]
  /\ \A i \in CacheSizes \ made : nodes[i] = {}
  /\ \A i \in made : OwnList(m, nodes, i)
  /\ \A i, j \in CacheSizes : i # j => nodes[i] \cap nodes[j] = {}
  /\ \A p \in Lost(m, nodes) :
       /\ m.slabs[p].ref_count = 0
       /\ m.next[p] \in Lost(m, nodes) \cup {NULL}
       /\ m.prev[p] \in Lost(m, nodes) \cup {NULL}

MemTypeOK(m) ==
  LET Link == Mapped(m) \cup {NULL} IN
    /\ m = [slabs |-> m.slabs, next |-> m.next, prev |-> m.prev,
            chunks |-> m.chunks, pools |-> m.pools]
    /\ m.slabs = [p \in Mapped(m) |-> m.slabs[p]]
    /\ Mapped(m) \subseteq Pages
    /\ m.next \in [Mapped(m) -> Link]
    /\ m.prev \in [Mapped(m) -> Link]
    /\ m.pools \in [CacheSizes -> [start : Link, end : Link, balance : Nat]]
    /\ m.chunks \subseteq MallocPtrs

\* mem between two calls, once the pools in made were created.
MemOK(m, made) ==
  /\ MemTypeOK(m)
  /\ SlabsOK(m.slabs)
  /\ Acyclic(m.next, Mapped(m))
  /\ \E nodes : ListsApart(m, nodes, made)

\* The blocks in use, and that they are those the program holds.
Blocks(m) == m.chunks \cup BusyOf(m.slabs)

HeldOK ==
  /\ held = [ptr \in DOMAIN held |-> held[ptr]]
  /\ DOMAIN held = Blocks(mem)
  /\ \A ptr \in DOMAIN held :
       /\ held[ptr] \in [size : RequestSizes, data : Values \cup {Junk}]
       /\ held[ptr].size <= Capacity(mem, ptr, held[ptr].size)

\* No bufctl lies in what has been written.
Uncovered ==
  fault = "none" =>
    \A ptr \in DOMAIN held : held[ptr].data # Junk => ~OverBufctls(mem, ptr)

Made == IF inits = 0 THEN {} ELSE CacheSizes

\* The inductive invariant.
SmallocInv ==
  /\ MemOK(mem, Made)
  /\ HeldOK
  /\ Uncovered
  /\ inits \in 0..MaxInits
  /\ NoOverflowNoNull

-----------------------------------------------------------------------------
(* The two recursions along the links, get_last_from_list and Chain, have  *)
(* a value because the links end: each is built up from the slabs closest  *)
(* to the end, a step at a time.                                           *)

LEMMA AcyclicLasts ==
  ASSUME NEW dom, NULL \notin dom, NEW next \in [dom -> dom \cup {NULL}],
         Acyclic(next, dom)
  PROVE  \E g : Lasts(next, dom, g)
<1>0. PICK N \in Nat : \E rank \in [dom -> 0..N] :
        \A p \in dom : next[p] # NULL => rank[next[p]] < rank[p]
  BY DEF Acyclic
<1>1. PICK rank \in [dom -> 0..N] :
        \A p \in dom : next[p] # NULL => rank[next[p]] < rank[p]
  BY <1>0
<1> DEFINE F(g, p) == IF next[p] = NULL THEN p ELSE g[next[p]]
           Upto(k) == \E g : \A p \in dom : rank[p] < k => g[p] = F(g, p)
           A == {k \in Nat : Upto(k)}
<1>2. 0 \in A
  <2>1. \A p \in dom : ~(rank[p] < 0)
    BY <1>1
  <2> QED BY <2>1
<1>3. ASSUME NEW k \in A PROVE k + 1 \in A
  <2>1. PICK g : \A p \in dom : rank[p] < k => g[p] = F(g, p)
    OBVIOUS
  <2> DEFINE h == [p \in dom |-> F(g, p)]
  <2>2. ASSUME NEW p \in dom, rank[p] < k + 1 PROVE h[p] = F(h, p)
    <3>1. CASE next[p] = NULL
      BY <3>1
    <3>2. CASE next[p] # NULL
      <4>1. next[p] \in dom /\ rank[next[p]] < k
        BY <1>1, <2>2, <3>2
      <4> QED BY <2>1, <3>2, <4>1
    <3> QED BY <3>1, <3>2
  <2> HIDE DEF h
  <2>3. Upto(k + 1)
    BY <2>2
  <2> QED BY <2>3
<1>4. Upto(N + 1)
  <2>1. A = Nat
    <3>1. A \in SUBSET Nat
      OBVIOUS
    <3> HIDE DEF A
    <3> QED BY <1>2, <1>3, <3>1, AllNaturals
  <2>2. N + 1 \in A
    <3> HIDE DEF A
    <3> QED BY <2>1
  <2> QED BY <2>2
<1>5. PICK g : \A p \in dom : rank[p] < N + 1 => g[p] = F(g, p)
  BY <1>4
<1> DEFINE h == [p \in dom |-> g[p]]
<1>6. ASSUME NEW p \in dom PROVE h[p] = F(h, p)
  BY <1>1, <1>5
<1>7. h = [p \in dom |-> F(h, p)]
  <2>1. h = [p \in dom |-> h[p]]
    OBVIOUS
  <2> HIDE DEF h
  <2> QED BY <1>6, <2>1
<1> QED BY <1>7 DEF Lasts

\* The sequence of slabs from each slab on, as Chain has it.
Chains(next, dom, f) ==
  f = [p \in dom \cup {NULL} |-> IF p = NULL THEN <<>> ELSE <<p>> \o f[next[p]]]

LEMMA AcyclicChains ==
  ASSUME NEW dom, NULL \notin dom, NEW next \in [dom -> dom \cup {NULL}],
         Acyclic(next, dom)
  PROVE  \E f : Chains(next, dom, f)
<1>0. PICK N \in Nat : \E rank \in [dom -> 0..N] :
        \A p \in dom : next[p] # NULL => rank[next[p]] < rank[p]
  BY DEF Acyclic
<1>1. PICK rank \in [dom -> 0..N] :
        \A p \in dom : next[p] # NULL => rank[next[p]] < rank[p]
  BY <1>0
<1> DEFINE all == dom \cup {NULL}
           F(f, p) == IF p = NULL THEN <<>> ELSE <<p>> \o f[next[p]]
           Below(p, k) == p = NULL \/ rank[p] < k
           Upto(k) == \E f : \A p \in all : Below(p, k) => f[p] = F(f, p)
           A == {k \in Nat : Upto(k)}
<1>2. 0 \in A
  <2> DEFINE h == [p \in all |-> <<>>]
  <2>1. \A p \in dom : ~(rank[p] < 0)
    BY <1>1
  <2>2. \A p \in all : Below(p, 0) => h[p] = F(h, p)
    BY <2>1
  <2> HIDE DEF h
  <2>3. Upto(0)
    BY <2>2
  <2> QED BY <2>3
<1>3. ASSUME NEW k \in A PROVE k + 1 \in A
  <2>1. PICK f : \A p \in all : Below(p, k) => f[p] = F(f, p)
    OBVIOUS
  <2> DEFINE h == [p \in all |-> F(f, p)]
  <2>2. ASSUME NEW p \in all, Below(p, k + 1) PROVE h[p] = F(h, p)
    <3>1. CASE p = NULL
      BY <3>1
    <3>2. CASE p # NULL
      <4>1. next[p] \in all /\ Below(next[p], k)
        BY <1>1, <2>2, <3>2
      <4>2. f[next[p]] = h[next[p]]
        BY <2>1, <4>1
      <4>3. h[p] = <<p>> \o f[next[p]]
        BY <3>2
      <4> HIDE DEF h
      <4> QED BY <3>2, <4>2, <4>3
    <3> QED BY <3>1, <3>2
  <2> HIDE DEF h
  <2>3. Upto(k + 1)
    BY <2>2
  <2> QED BY <2>3
<1>4. Upto(N + 1)
  <2>1. A = Nat
    <3>1. A \in SUBSET Nat
      OBVIOUS
    <3> HIDE DEF A
    <3> QED BY <1>2, <1>3, <3>1, AllNaturals
  <2>2. N + 1 \in A
    <3> HIDE DEF A
    <3> QED BY <2>1
  <2> QED BY <2>2
<1>5. PICK f : \A p \in all : Below(p, N + 1) => f[p] = F(f, p)
  BY <1>4
<1> DEFINE h == [p \in all |-> f[p]]
<1>6. ASSUME NEW p \in all PROVE h[p] = F(h, p)
  <2>1. Below(p, N + 1)
    BY <1>1
  <2>2. p # NULL => next[p] \in all
    OBVIOUS
  <2>3. f[p] = F(f, p)
    BY <1>5, <2>1
  <2>4. h[p] = f[p] /\ (p # NULL => h[next[p]] = f[next[p]])
    BY <2>2
  <2> HIDE DEF h
  <2> QED BY <2>3, <2>4
<1>7. h = [p \in all |-> F(h, p)]
  <2>1. h = [p \in all |-> h[p]]
    OBVIOUS
  <2> HIDE DEF h
  <2> QED BY <1>6, <2>1
<1> QED BY <1>7 DEF Chains

-----------------------------------------------------------------------------
\* What the assumptions say of a page and of a cache size.
LEMMA HeapFacts ==
  /\ PageSize = PageMask
  /\ StartSize \in Nat \ {0} /\ heuristic_decision_grow_count \in Nat \ {0}
  /\ NULL \notin Pages
  /\ \A p \in Pages : PageAligned(p) /\ p \in Nat \ {NULL}
  /\ \A c \in CacheSizes : c \in Nat \ {0} /\ NumBuffers(c) >= 2
  /\ MallocPtrs \subseteq Nat \ {NULL} /\ RequestSizes \subseteq Nat \ {0}
BY SmallocAssumption, HeuristicAssumption
DEF PageAligned, heuristic_decision_grow_count

\* The links of the slabs in rest, from one of them to another, stay.
LinksKept(next, next2, rest) ==
  \A x \in rest : next2[x] = next[x] /\ next[x] \in rest \cup {NULL}

\* The links still end when a list of the slabs own takes the place of all
\* but the slabs in rest.
LEMMA AcyclicRelisted ==
  ASSUME NEW dom, NEW next, Acyclic(next, dom), NEW rest, rest \subseteq dom,
         NEW own, NULL \notin own, NEW dom2, dom2 = own \cup rest,
         NEW next2, NEW prev2, NEW n \in Nat \ {0}, NEW order,
         Linked(order, n, own, next2, prev2, NULL), own \cap rest = {},
         LinksKept(next, next2, rest)
  PROVE  Acyclic(next2, dom2)
<1>0. PICK N \in Nat : \E rank \in [dom -> 0..N] :
        \A p \in dom : next[p] # NULL => rank[next[p]] < rank[p]
  BY DEF Acyclic
<1>1. PICK rank \in [dom -> 0..N] :
        \A p \in dom : next[p] # NULL => rank[next[p]] < rank[p]
  BY <1>0
<1> DEFINE pos(p) == CHOOSE k \in 1..n : order[k] = p
           r == [p \in dom2 |-> IF p \in own THEN n - pos(p) ELSE rank[p]]
<1>2. /\ \A j, k \in 1..n : order[j] = order[k] => j = k
      /\ \A p \in own : \E k \in 1..n : order[k] = p
      /\ \A k \in 1..n : /\ order[k] \in own
                        /\ next2[order[k]] = IF k = n THEN NULL ELSE order[k + 1]
  BY DEF Linked
<1>3. \A p \in own : pos(p) \in 1..n /\ order[pos(p)] = p
  BY <1>2
<1> HIDE DEF pos
<1>4. r \in [dom2 -> 0..(N + n)]
  <2>1. ASSUME NEW p \in dom2 PROVE r[p] \in 0..(N + n)
    <3>1. CASE p \in own
      BY <1>3, <3>1
    <3>2. CASE p \notin own
      <4>1. p \in dom /\ r[p] = rank[p] /\ rank[p] \in 0..N
        BY <3>2
      <4> QED BY <4>1
    <3> QED BY <3>1, <3>2
  <2>2. r = [p \in dom2 |-> r[p]]
    OBVIOUS
  <2> HIDE DEF r
  <2> QED BY <2>1, <2>2
<1>5. ASSUME NEW p \in dom2, next2[p] # NULL PROVE r[next2[p]] < r[p]
  <2>1. CASE p \in own
    <3> DEFINE k == pos(p)
    <3>1. k \in 1..n /\ order[k] = p
      BY <1>3, <2>1
    <3> HIDE DEF k
    <3>2. k # n /\ next2[p] = order[k + 1]
      BY <1>2, <1>5, <3>1
    <3>3. k + 1 \in 1..n /\ n - (k + 1) < n - k
      BY <3>1, <3>2
    <3>4. next2[p] \in own /\ pos(next2[p]) = k + 1
      BY <1>2, <1>3, <3>2, <3>3
    <3>5. r[next2[p]] = n - (k + 1) /\ r[p] = n - k
      BY <2>1, <3>4 DEF k
    <3> QED BY <3>3, <3>5
  <2>2. CASE p \notin own
    <3>1. p \in rest /\ next2[p] \in rest /\ next2[p] = next[p]
      BY <1>5, <2>2 DEF LinksKept
    <3>2. next2[p] \in dom2 \ own
      BY <3>1
    <3>3. r[p] = rank[p] /\ r[next2[p]] = rank[next[p]]
      BY <2>2, <3>1, <3>2
    <3> QED BY <1>1, <1>5, <3>1, <3>3
  <2> QED BY <2>1, <2>2
<1>6. N + n \in Nat
  OBVIOUS
<1> HIDE DEF r
<1> QED BY <1>4, <1>5, <1>6 DEF Acyclic

\* A list is none the worse for what happens to the links of other slabs.
LEMMA ListKept ==
  ASSUME NEW l, NEW dom, NULL \notin dom, NEW nodes, NEW n, IsList(l, dom, nodes, n),
         NEW dom2, nodes \subseteq dom2, NEW next2, NEW prev2,
         next2 \in [dom2 -> dom2 \cup {NULL}], prev2 \in [dom2 -> dom2 \cup {NULL}],
         \A x \in nodes : next2[x] = l.next[x] /\ prev2[x] = l.prev[x]
  PROVE  IsList([start |-> l.start, end |-> l.end, next |-> next2, prev |-> prev2],
                dom2, nodes, n)
<1> DEFINE k == [start |-> l.start, end |-> l.end, next |-> next2, prev |-> prev2]
<1>1. PICK order \in [1..n -> nodes] : ListOrder(l, nodes, n, order)
  BY DEF IsList
<1>2. n \in Nat \ {0} /\ l.start \in nodes \cup {NULL} /\ l.end \in nodes \cup {NULL}
  BY DEF IsList, ListTypeOK
<1>3. ListTypeOK(k, dom2, nodes)
  BY <1>2 DEF ListTypeOK
<1>4. ListOrder(k, nodes, n, order)
  <2>1. \A j \in 1..n : /\ next2[order[j]] = l.next[order[j]]
                        /\ prev2[order[j]] = l.prev[order[j]]
    OBVIOUS
  <2> QED BY <1>1, <2>1 DEF ListOrder, Linked
<1> HIDE DEF k
<1>5. IsList(k, dom2, nodes, n)
  BY <1>2, <1>3, <1>4 DEF IsList
<1> QED BY <1>5 DEF k

\* The fields of mem once one pool has changed.
LEMMA WithPoolFields ==
  ASSUME NEW m, NEW i, NEW l, NEW slabs, NEW balance
  PROVE  LET w == WithPool(m, i, l, slabs, balance) IN
         /\ w = [slabs |-> w.slabs, next |-> w.next, prev |-> w.prev,
                 chunks |-> w.chunks, pools |-> w.pools]
         /\ w.slabs = slabs /\ w.next = l.next /\ w.prev = l.prev
         /\ w.chunks = m.chunks
         /\ w.pools = [m.pools EXCEPT ![i] = [start |-> l.start, end |-> l.end,
                                             balance |-> balance]]
BY DEF WithPool

\* The blocks of the C library change, and nothing else.
LEMMA ChunksFields ==
  ASSUME NEW m, MemTypeOK(m), NEW chunks
  PROVE  LET w == [m EXCEPT !.chunks = chunks] IN
         /\ w = [slabs |-> w.slabs, next |-> w.next, prev |-> w.prev,
                 chunks |-> w.chunks, pools |-> w.pools]
         /\ w.slabs = m.slabs /\ w.next = m.next /\ w.prev = m.prev
         /\ w.chunks = chunks /\ w.pools = m.pools
<1>1. m = [slabs |-> m.slabs, next |-> m.next, prev |-> m.prev,
           chunks |-> m.chunks, pools |-> m.pools]
  BY DEF MemTypeOK
<1>2. ASSUME NEW a, NEW b, NEW c, NEW d, NEW e
      PROVE  [[slabs |-> a, next |-> b, prev |-> c, chunks |-> d, pools |-> e]
                EXCEPT !.chunks = chunks]
             = [slabs |-> a, next |-> b, prev |-> c, chunks |-> chunks, pools |-> e]
  OBVIOUS
<1>3. [m EXCEPT !.chunks = chunks]
      = [slabs |-> m.slabs, next |-> m.next, prev |-> m.prev,
         chunks |-> chunks, pools |-> m.pools]
  BY <1>1, <1>2
<1> QED BY <1>3

-----------------------------------------------------------------------------
\* list_start is a slab of the list.
LEMMA StartOfList ==
  ASSUME NEW l, NEW dom, NULL \notin dom, NEW nodes, NEW n, IsList(l, dom, nodes, n)
  PROVE  l.start \in nodes /\ nodes \subseteq dom
<1>1. PICK order \in [1..n -> nodes] : Shape(l, dom, nodes, n, order)
  BY ListShape
<1> QED BY <1>1 DEF Shape

\* The slabs of a list are linked to slabs of the list only.
LEMMA LinksInList ==
  ASSUME NEW l, NEW dom, NULL \notin dom, NEW nodes, NEW n, IsList(l, dom, nodes, n),
         NEW x \in nodes
  PROVE  l.next[x] \in nodes \cup {NULL} /\ l.prev[x] \in nodes \cup {NULL}
<1>1. PICK order \in [1..n -> nodes] :
        /\ Linked(order, n, nodes, l.next, l.prev, NULL)
        /\ Shape(l, dom, nodes, n, order)
  BY ListShape
<1>2. n \in Nat \ {0}
  BY ListShape
<1>3. PICK k \in 1..n : order[k] = x
  BY <1>1 DEF Shape
<1>4. /\ l.next[order[k]] = IF k = n THEN NULL ELSE order[k + 1]
      /\ l.prev[order[k]] = IF k = 1 THEN NULL ELSE order[k - 1]
  BY <1>1 DEF Shape
<1>5. (k # n => k + 1 \in 1..n) /\ (k # 1 => k - 1 \in 1..n)
  BY <1>2
<1>6. \A j \in 1..n : order[j] \in nodes
  BY <1>1 DEF Shape
<1> QED BY <1>3, <1>4, <1>5, <1>6

\* The slabs not on the list of pool i are linked to one another only.
LEMMA LinksStay ==
  ASSUME NEW m, MemTypeOK(m), NEW made \in SUBSET CacheSizes, NEW nodes,
         ListsApart(m, nodes, made), NEW i \in CacheSizes,
         NEW x \in Mapped(m) \ nodes[i]
  PROVE  /\ m.next[x] \in (Mapped(m) \ nodes[i]) \cup {NULL}
         /\ m.prev[x] \in (Mapped(m) \ nodes[i]) \cup {NULL}
<1>1. NULL \notin Mapped(m)
  BY HeapFacts DEF MemTypeOK
<1>2. CASE x \in Lost(m, nodes)
  <2>1. Lost(m, nodes) \subseteq Mapped(m) \ nodes[i]
    BY DEF Lost
  <2> QED BY <1>2, <2>1 DEF ListsApart
<1>3. CASE x \notin Lost(m, nodes)
  <2>1. PICK j \in CacheSizes : x \in nodes[j]
    BY <1>3 DEF Lost
  <2>2. j \in made /\ j # i
    BY <2>1 DEF ListsApart
  <2>3. IsList(ListOf(m, j), Mapped(m), nodes[j], m.pools[j].balance)
    BY <2>2 DEF ListsApart, OwnList
  <2>4. /\ ListOf(m, j).next[x] \in nodes[j] \cup {NULL}
        /\ ListOf(m, j).prev[x] \in nodes[j] \cup {NULL}
    <3> HIDE DEF Mapped
    <3> QED BY <1>1, <2>1, <2>3, LinksInList
  <2>5. nodes[j] \subseteq Mapped(m) \ nodes[i]
    BY <2>2 DEF ListsApart
  <2> QED BY <2>4, <2>5 DEF ListOf
<1> QED BY <1>2, <1>3

\* A step of one pool: its list becomes l, of the slabs own; what the others
\* have stays as it is.
LEMMA RelistedOK ==
  ASSUME NEW m, NEW made \in SUBSET CacheSizes, NEW nodes,
         MemTypeOK(m), Acyclic(m.next, Mapped(m)), ListsApart(m, nodes, made),
         NEW i \in CacheSizes, NEW l, NEW slabs, NEW own, NEW n,
         slabs = [p \in DOMAIN slabs |-> slabs[p]], DOMAIN slabs \subseteq Pages,
         SlabsOK(slabs),
         IsList(l, DOMAIN slabs, own, n),
         Mapped(m) \subseteq DOMAIN slabs \/ made = CacheSizes,
         DOMAIN slabs \ own = Mapped(m) \ nodes[i],
         \A p \in own : slabs[p].size = i,
         \A x \in Mapped(m) \ nodes[i] : /\ slabs[x] = m.slabs[x]
                                        /\ l.next[x] = m.next[x]
                                        /\ l.prev[x] = m.prev[x]
  PROVE  MemOK(WithPool(m, i, l, slabs, n), made \cup {i})
<1> DEFINE w    == WithPool(m, i, l, slabs, n)
           dom  == DOMAIN slabs
           ns   == [nodes EXCEPT ![i] = own]
           now  == made \cup {i}
<1>1. /\ w = [slabs |-> w.slabs, next |-> w.next, prev |-> w.prev,
             chunks |-> w.chunks, pools |-> w.pools]
      /\ w.slabs = slabs /\ w.next = l.next /\ w.prev = l.prev
      /\ w.chunks = m.chunks
      /\ w.pools = [m.pools EXCEPT ![i] = [start |-> l.start, end |-> l.end, balance |-> n]]
      /\ Mapped(w) = dom
  <2>1. /\ w = [slabs |-> w.slabs, next |-> w.next, prev |-> w.prev,
               chunks |-> w.chunks, pools |-> w.pools]
        /\ w.slabs = slabs /\ w.next = l.next /\ w.prev = l.prev
        /\ w.chunks = m.chunks
        /\ w.pools = [m.pools EXCEPT ![i] = [start |-> l.start, end |-> l.end, balance |-> n]]
    BY DEF WithPool
  <2> HIDE DEF w
  <2> QED BY <2>1 DEF Mapped
<1> HIDE DEF w
<1>2. /\ NULL \notin dom /\ NULL \notin Mapped(m)
      /\ n \in Nat \ {0} /\ own \subseteq dom
      /\ l.start \in dom \cup {NULL} /\ l.end \in dom \cup {NULL}
      /\ l.next \in [dom -> dom \cup {NULL}] /\ l.prev \in [dom -> dom \cup {NULL}]
      /\ m.pools \in [CacheSizes -> [start : Mapped(m) \cup {NULL}, end : Mapped(m) \cup {NULL},
                                     balance : Nat]]
  BY HeapFacts DEF IsList, ListTypeOK, MemTypeOK
<1>3. /\ nodes \in [CacheSizes -> SUBSET Mapped(m)]
      /\ \A j \in CacheSizes \ made : nodes[j] = {}
      /\ \A j \in made : OwnList(m, nodes, j)
      /\ \A j, k \in CacheSizes : j # k => nodes[j] \cap nodes[k] = {}
  BY DEF ListsApart
<1>4. /\ ns \in [CacheSizes -> SUBSET dom] /\ ns[i] = own
      /\ \A j \in CacheSizes : j # i => ns[j] = nodes[j] /\ ns[j] \subseteq Mapped(m) \ nodes[i]
      /\ \A j, k \in CacheSizes : j # k => ns[j] \cap ns[k] = {}
  <2>1. \A j \in CacheSizes : j # i => nodes[j] \subseteq Mapped(m) \ nodes[i]
                                      /\ nodes[j] \subseteq dom /\ nodes[j] \cap own = {}
    BY <1>3
  <2> QED BY <1>2, <1>3, <2>1
<1> HIDE DEF ns
<1>5. ASSUME NEW j \in now PROVE OwnList(w, ns, j)
  <2>1. CASE j = i
    <3>1. ListOf(w, j) = [start |-> l.start, end |-> l.end, next |-> l.next, prev |-> l.prev]
          /\ w.pools[j].balance = n
      BY <1>1, <1>2, <2>1 DEF ListOf
    <3>2. IsList(ListOf(w, j), dom, own, n)
      <4>1. IsList(l, dom, own, n) /\ own \subseteq dom
            /\ \A x \in own : l.next[x] = l.next[x] /\ l.prev[x] = l.prev[x]
        BY <1>2
      <4> HIDE DEF dom
      <4>2. IsList([start |-> l.start, end |-> l.end, next |-> l.next, prev |-> l.prev],
                   dom, own, n)
        BY <1>2, <4>1, ListKept
      <4> QED BY <3>1, <4>2
    <3> QED BY <1>1, <1>4, <2>1, <3>1, <3>2 DEF OwnList
  <2>2. CASE j # i
    <3>1. /\ j \in CacheSizes /\ OwnList(m, nodes, j) /\ ns[j] = nodes[j]
          /\ nodes[j] \subseteq Mapped(m) \ nodes[i] /\ nodes[j] \subseteq dom
      BY <1>3, <1>4, <2>2
    <3>2. ListOf(w, j) = [start |-> m.pools[j].start, end |-> m.pools[j].end,
                          next |-> l.next, prev |-> l.prev]
          /\ w.pools[j].balance = m.pools[j].balance
      BY <1>1, <1>2, <2>2, <3>1 DEF ListOf
    <3>3. ListOf(m, j).start = m.pools[j].start /\ ListOf(m, j).end = m.pools[j].end
          /\ ListOf(m, j).next = m.next /\ ListOf(m, j).prev = m.prev
      BY DEF ListOf
    <3>4. IsList(ListOf(m, j), Mapped(m), nodes[j], m.pools[j].balance)
      BY <3>1 DEF OwnList
    <3>5. IsList([start |-> m.pools[j].start, end |-> m.pools[j].end,
                  next |-> l.next, prev |-> l.prev], dom, nodes[j], m.pools[j].balance)
      <4>1. \A x \in nodes[j] : l.next[x] = ListOf(m, j).next[x] /\ l.prev[x] = ListOf(m, j).prev[x]
        BY <3>1, <3>3
      <4> HIDE DEF dom
      <4>2. IsList([start |-> ListOf(m, j).start, end |-> ListOf(m, j).end,
                    next |-> l.next, prev |-> l.prev], dom, nodes[j], m.pools[j].balance)
        BY <1>2, <3>1, <3>4, <4>1, ListKept
      <4> QED BY <3>3, <4>2
    <3>6. \A p \in nodes[j] : slabs[p].size = j
      BY <3>1 DEF OwnList
    <3> QED BY <1>1, <3>1, <3>2, <3>5, <3>6 DEF OwnList
  <2> QED BY <2>1, <2>2
<1>6. Lost(w, ns) = Lost(m, nodes)
  BY <1>1, <1>2, <1>3, <1>4 DEF Lost
<1>7. ASSUME NEW p \in Lost(w, ns)
      PROVE  /\ w.slabs[p].ref_count = 0
             /\ w.next[p] \in Lost(w, ns) \cup {NULL}
             /\ w.prev[p] \in Lost(w, ns) \cup {NULL}
  <2>1. p \in Mapped(m) \ nodes[i]
    BY <1>6 DEF Lost
  <2> QED BY <1>1, <1>6, <2>1 DEF ListsApart
<1>8. ListsApart(w, ns, now)
  <2>1. \A j \in CacheSizes \ now : ns[j] = {}
    BY <1>3, <1>4
  <2> QED BY <1>1, <1>4, <1>5, <1>7, <2>1 DEF ListsApart
<1>9. Acyclic(w.next, Mapped(w))
  <2>1. PICK order : Linked(order, n, own, l.next, l.prev, NULL)
    BY DEF IsList, ListOrder
  <2> DEFINE old  == Mapped(m)
             rest == old \ nodes[i]
  <2>2. LinksKept(m.next, l.next, rest)
    BY LinksStay DEF LinksKept
  <2>3. /\ Acyclic(m.next, old) /\ rest \subseteq old /\ dom = own \cup rest
        /\ own \cap rest = {} /\ NULL \notin own
    BY <1>2
  <2>4. Acyclic(l.next, dom)
    <3> HIDE DEF dom, old, rest
    <3> QED BY <1>2, <2>1, <2>2, <2>3, AcyclicRelisted
  <2> QED BY <1>1, <2>4
<1>10. MemTypeOK(w)
  <2>1. ASSUME NEW j \in CacheSizes, j # i
        PROVE  m.pools[j].start \in dom \cup {NULL} /\ m.pools[j].end \in dom \cup {NULL}
    <3>1. CASE Mapped(m) \subseteq dom
      BY <1>2, <3>1
    <3>2. CASE made = CacheSizes
      <4>1. /\ m.pools[j].start \in nodes[j] \cup {NULL}
            /\ m.pools[j].end \in nodes[j] \cup {NULL}
        BY <1>3, <3>2 DEF OwnList, IsList, ListTypeOK, ListOf
      <4> QED BY <1>4, <2>1, <4>1
    <3> QED BY <3>1, <3>2
  <2>2. w.pools \in [CacheSizes -> [start : dom \cup {NULL}, end : dom \cup {NULL}, balance : Nat]]
    BY <1>1, <1>2, <2>1
  <2> QED BY <1>1, <1>2, <2>2 DEF MemTypeOK
<1> HIDE DEF now
<1>11. MemOK(w, now)
  BY <1>1, <1>8, <1>9, <1>10 DEF MemOK
<1> QED BY <1>11 DEF w, now

-----------------------------------------------------------------------------
\* What smalloc(size) comes to: nothing changes, or the memory in use is one
\* block larger, which overlaps none of those there were.
Allocated(m, new, size) ==
  /\ MemOK(new.mem, CacheSizes)
  /\ new.ptr \in Nat \ {NULL} /\ new.ptr \notin Blocks(m)
  /\ Blocks(new.mem) = Blocks(m) \cup {new.ptr}
  /\ size <= Capacity(new.mem, new.ptr, size)
  /\ \A q \in Blocks(m) : IsSlabBlock(new.mem, q) <=> IsSlabBlock(m, q)
  /\ \A q \in Blocks(m), s \in RequestSizes :
       /\ Capacity(new.mem, q, s) = Capacity(m, q, s)
       /\ s <= Capacity(m, q, s) => new.ptr + size <= q \/ q + s <= new.ptr

AllocOutcome(m, new, size) ==
  \/ new.ptr = NULL /\ new.mem = m /\ new.fault \in {"none", "mmap failed"}
  \/ new.fault = "none" /\ Allocated(m, new, size)

\* A busy buffer and a block of the C library.
LEMMA BusyAndChunk ==
  ASSUME NEW slabs, SlabsOK(slabs), DOMAIN slabs \subseteq Pages,
         NEW ptr \in BusyOf(slabs), NEW q \in MallocPtrs
  PROVE  /\ PagePointer(q) \notin DOMAIN slabs /\ PagePointer(ptr) \in DOMAIN slabs
         /\ ptr # q
         /\ \A s \in RequestSizes :
              ptr + slabs[PagePointer(ptr)].size <= q \/ q + s <= ptr
<1> DEFINE page == PagePointer(ptr)
<1>1. /\ page \in DOMAIN slabs /\ ptr \in BusyPtrs(slabs[page]) /\ ptr \in Nat
      /\ PageAligned(page) /\ WellFormed(page, slabs[page])
  BY BusyFacts DEF SlabsOK
<1>2. ptr \in PtrsOf(slabs[page], Slots(slabs[page]))
  BY <1>1 DEF BusyPtrs, PtrsOf, BusySlots
<1> HIDE DEF page
<1>3. page + HeaderSize <= ptr /\ ptr + slabs[page].size <= page + PageSize
  BY <1>1, <1>2, BusyInPage
<1>4. PagePointer(q) \notin DOMAIN slabs
  BY SmallocAssumption
<1>5. ASSUME NEW s \in RequestSizes
      PROVE  ptr + slabs[page].size <= q \/ q + s <= ptr
  <2>1. q + s <= page \/ page + PageSize <= q
    BY <1>1, SmallocAssumption
  <2>2. q \in Nat /\ s \in Nat /\ page \in Nat /\ PageSize \in Nat /\ slabs[page].size \in Nat
    BY <1>1, HeapFacts, PageSizeAssumption DEF WellFormed, PageAligned
  <2> QED BY <1>1, <1>3, <2>1, <2>2 DEF HeaderSize
<1> QED BY <1>1, <1>4, <1>5 DEF page

\* Pool i is about to allocate from the first slab of l, with these slabs.
Ready(m, nodes, i, l, slabs, own, balance) ==
  /\ slabs = [p \in DOMAIN slabs |-> slabs[p]] /\ DOMAIN slabs \subseteq Pages
  /\ SlabsOK(slabs) /\ BusyOf(slabs) = BusyOf(m.slabs)
  /\ IsList(l, DOMAIN slabs, own, balance)
  /\ Mapped(m) \subseteq DOMAIN slabs
  /\ DOMAIN slabs \ own = Mapped(m) \ nodes[i]
  /\ \A p \in own : slabs[p].size = i
  /\ \A x \in Mapped(m) : slabs[x] = m.slabs[x]
  /\ \A x \in Mapped(m) \ nodes[i] : l.next[x] = m.next[x] /\ l.prev[x] = m.prev[x]

LEMMA FromFirstOK ==
  ASSUME NEW m, MemOK(m, CacheSizes), NEW nodes, ListsApart(m, nodes, CacheSizes),
         NEW i \in CacheSizes, NEW l, NEW slabs, NEW own, NEW balance,
         Ready(m, nodes, i, l, slabs, own, balance), ~IsFull(slabs[l.start]),
         NEW size \in RequestSizes, size <= i
  PROVE  AllocOutcome(m, FromFirst(m, i, l, slabs, balance), size)
<1> DEFINE page == l.start
           s    == slabs[page]
           t    == SlabAlloc(s)
           now  == [slabs EXCEPT ![page] = t]
           ptr  == AllocatedPtr(s)
           w    == WithPool(m, i, l, now, balance)
           new  == FromFirst(m, i, l, slabs, balance)
<1>1. /\ slabs = [p \in DOMAIN slabs |-> slabs[p]] /\ DOMAIN slabs \subseteq Pages
      /\ SlabsOK(slabs) /\ BusyOf(slabs) = BusyOf(m.slabs)
      /\ IsList(l, DOMAIN slabs, own, balance)
      /\ Mapped(m) \subseteq DOMAIN slabs
      /\ DOMAIN slabs \ own = Mapped(m) \ nodes[i]
      /\ \A p \in own : slabs[p].size = i
      /\ \A x \in Mapped(m) : slabs[x] = m.slabs[x]
      /\ \A x \in Mapped(m) \ nodes[i] : l.next[x] = m.next[x] /\ l.prev[x] = m.prev[x]
  BY DEF Ready
<1>2. /\ MemTypeOK(m) /\ Acyclic(m.next, Mapped(m)) /\ SlabsOK(m.slabs)
      /\ m.chunks \subseteq MallocPtrs /\ Mapped(m) \subseteq Pages
  BY DEF MemOK, MemTypeOK
<1>3. page \in own /\ own \subseteq DOMAIN slabs /\ page \in DOMAIN slabs
  <2>1. NULL \notin DOMAIN slabs
    BY <1>1, HeapFacts
  <2>2. l.start \in own /\ own \subseteq DOMAIN slabs
    BY <1>1, <2>1, StartOfList
  <2> QED BY <2>2
<1>4. /\ WellFormed(page, s) /\ HasFreeSlot(s) /\ s.size = i
      /\ i \in Nat \ {0} /\ s.max_refs >= 2
  <2>1. WellFormed(page, s) /\ HasFreeSlot(s) /\ s.size = i
    BY <1>1, <1>3, NoFreeSlotOK DEF SlabsOK, IsFull
  <2>2. s.max_refs = NumBuffers(i) /\ NumBuffers(i) >= 2 /\ i \in Nat \ {0}
    BY <2>1, HeapFacts DEF WellFormed
  <2>3. s.max_refs >= 2
    BY <2>2, Zenon
  <2> QED BY <2>1, <2>2, <2>3
<1>5. /\ ptr \in Nat /\ ptr # NULL /\ ptr \notin BusyOf(slabs)
      /\ PagePointer(ptr) = page
      /\ \A q \in BusyOf(slabs) :
           ptr + s.size <= q \/ q + slabs[PagePointer(q)].size <= ptr
      /\ t.size = s.size
      /\ DOMAIN now = DOMAIN slabs
      /\ SlabsOK(now) /\ BusyOf(now) = BusyOf(slabs) \cup {ptr}
  <2>1. /\ ptr \in Nat /\ ptr # NULL
        /\ ptr \notin BusyOf(slabs)
        /\ PagePointer(ptr) = page
        /\ \A q \in BusyOf(slabs) :
             ptr + s.size <= q \/ q + slabs[PagePointer(q)].size <= ptr
        /\ SlabTypeOK(t) /\ t.size = s.size
        /\ DOMAIN now = DOMAIN slabs
        /\ s.max_refs >= 2 => /\ SlabsOK(now)
                              /\ BusyOf(now) = BusyOf(slabs) \cup {ptr}
                              /\ AllocTouches(s) \subseteq Slots(s)
        /\ s.max_refs < 2 => ~(AllocTouches(s) \subseteq Slots(s))
    <3>1. page \in DOMAIN slabs /\ HasFreeSlot(slabs[page])
      BY <1>3, <1>4
    <3> HIDE DEF now, s, t, ptr, page
    <3> QED BY <1>1, <3>1, AllocOfOne DEF now, s, t, ptr
  <2> HIDE DEF now, s, t, ptr, page
  <2> QED BY <1>4, <2>1
<1>6. new.mem = w /\ new.ptr = ptr /\ new.fault = "none"
  BY <1>4 DEF FromFirst, Outcome, AfterAlloc, AllocReturns
<1>7. /\ now = [p \in DOMAIN now |-> now[p]]
      /\ \A p \in DOMAIN slabs : now[p].size = slabs[p].size
      /\ \A x \in Mapped(m) \ nodes[i] : now[x] = m.slabs[x]
  BY <1>1, <1>3, <1>5
<1> HIDE DEF now, s, t, ptr, page
<1>8. MemOK(w, CacheSizes)
  <2>1. CacheSizes \cup {i} = CacheSizes /\ CacheSizes \in SUBSET CacheSizes
    OBVIOUS
  <2>2. /\ IsList(l, DOMAIN now, own, balance) /\ DOMAIN now \subseteq Pages
        /\ DOMAIN now \ own = Mapped(m) \ nodes[i]
        /\ \A p \in own : now[p].size = i
        /\ \A x \in Mapped(m) \ nodes[i] : /\ now[x] = m.slabs[x]
                                          /\ l.next[x] = m.next[x]
                                          /\ l.prev[x] = m.prev[x]
    BY <1>1, <1>3, <1>5, <1>7
  <2>3. MemOK(w, CacheSizes \cup {i})
    BY <1>2, <1>5, <1>7, <2>1, <2>2, RelistedOK
  <2> QED BY <2>1, <2>3
<1>9. w.slabs = now /\ w.chunks = m.chunks /\ Mapped(w) = DOMAIN slabs
  BY <1>5 DEF WithPool, Mapped
<1> HIDE DEF w
<1>10. /\ Blocks(m) = m.chunks \cup BusyOf(slabs)
       /\ Blocks(w) = Blocks(m) \cup {ptr}
       /\ ptr \in BusyOf(now) /\ now[PagePointer(ptr)].size = i
  BY <1>1, <1>3, <1>4, <1>5, <1>7, <1>9 DEF Blocks, s
<1>11. ASSUME NEW q \in m.chunks
       PROVE  /\ q # ptr /\ ~IsSlabBlock(w, q) /\ ~IsSlabBlock(m, q)
              /\ \A r \in RequestSizes : ptr + i <= q \/ q + r <= ptr
  <2>1. q \in MallocPtrs
    BY <1>2
  <2>2. /\ PagePointer(q) \notin DOMAIN now /\ ptr # q
        /\ \A r \in RequestSizes :
             ptr + now[PagePointer(ptr)].size <= q \/ q + r <= ptr
    BY <1>1, <1>5, <1>10, <2>1, BusyAndChunk
  <2> QED BY <1>1, <1>5, <1>9, <1>10, <2>2 DEF IsSlabBlock
<1>12. ASSUME NEW q \in BusyOf(slabs)
       PROVE  /\ IsSlabBlock(w, q) /\ IsSlabBlock(m, q)
              /\ w.slabs[PagePointer(q)].size = m.slabs[PagePointer(q)].size
              /\ ptr + i <= q \/ q + m.slabs[PagePointer(q)].size <= ptr
              /\ q \in Nat /\ m.slabs[PagePointer(q)].size \in Nat
  <2>1. PagePointer(q) \in DOMAIN slabs /\ PagePointer(q) \in Mapped(m) /\ q \in Nat
    BY <1>1, <1>2, BusyFacts DEF Mapped
  <2>2. m.slabs[PagePointer(q)].size \in Nat
    BY <1>2, <2>1 DEF SlabsOK, WellFormed, Mapped
  <2> QED BY <1>1, <1>4, <1>5, <1>7, <1>9, <2>1, <2>2 DEF IsSlabBlock
<1>13. ASSUME NEW q \in Blocks(m)
       PROVE  /\ q # ptr /\ (IsSlabBlock(w, q) <=> IsSlabBlock(m, q))
              /\ \A r \in RequestSizes :
                   /\ Capacity(w, q, r) = Capacity(m, q, r)
                   /\ r <= Capacity(m, q, r) => ptr + size <= q \/ q + r <= ptr
  <2>1. size \in Nat /\ i \in Nat /\ ptr \in Nat /\ RequestSizes \subseteq Nat
    BY <1>4, <1>5, HeapFacts
  <2>2. CASE q \in m.chunks
    <3>1. q \in Nat
      BY <1>2, <2>2, HeapFacts
    <3> QED BY <1>11, <2>1, <2>2, <3>1 DEF Capacity
  <2>3. CASE q \in BusyOf(slabs)
    BY <1>5, <1>12, <2>1, <2>3 DEF Capacity
  <2> QED BY <1>10, <2>2, <2>3
<1>14. size <= Capacity(w, ptr, size)
  <2>1. IsSlabBlock(w, ptr) /\ w.slabs[PagePointer(ptr)].size = i
    BY <1>3, <1>5, <1>9, <1>10 DEF IsSlabBlock
  <2> QED BY <2>1 DEF Capacity
<1> HIDE DEF new
<1>15. Allocated(m, new, size)
  BY <1>5, <1>6, <1>8, <1>10, <1>13, <1>14 DEF Allocated
<1> QED BY <1>6, <1>15 DEF AllocOutcome, new

\* slab_pool_allocate: with the first slab, with the second, or with the first
\* of the new ones.
LEMMA ReadyFirst ==
  ASSUME NEW m, MemOK(m, CacheSizes), NEW nodes, ListsApart(m, nodes, CacheSizes),
         NEW i \in CacheSizes
  PROVE  Ready(m, nodes, i, ListOf(m, i), m.slabs, nodes[i], m.pools[i].balance)
<1>1. /\ m.slabs = [p \in Mapped(m) |-> m.slabs[p]] /\ Mapped(m) \subseteq Pages
      /\ SlabsOK(m.slabs)
  BY DEF MemOK, MemTypeOK
<1>2. /\ IsList(ListOf(m, i), Mapped(m), nodes[i], m.pools[i].balance)
      /\ \A p \in nodes[i] : m.slabs[p].size = i
  BY DEF ListsApart, OwnList
<1>3. ListOf(m, i).next = m.next /\ ListOf(m, i).prev = m.prev
  BY DEF ListOf
<1> HIDE DEF ListOf
<1> QED BY <1>1, <1>2, <1>3 DEF Ready, Mapped

LEMMA ReadySecond ==
  ASSUME NEW m, NEW nodes, NEW i, NEW l, NEW slabs, NEW own, NEW balance,
         Ready(m, nodes, i, l, slabs, own, balance)
  PROVE  Ready(m, nodes, i, SecondFirst(l), slabs, own, balance)
<1>1. /\ IsList(l, DOMAIN slabs, own, balance) /\ NULL \notin DOMAIN slabs
      /\ DOMAIN slabs \ own = Mapped(m) \ nodes[i]
  BY HeapFacts DEF Ready
<1>2. /\ IsList(SecondFirst(l), DOMAIN slabs, own, balance)
      /\ SameElsewhere(l, SecondFirst(l), DOMAIN slabs, own)
  BY <1>1, MoveToEndOK
<1>3. \A x \in Mapped(m) \ nodes[i] : /\ SecondFirst(l).next[x] = l.next[x]
                                    /\ SecondFirst(l).prev[x] = l.prev[x]
  BY <1>1, <1>2 DEF SameElsewhere
<1> QED BY <1>2, <1>3 DEF Ready

\* The list l of pool i with count new slabs in front.
Grown(m, nodes, i, l, balance, count, base) ==
  LET now == SeveralCreated(m.slabs, base, count, i) IN
  /\ Ready(m, nodes, i, SeveralLinked(l, base, count, l.start), now,
           nodes[i] \cup Region(base, count), balance + count)
  /\ ~IsFull(now[base])
  /\ SeveralLinked(l, base, count, l.start).start = base

LEMMA ReadyGrown ==
  ASSUME NEW m, MemOK(m, CacheSizes), NEW nodes, ListsApart(m, nodes, CacheSizes),
         NEW i \in CacheSizes,
         NEW l, NEW balance, Ready(m, nodes, i, l, m.slabs, nodes[i], balance),
         NEW count \in Nat \ {0}, NEW base \in MappableIn(Pages \ Mapped(m), count)
  PROVE  Grown(m, nodes, i, l, balance, count, base)
<1> DEFINE dom == DOMAIN m.slabs
           own == nodes[i]
           new == Region(base, count)
           now == SeveralCreated(m.slabs, base, count, i)
           k   == SeveralLinked(l, base, count, l.start)
<1>1. /\ Mapped(m) = dom /\ dom \subseteq Pages /\ NULL \notin dom
      /\ SlabsOK(m.slabs) /\ IsList(l, dom, own, balance) /\ own \subseteq dom
      /\ balance \in Nat
      /\ \A p \in own : m.slabs[p].size = i
      /\ \A x \in dom \ own : l.next[x] = m.next[x] /\ l.prev[x] = m.prev[x]
  BY HeapFacts DEF Ready, Mapped, IsList, ListTypeOK
<1>2. /\ new \subseteq Pages /\ new \cap dom = {} /\ \A p \in new : PageAligned(p)
      /\ i \in Nat \ {0} /\ base \in Nat \ {NULL} /\ PageSize = PageMask
  BY <1>1, HeapFacts DEF MappableIn
<1>3. /\ IsList(k, dom \cup new, own \cup new, count + balance)
      /\ k.start = base /\ base \in new
      /\ SameElsewhere(l, k, dom, own)
  <2> HIDE DEF dom, own, new
  <2> QED BY <1>1, <1>2, SeveralLinkedOK DEF new
<1>4. /\ DOMAIN now = dom \cup new /\ now = [p \in DOMAIN now |-> now[p]]
      /\ \A p \in dom : now[p] = m.slabs[p]
      /\ \A p \in new : now[p].size = i /\ now[p].ref_count = 0 /\ now[p].max_refs >= 2
      /\ SlabsOK(now) /\ BusyOf(now) = BusyOf(m.slabs)
  <2>1. Created(m.slabs, now, new, i)
    <3> HIDE DEF now, new
    <3> QED BY <1>1, <1>2, CreatedOK DEF now, new, dom
  <2> HIDE DEF now, new
  <2>2. NumBuffers(i) >= 1
    <3> DEFINE n == NumBuffers(i)
    <3>1. /\ n \in 0..4032 /\ i * n \in Nat /\ n <= i * n
          /\ 5 * (i * n) <= PageSize - HeaderSize
      BY <1>2, NumBuffersFit
    <3>2. n >= 2
      BY HeapFacts
    <3> HIDE DEF n
    <3>3. n >= 1
      BY <3>1, <3>2
    <3> QED BY <3>3, Zenon DEF n
  <2>3. SlabsOK(now) /\ BusyOf(now) = BusyOf(m.slabs)
    BY <1>1, <2>1, <2>2 DEF Created
  <2>4. ASSUME NEW p \in new
        PROVE  now[p].size = i /\ now[p].ref_count = 0 /\ now[p].max_refs >= 2
    <3>1. now[p].size = i /\ now[p].ref_count = 0 /\ p \in DOMAIN now
      BY <2>1 DEF Created
    <3>2. now[p].max_refs = NumBuffers(now[p].size)
      BY <2>3, <3>1 DEF SlabsOK, WellFormed
    <3>3. NumBuffers(i) >= 2
      BY HeapFacts
    <3>4. now[p].max_refs >= 2
      BY <3>1, <3>2, <3>3, Zenon
    <3> QED BY <3>1, <3>4
  <2> QED BY <1>1, <2>1, <2>3, <2>4 DEF Created
<1>5. ~IsFull(now[base])
  <2>1. now[base].ref_count = 0 /\ now[base].max_refs >= 2
    BY <1>3, <1>4
  <2> HIDE DEF now
  <2> QED BY <2>1 DEF IsFull
<1>6. count + balance = balance + count
  BY <1>1
<1>7. \A x \in dom \ own : k.next[x] = l.next[x] /\ k.prev[x] = l.prev[x]
  BY <1>3 DEF SameElsewhere
<1> HIDE DEF now, k, own, dom, new
<1>8. Ready(m, nodes, i, k, now, own \cup new, balance + count)
  <2>1. IsList(k, DOMAIN now, own \cup new, balance + count)
    BY <1>3, <1>4, <1>6
  <2>2. /\ Mapped(m) \subseteq DOMAIN now /\ DOMAIN now \subseteq Pages
        /\ DOMAIN now \ (own \cup new) = Mapped(m) \ own
    BY <1>1, <1>2, <1>4
  <2>3. \A p \in own \cup new : now[p].size = i
    BY <1>1, <1>4
  <2> QED BY <1>1, <1>4, <1>7, <2>1, <2>2, <2>3 DEF Ready, own
<1> QED BY <1>3, <1>5, <1>8 DEF k, own, new, now, Grown

LEMMA PoolAllocateOK ==
  ASSUME NEW m, MemOK(m, CacheSizes), NEW i \in CacheSizes,
         NEW new \in PoolAllocate(m, i), NEW size \in RequestSizes, size <= i
  PROVE  AllocOutcome(m, new, size)
<1> DEFINE l       == ListOf(m, i)
           balance == m.pools[i].balance
           count   == heuristic_decision_grow_count
           bases   == MappableIn(Pages \ Mapped(m), count)
           grown(base) == FromFirst(m, i,
             SeveralLinked(ThirdFirst(l), base, count, ThirdFirst(l).start),
             SeveralCreated(m.slabs, base, count, i),
             balance + count)
<1>1. PICK nodes : ListsApart(m, nodes, CacheSizes)
  BY DEF MemOK
<1>2. Ready(m, nodes, i, l, m.slabs, nodes[i], balance)
  BY <1>1, ReadyFirst
<1> HIDE DEF l, balance
<1>3. Ready(m, nodes, i, SecondFirst(l), m.slabs, nodes[i], balance)
  BY <1>2, ReadySecond
<1>4. Ready(m, nodes, i, ThirdFirst(l), m.slabs, nodes[i], balance)
  <2> DEFINE k == SecondFirst(l)
  <2>1. Ready(m, nodes, i, k, m.slabs, nodes[i], balance)
    BY <1>3
  <2> HIDE DEF k
  <2>2. Ready(m, nodes, i, SecondFirst(k), m.slabs, nodes[i], balance)
    BY <2>1, ReadySecond
  <2> QED BY <2>2 DEF k, ThirdFirst, SecondFirst
<1>5. \/ /\ ~IsFull(m.slabs[l.start])
         /\ new = FromFirst(m, i, l, m.slabs, balance)
      \/ /\ IsFull(m.slabs[l.start]) /\ ~FirstTwoFull(l, m.slabs)
         /\ new = FromFirst(m, i, SecondFirst(l), m.slabs, balance)
      \/ new = Outcome(m, NULL, "mmap failed")
      \/ \E base \in bases : new = grown(base)
  BY Zenon DEF PoolAllocate, l, balance
<1>6. CASE ~IsFull(m.slabs[l.start]) /\ new = FromFirst(m, i, l, m.slabs, balance)
  BY <1>1, <1>2, <1>6, FromFirstOK
<1>7. CASE /\ IsFull(m.slabs[l.start]) /\ ~FirstTwoFull(l, m.slabs)
           /\ new = FromFirst(m, i, SecondFirst(l), m.slabs, balance)
  <2>1. ~IsFull(m.slabs[SecondFirst(l).start])
    BY <1>7 DEF FirstTwoFull
  <2> QED BY <1>1, <1>3, <1>7, <2>1, FromFirstOK
<1>8. CASE new = Outcome(m, NULL, "mmap failed")
  BY <1>8 DEF AllocOutcome, Outcome
<1>9. CASE \E base \in bases : new = grown(base)
  <2>1. PICK base \in bases : new = grown(base)
    BY <1>9
  <2> DEFINE k   == ThirdFirst(l)
             q   == SeveralLinked(k, base, count, k.start)
             now == SeveralCreated(m.slabs, base, count, i)
             own == nodes[i] \cup Region(base, count)
  <2>2. /\ Ready(m, nodes, i, k, m.slabs, nodes[i], balance) /\ count \in Nat \ {0}
        /\ base \in MappableIn(Pages \ Mapped(m), count)
    BY <1>4, HeapFacts
  <2> HIDE DEF k, count, bases
  <2>3. Grown(m, nodes, i, k, balance, count, base)
    BY <1>1, <2>2, ReadyGrown
  <2>4. /\ Ready(m, nodes, i, q, now, own, balance + count)
        /\ ~IsFull(now[base]) /\ q.start = base
    BY <2>3 DEF Grown
  <2> HIDE DEF q, now, own
  <2>5. AllocOutcome(m, FromFirst(m, i, q, now, balance + count), size)
    <3> DEFINE b == balance + count
    <3>1. Ready(m, nodes, i, q, now, own, b) /\ ~IsFull(now[q.start])
      BY <2>4
    <3> HIDE DEF b
    <3>2. AllocOutcome(m, FromFirst(m, i, q, now, b), size)
      BY <1>1, <3>1, FromFirstOK
    <3> QED BY <3>2 DEF b
  <2>6. new = FromFirst(m, i, q, now, balance + count)
    BY <2>1 DEF q, k, now
  <2> QED BY <2>5, <2>6
<1> QED BY <1>5, <1>6, <1>7, <1>8, <1>9

-----------------------------------------------------------------------------
\* The C library gives and takes blocks: the slabs do not notice.
LEMMA ChunkedOK ==
  ASSUME NEW m, NEW made, MemOK(m, made), NEW chunks \in SUBSET MallocPtrs
  PROVE  LET w == [m EXCEPT !.chunks = chunks] IN
         /\ MemOK(w, made)
         /\ w.slabs = m.slabs /\ w.chunks = chunks /\ Mapped(w) = Mapped(m)
         /\ Blocks(w) = chunks \cup BusyOf(m.slabs)
         /\ \A q, s : /\ IsSlabBlock(w, q) <=> IsSlabBlock(m, q)
                      /\ Capacity(w, q, s) = Capacity(m, q, s)
<1> DEFINE w == [m EXCEPT !.chunks = chunks]
<1>1. MemTypeOK(m) /\ SlabsOK(m.slabs) /\ Acyclic(m.next, Mapped(m))
  BY DEF MemOK
<1>2. /\ w = [slabs |-> w.slabs, next |-> w.next, prev |-> w.prev,
              chunks |-> w.chunks, pools |-> w.pools]
      /\ w.slabs = m.slabs /\ w.next = m.next /\ w.prev = m.prev
      /\ w.chunks = chunks /\ w.pools = m.pools
  BY <1>1, ChunksFields
<1> HIDE DEF w
<1>3. Mapped(w) = Mapped(m)
  BY <1>2 DEF Mapped
<1>4. MemTypeOK(w)
  BY <1>1, <1>2, <1>3 DEF MemTypeOK
<1>5. PICK nodes : ListsApart(m, nodes, made)
  BY DEF MemOK
<1>6. ListsApart(w, nodes, made)
  <2>1. \A i : ListOf(w, i) = ListOf(m, i)
    BY <1>2 DEF ListOf
  <2>2. Lost(w, nodes) = Lost(m, nodes)
    BY <1>3 DEF Lost
  <2>3. \A i : OwnList(w, nodes, i) <=> OwnList(m, nodes, i)
    BY <1>2, <1>3, <2>1 DEF OwnList
  <2> QED BY <1>2, <1>3, <1>5, <2>2, <2>3 DEF ListsApart
<1>7. MemOK(w, made)
  BY <1>1, <1>2, <1>3, <1>4, <1>6 DEF MemOK
<1>8. \A q, s : /\ IsSlabBlock(w, q) <=> IsSlabBlock(m, q)
                /\ Capacity(w, q, s) = Capacity(m, q, s)
  BY <1>2, <1>3 DEF IsSlabBlock, Capacity
<1> QED BY <1>2, <1>3, <1>7, <1>8 DEF w, Blocks

\* A block of the C library overlaps nothing in use.
LEMMA ChunkIsApart ==
  ASSUME NEW m, MemOK(m, CacheSizes), NEW ptr \in MallocPtrs, NEW size \in RequestSizes,
         NEW q \in Blocks(m), q # ptr, NEW s \in RequestSizes, s <= Capacity(m, q, s)
  PROVE  ptr + size <= q \/ q + s <= ptr
<1>1. /\ SlabsOK(m.slabs) /\ Mapped(m) \subseteq Pages /\ m.chunks \subseteq MallocPtrs
  BY DEF MemOK, MemTypeOK
<1>2. ptr \in Nat /\ s \in Nat
  BY HeapFacts
<1>3. CASE q \in m.chunks
  <2>1. q \in MallocPtrs /\ q \in Nat
    BY <1>1, <1>3, HeapFacts
  <2>2. ptr < q \/ q < ptr
    BY <1>2, <2>1
  <2>3. (ptr < q => ptr + size <= q) /\ (q < ptr => q + s <= ptr)
    BY <2>1, SmallocAssumption
  <2> QED BY <2>2, <2>3
<1>4. CASE q \in BusyOf(m.slabs)
  <2>1. /\ PagePointer(q) \in Mapped(m)
        /\ q + m.slabs[PagePointer(q)].size <= ptr \/ ptr + size <= q
    BY <1>1, <1>4, BusyAndChunk DEF Mapped
  <2>2. s <= m.slabs[PagePointer(q)].size
    BY <2>1 DEF Capacity, IsSlabBlock
  <2>3. q \in Nat /\ m.slabs[PagePointer(q)].size \in Nat
    BY <1>1, <1>4, <2>1, BusyFacts DEF SlabsOK, WellFormed, Mapped
  <2> QED BY <1>2, <2>1, <2>2, <2>3
<1> QED BY <1>3, <1>4 DEF Blocks

\* A block of the C library that is not in use is no buffer in use either.
LEMMA ChunkIsFree ==
  ASSUME NEW m, MemOK(m, CacheSizes), NEW ptr \in MallocPtrs
  PROVE  /\ ptr \notin BusyOf(m.slabs) /\ ~IsSlabBlock(m, ptr)
         /\ ptr \in Nat \ {NULL}
<1>1. /\ SlabsOK(m.slabs) /\ Mapped(m) \subseteq Pages
  BY DEF MemOK, MemTypeOK
<1>2. ptr \in BusyOf(m.slabs) => PagePointer(ptr) \in Mapped(m)
  BY <1>1, BusyFacts DEF Mapped
<1> QED BY <1>1, <1>2, HeapFacts, SmallocAssumption DEF IsSlabBlock

\* malloc of the C library.
LEMMA MallocedOK ==
  ASSUME NEW m, MemOK(m, CacheSizes), NEW new \in Malloced(m), NEW size \in RequestSizes
  PROVE  AllocOutcome(m, new, size)
<1>1. CASE new = Outcome(m, NULL, "none")
  BY <1>1 DEF AllocOutcome, Outcome
<1>2. CASE new # Outcome(m, NULL, "none")
  <2>1. PICK ptr \in MallocPtrs \ m.chunks :
          new = Outcome([m EXCEPT !.chunks = @ \cup {ptr}], ptr, "none")
    BY <1>2 DEF Malloced
  <2> DEFINE chunks == m.chunks \cup {ptr}
             w      == [m EXCEPT !.chunks = chunks]
  <2>2. chunks \in SUBSET MallocPtrs
    BY DEF MemOK, MemTypeOK
  <2>3. new.mem = w /\ new.ptr = ptr /\ new.fault = "none"
    BY <2>1 DEF Outcome
  <2> HIDE DEF chunks
  <2>4. /\ MemOK(w, CacheSizes)
        /\ Blocks(w) = chunks \cup BusyOf(m.slabs)
        /\ \A q, s : /\ IsSlabBlock(w, q) <=> IsSlabBlock(m, q)
                     /\ Capacity(w, q, s) = Capacity(m, q, s)
    BY <2>2, ChunkedOK
  <2> HIDE DEF w
  <2>5. ptr \notin BusyOf(m.slabs) /\ ~IsSlabBlock(m, ptr) /\ ptr \in Nat \ {NULL}
    BY ChunkIsFree
  <2>6. Blocks(w) = Blocks(m) \cup {ptr} /\ ptr \notin Blocks(m)
    BY <2>4, <2>5 DEF Blocks, chunks
  <2>7. size <= Capacity(w, ptr, size)
    BY <2>4, <2>5, HeapFacts DEF Capacity
  <2>8. ASSUME NEW q \in Blocks(m), NEW s \in RequestSizes, s <= Capacity(m, q, s)
        PROVE  ptr + size <= q \/ q + s <= ptr
    BY <2>6, <2>8, ChunkIsApart
  <2>9. Allocated(m, new, size)
    BY <2>3, <2>4, <2>5, <2>6, <2>7, <2>8 DEF Allocated
  <2> QED BY <2>3, <2>9 DEF AllocOutcome
<1> QED BY <1>1, <1>2

\* smalloc takes a pool whose buffers are large enough.
LEMMA FirstSuitable ==
  ASSUME NEW size \in RequestSizes, Suitable(size) # {}
  PROVE  Min(Suitable(size)) \in CacheSizes /\ size <= Min(Suitable(size))
<1>1. Suitable(size) \in SUBSET Nat
  BY HeapFacts DEF Suitable
<1>2. \E x \in Suitable(size) : \A y \in Suitable(size) : x <= y
  BY <1>1, LeastElement
<1>3. Min(Suitable(size)) \in Suitable(size)
  BY <1>2 DEF Min
<1> QED BY <1>3 DEF Suitable

LEMMA SmallocOfOK ==
  ASSUME NEW m, MemOK(m, CacheSizes), NEW size \in RequestSizes,
         NEW new \in SmallocOf(m, size)
  PROVE  AllocOutcome(m, new, size)
<1>1. CASE Suitable(size) = {}
  BY <1>1, MallocedOK DEF SmallocOf
<1>2. CASE Suitable(size) # {}
  <2> DEFINE i == Min(Suitable(size))
  <2>1. i \in CacheSizes /\ size <= i
    BY <1>2, FirstSuitable
  <2>2. new \in PoolAllocate(m, i)
    BY <1>2 DEF SmallocOf
  <2> HIDE DEF i
  <2> QED BY <2>1, <2>2, PoolAllocateOK
<1> QED BY <1>1, <1>2

-----------------------------------------------------------------------------
\* What sfree(ptr) comes to: the block is no longer in use, the others are
\* where they were.
Freed(m, new, ptr) ==
  /\ new.fault = "none"
  /\ MemOK(new.mem, CacheSizes)
  /\ Blocks(new.mem) = Blocks(m) \ {ptr}
  /\ \A q \in Blocks(m) \ {ptr}, s \in RequestSizes :
       Capacity(new.mem, q, s) = Capacity(m, q, s)

\* The slab of a busy buffer is on the list of the pool of its size.
LEMMA SlabOfBusy ==
  ASSUME NEW m, MemOK(m, CacheSizes), NEW nodes, ListsApart(m, nodes, CacheSizes),
         NEW ptr \in BusyOf(m.slabs)
  PROVE  /\ PoolOf(m, ptr) \in CacheSizes
         /\ PagePointer(ptr) \in nodes[PoolOf(m, ptr)]
<1> DEFINE slab == PagePointer(ptr)
           s    == m.slabs[slab]
<1>1. slab \in Mapped(m) /\ BusySlots(s) # {}
  BY BusyFacts DEF MemOK, Mapped
<1>2. WellFormed(slab, s)
  BY <1>1 DEF MemOK, SlabsOK, Mapped
<1>3. s.ref_count # 0
  <2> HIDE DEF s, slab
  <2> QED BY <1>1, <1>2, EmptySlab
<1>4. slab \notin Lost(m, nodes)
  BY <1>3 DEF ListsApart
<1>5. PICK i \in CacheSizes : slab \in nodes[i]
  BY <1>1, <1>4 DEF Lost
<1>6. s.size = i
  BY <1>5 DEF ListsApart, OwnList
<1> QED BY <1>5, <1>6 DEF PoolOf

\* The rest of the buffers are of the size they had.
LEMMA FreedCapacities ==
  ASSUME NEW m, MemOK(m, CacheSizes), NEW w, NEW ptr \in BusyOf(m.slabs),
         Mapped(w) \subseteq Mapped(m), w.chunks = m.chunks,
         BusyOf(w.slabs) = BusyOf(m.slabs) \ {ptr}, SlabsOK(w.slabs),
         \A p \in Mapped(w) : w.slabs[p].size = m.slabs[p].size
  PROVE  /\ Blocks(w) = Blocks(m) \ {ptr}
         /\ \A q \in Blocks(m) \ {ptr} : \A s : Capacity(w, q, s) = Capacity(m, q, s)
<1>1. /\ SlabsOK(m.slabs) /\ m.chunks \subseteq MallocPtrs
  BY DEF MemOK, MemTypeOK
<1>2. \A q \in m.chunks : q # ptr /\ ~IsSlabBlock(m, q) /\ ~IsSlabBlock(w, q)
  <2> SUFFICES ASSUME NEW q \in m.chunks
               PROVE  q # ptr /\ ~IsSlabBlock(m, q) /\ ~IsSlabBlock(w, q)
    OBVIOUS
  <2>1. q \in MallocPtrs
    BY <1>1
  <2>2. q \notin BusyOf(m.slabs) /\ ~IsSlabBlock(m, q)
    BY <2>1, ChunkIsFree
  <2> QED BY <2>2 DEF IsSlabBlock
<1>3. \A q \in BusyOf(m.slabs) : IsSlabBlock(m, q)
  BY <1>1, BusyFacts DEF IsSlabBlock, Mapped
<1>4. \A q \in BusyOf(w.slabs) : IsSlabBlock(w, q)
  BY BusyFacts DEF IsSlabBlock, Mapped
<1> QED BY <1>2, <1>3, <1>4 DEF Blocks, Capacity, IsSlabBlock

LEMMA PoolDeallocateOK ==
  ASSUME NEW m, MemOK(m, CacheSizes), NEW ptr \in BusyOf(m.slabs)
  PROVE  Freed(m, PoolDeallocate(m, PoolOf(m, ptr), ptr), ptr)
<1> DEFINE i       == PoolOf(m, ptr)
           dom     == DOMAIN m.slabs
           slab    == PagePointer(ptr)
           given   == SlabDealloc(m.slabs[slab], SlotOf(m.slabs[slab], ptr))
           list    == ListOf(m, i)
           l       == MoveToStart(list, slab)
           balance == m.pools[i].balance
           rest    == [p \in Mapped(m) \ {slab} |-> m.slabs[p]]
           now     == [m.slabs EXCEPT ![slab] = given]
           unmaps  == /\ given.ref_count = 0
                      /\ ~IsLonely(l, slab)
                      /\ heuristic_decision_does_free_slab(balance)
           gone    == WithPool(m, i, Unlinked(l, slab), rest, BalanceWithout(balance))
           kept    == WithPool(m, i, l, now, balance)
<1>1. PICK nodes : ListsApart(m, nodes, CacheSizes)
  BY DEF MemOK
<1>2. /\ MemTypeOK(m) /\ SlabsOK(m.slabs) /\ Acyclic(m.next, Mapped(m))
      /\ m.slabs = [p \in dom |-> m.slabs[p]] /\ dom \subseteq Pages /\ Mapped(m) = dom
      /\ NULL \notin dom
  BY HeapFacts DEF MemOK, MemTypeOK, Mapped
<1>3. i \in CacheSizes /\ slab \in nodes[i]
  BY <1>1, SlabOfBusy
<1>4. /\ IsList(list, dom, nodes[i], balance)
      /\ \A p \in nodes[i] : m.slabs[p].size = i
      /\ nodes[i] \subseteq dom
      /\ list.next = m.next /\ list.prev = m.prev
  BY <1>1, <1>2, <1>3 DEF ListsApart, OwnList, ListOf
<1>5. /\ slab \in dom
      /\ given.size = m.slabs[slab].size
      /\ SlabsOK(now) /\ BusyOf(now) = BusyOf(m.slabs) \ {ptr}
      /\ given.ref_count = 0 => SlabsOK(rest) /\ BusyOf(rest) = BusyOf(m.slabs) \ {ptr}
  <2> HIDE DEF i, list, l, balance, unmaps, gone, kept
  <2> QED BY <1>2, DeallocOfOne
<1> HIDE DEF list, i, slab, given, dom, balance
<1>6. /\ IsList(l, dom, nodes[i], balance)
      /\ SameElsewhere(list, l, dom, nodes[i])
      /\ l.start = slab
      /\ IsLonely(l, slab) <=> balance = 1
      /\ list.start # slab => list.prev[slab] # NULL
  BY <1>2, <1>3, <1>4, MoveToStartOK
<1>7. ~FollowsNull(list, slab)
  BY <1>6 DEF FollowsNull
<1>8. ASSUME NEW x \in dom \ nodes[i]
      PROVE  /\ l.next[x] = m.next[x] /\ l.prev[x] = m.prev[x]
             /\ m.next[x] \in (dom \ nodes[i]) \cup {NULL}
             /\ m.prev[x] \in (dom \ nodes[i]) \cup {NULL}
  <2>1. l.next[x] = m.next[x] /\ l.prev[x] = m.prev[x]
    BY <1>4, <1>6 DEF SameElsewhere
  <2>2. CacheSizes \in SUBSET CacheSizes
    OBVIOUS
  <2> QED BY <1>1, <1>2, <1>3, <2>1, <2>2, LinksStay
<1> HIDE DEF l
<1>9. balance \in Nat \ {0}
  BY <1>4 DEF IsList
<1>10. CASE unmaps
  <2>1. /\ given.ref_count = 0 /\ balance # 1 /\ SlabsOK(rest)
        /\ BusyOf(rest) = BusyOf(m.slabs) \ {ptr}
    BY <1>5, <1>6, <1>10
  <2>2. PoolDeallocate(m, i, ptr) = Outcome(gone, NULL, "none")
    BY <1>7, <1>10 DEF PoolDeallocate, l, list, slab, given, balance
  <2> DEFINE u   == Unlinked(l, slab)
             own == nodes[i] \ {slab}
             n   == BalanceWithout(balance)
  <2>3. n = balance - 1
    BY DEF BalanceWithout
  <2>4. /\ IsList(u, dom \ {slab}, own, n)
        /\ SameElsewhere(l, u, dom \ {slab}, own)
    <3>1. \A x \in dom \ nodes[i] : l.next[x] # l.start /\ l.prev[x] # l.start
      BY <1>2, <1>3, <1>4, <1>6, <1>8
    <3>2. LET k == Unlinked(l, l.start) IN
          /\ IsList(k, dom \ {l.start}, nodes[i] \ {l.start}, balance - 1)
          /\ SameElsewhere(l, k, dom \ {l.start}, nodes[i] \ {l.start})
      BY <1>2, <1>6, <2>1, <3>1, UnlinkedOK
    <3> QED BY <1>6, <2>3, <3>2
  <2>5. /\ DOMAIN rest = dom \ {slab} /\ rest = [p \in DOMAIN rest |-> rest[p]]
        /\ DOMAIN rest \ own = Mapped(m) \ nodes[i]
        /\ \A p \in DOMAIN rest : rest[p] = m.slabs[p]
    BY <1>2, <1>3, <1>4
  <2> HIDE DEF rest, u, n
  <2>6. \A x \in Mapped(m) \ nodes[i] : /\ rest[x] = m.slabs[x]
                                       /\ u.next[x] = m.next[x]
                                       /\ u.prev[x] = m.prev[x]
    BY <1>2, <1>3, <1>8, <2>4, <2>5 DEF SameElsewhere
  <2>7. MemOK(gone, CacheSizes)
    <3>1. /\ IsList(u, DOMAIN rest, own, n) /\ DOMAIN rest \subseteq Pages
          /\ \A p \in own : rest[p].size = i
      BY <1>2, <1>4, <2>4, <2>5
    <3>2. CacheSizes \in SUBSET CacheSizes /\ CacheSizes \cup {i} = CacheSizes
      BY <1>3
    <3> HIDE DEF own
    <3>3. MemOK(WithPool(m, i, u, rest, n), CacheSizes \cup {i})
      BY <1>1, <1>2, <1>3, <2>1, <2>5, <2>6, <3>1, <3>2, RelistedOK
    <3> QED BY <3>2, <3>3 DEF u, n
  <2>8. gone.slabs = rest /\ gone.chunks = m.chunks
    BY DEF WithPool
  <2> HIDE DEF gone
  <2>9. /\ Blocks(gone) = Blocks(m) \ {ptr}
        /\ \A q \in Blocks(m) \ {ptr} : \A s : Capacity(gone, q, s) = Capacity(m, q, s)
    <3>1. Mapped(gone) \subseteq Mapped(m)
          /\ \A p \in Mapped(gone) : gone.slabs[p].size = m.slabs[p].size
      BY <1>2, <2>5, <2>8 DEF Mapped
    <3> QED BY <2>1, <2>8, <3>1, FreedCapacities
  <2>10. Freed(m, Outcome(gone, NULL, "none"), ptr)
    BY <2>7, <2>9 DEF Freed, Outcome
  <2> QED BY <2>2, <2>10 DEF i
<1>11. CASE ~unmaps
  <2>1. PoolDeallocate(m, i, ptr) = Outcome(kept, NULL, "none")
    BY <1>7, <1>11 DEF PoolDeallocate, l, list, slab, given, balance
  <2>2. /\ DOMAIN now = dom /\ now = [p \in DOMAIN now |-> now[p]]
        /\ \A p \in dom : now[p].size = m.slabs[p].size
        /\ \A p \in dom \ {slab} : now[p] = m.slabs[p]
    BY <1>2, <1>5
  <2> HIDE DEF now
  <2>3. MemOK(kept, CacheSizes)
    <3>1. /\ IsList(l, DOMAIN now, nodes[i], balance) /\ DOMAIN now \subseteq Pages
          /\ \A p \in nodes[i] : now[p].size = i
          /\ DOMAIN now \ nodes[i] = Mapped(m) \ nodes[i]
          /\ \A x \in Mapped(m) \ nodes[i] : /\ now[x] = m.slabs[x]
                                            /\ l.next[x] = m.next[x]
                                            /\ l.prev[x] = m.prev[x]
      BY <1>2, <1>3, <1>4, <1>6, <1>8, <2>2
    <3>2. CacheSizes \in SUBSET CacheSizes /\ CacheSizes \cup {i} = CacheSizes
      BY <1>3
    <3>3. MemOK(WithPool(m, i, l, now, balance), CacheSizes \cup {i})
      BY <1>1, <1>2, <1>3, <1>5, <2>2, <3>1, <3>2, RelistedOK
    <3> QED BY <3>2, <3>3
  <2>4. kept.slabs = now /\ kept.chunks = m.chunks
    BY DEF WithPool
  <2> HIDE DEF kept
  <2>5. /\ Blocks(kept) = Blocks(m) \ {ptr}
        /\ \A q \in Blocks(m) \ {ptr} : \A s : Capacity(kept, q, s) = Capacity(m, q, s)
    <3>1. Mapped(kept) \subseteq Mapped(m)
          /\ \A p \in Mapped(kept) : kept.slabs[p].size = m.slabs[p].size
      BY <1>2, <2>2, <2>4 DEF Mapped
    <3> QED BY <1>5, <2>4, <3>1, FreedCapacities
  <2>6. Freed(m, Outcome(kept, NULL, "none"), ptr)
    BY <2>3, <2>5 DEF Freed, Outcome
  <2> QED BY <2>1, <2>6 DEF i
<1> QED BY <1>10, <1>11

LEMMA SfreeOfOK ==
  ASSUME NEW m, MemOK(m, CacheSizes), NEW ptr \in Blocks(m)
  PROVE  Freed(m, SfreeOf(m, ptr), ptr)
<1>1. SlabsOK(m.slabs) /\ m.chunks \in SUBSET MallocPtrs
  BY DEF MemOK, MemTypeOK
<1>2. CASE ptr \in BusyOf(m.slabs)
  <2>1. IsSlabBlock(m, ptr)
    BY <1>1, <1>2, BusyFacts DEF IsSlabBlock, Mapped
  <2> QED BY <1>2, <2>1, PoolDeallocateOK DEF SfreeOf
<1>3. CASE ptr \in m.chunks
  <2>1. ptr \notin BusyOf(m.slabs) /\ ~IsSlabBlock(m, ptr)
    BY <1>1, <1>3, ChunkIsFree
  <2> DEFINE chunks == m.chunks \ {ptr}
             w      == [m EXCEPT !.chunks = chunks]
  <2>2. SfreeOf(m, ptr) = Outcome(w, NULL, "none")
    BY <2>1 DEF SfreeOf
  <2>3. chunks \in SUBSET MallocPtrs
    BY <1>1
  <2> HIDE DEF chunks
  <2>4. /\ MemOK(w, CacheSizes)
        /\ Blocks(w) = chunks \cup BusyOf(m.slabs)
        /\ \A q, s : Capacity(w, q, s) = Capacity(m, q, s)
    BY <2>3, ChunkedOK
  <2> HIDE DEF w
  <2>5. Blocks(w) = Blocks(m) \ {ptr}
    BY <2>1, <2>4 DEF Blocks, chunks
  <2>6. Freed(m, Outcome(w, NULL, "none"), ptr)
    BY <2>4, <2>5 DEF Freed, Outcome
  <2> QED BY <2>2, <2>6
<1> QED BY <1>2, <1>3 DEF Blocks

-----------------------------------------------------------------------------
(* The program's calls: each leaves the invariant in place and is a step   *)
(* of the heap.                                                            *)
HeldTypes == [size : RequestSizes, data : Values \cup {Junk}]

\* What fault can be.
Faults == {"none", "mmap failed", "malloc failed", "bufctls overwritten"}

LEMMA UsableMemory ==
  ASSUME SmallocInv, Usable
  PROVE  /\ MemOK(mem, CacheSizes) /\ HeldOK
         /\ inits \in 0..MaxInits /\ inits # 0
         /\ DOMAIN held = Blocks(mem)
         /\ held = [ptr \in DOMAIN held |-> held[ptr]]
         /\ \A ptr \in DOMAIN held :
              /\ held[ptr] \in HeldTypes /\ held[ptr].size \in RequestSizes
              /\ held[ptr].size <= Capacity(mem, ptr, held[ptr].size)
<1>1. inits \in 0..MaxInits /\ inits # 0
  <2>1. inits \in 0..MaxInits /\ inits > 0 /\ MaxInits \in Nat
    BY SmallocAssumption DEF SmallocInv, Usable
  <2> QED BY <2>1
<1> QED BY <1>1 DEF SmallocInv, Made, HeldOK, HeldTypes

LEMMA InvAfterCall ==
  ASSUME SmallocInv, Usable, inits' = inits, MemOK(mem', CacheSizes), HeldOK',
         Uncovered', fault' \in Faults
  PROVE  SmallocInv'
<1>1. inits \in 0..MaxInits /\ inits # 0
  BY UsableMemory
<1>2. Made' = CacheSizes
  BY <1>1 DEF Made
<1> QED BY <1>1, <1>2 DEF SmallocInv, NoOverflowNoNull, Faults

\* Nothing but fault changes.
LEMMA InvUnchanged ==
  ASSUME SmallocInv, UNCHANGED <<mem, held, inits>>,
         fault' \in Faults, fault' = "none" => fault = "none"
  PROVE  SmallocInv'
<1>1. Made' = Made
  BY DEF Made
<1>2. HeldOK'
  BY DEF SmallocInv, HeldOK
<1>3. Uncovered'
  BY DEF SmallocInv, Uncovered
<1> QED BY <1>1, <1>2, <1>3 DEF SmallocInv, NoOverflowNoNull, Faults

\* The bytes a block shares with bufctls are those of its slab's size: a
\* block that stays where it is has the same ones, whatever a call has done.
LEMMA SameLayout ==
  ASSUME NEW m, NEW w, MemOK(m, CacheSizes), MemOK(w, CacheSizes),
         NEW q \in Blocks(m), q \in Blocks(w),
         NEW s, Capacity(w, q, s) = Capacity(m, q, s)
  PROVE  OverBufctls(w, q) <=> OverBufctls(m, q)
<1>1. \A v \in {m, w} :
        /\ IsSlabBlock(v, q) <=> q \notin MallocPtrs
        /\ IsSlabBlock(v, q) => v.slabs[PagePointer(q)].max_refs
                                = NumBuffers(v.slabs[PagePointer(q)].size)
  <2> SUFFICES ASSUME NEW v, MemOK(v, CacheSizes), q \in Blocks(v)
               PROVE  /\ IsSlabBlock(v, q) <=> q \notin MallocPtrs
                      /\ IsSlabBlock(v, q) => v.slabs[PagePointer(q)].max_refs
                                = NumBuffers(v.slabs[PagePointer(q)].size)
    OBVIOUS
  <2>1. SlabsOK(v.slabs) /\ v.chunks \subseteq MallocPtrs
    BY DEF MemOK, MemTypeOK
  <2>2. q \in MallocPtrs => ~IsSlabBlock(v, q)
    BY ChunkIsFree
  <2>3. q \in BusyOf(v.slabs) => IsSlabBlock(v, q)
    BY <2>1, BusyFacts DEF IsSlabBlock, Mapped
  <2>4. q \notin MallocPtrs => q \in BusyOf(v.slabs)
    BY <2>1 DEF Blocks
  <2>5. IsSlabBlock(v, q) => v.slabs[PagePointer(q)].max_refs
                            = NumBuffers(v.slabs[PagePointer(q)].size)
    BY <2>1 DEF SlabsOK, WellFormed, IsSlabBlock, Mapped
  <2> QED BY <2>2, <2>3, <2>4, <2>5
<1>2. IsSlabBlock(w, q) <=> IsSlabBlock(m, q)
  BY <1>1
<1>3. CASE IsSlabBlock(m, q)
  <2>1. w.slabs[PagePointer(q)].size = m.slabs[PagePointer(q)].size
    BY <1>2, <1>3 DEF Capacity
  <2>2. w.slabs[PagePointer(q)].max_refs = m.slabs[PagePointer(q)].max_refs
    BY <1>1, <1>2, <1>3, <2>1
  <2> QED BY <1>2, <1>3, <2>2 DEF OverBufctls, IsSlabBlock
<1>4. CASE ~IsSlabBlock(m, q)
  BY <1>2, <1>4 DEF OverBufctls, IsSlabBlock
<1> QED BY <1>3, <1>4

\* In w the block at ptr takes the place of those in old, of which there is
\* at most one.
Replaces(w, old, ptr, block) ==
  /\ ptr \in Nat \ {NULL} /\ ptr \notin DOMAIN held \ old
  /\ block \in HeldTypes
  /\ Blocks(w) = (DOMAIN held \ old) \cup {ptr}
  /\ block.size <= Capacity(w, ptr, block.size)
  /\ \A q \in DOMAIN held \ old, s \in RequestSizes :
       /\ Capacity(w, q, s) = Capacity(mem, q, s)
       /\ s <= Capacity(mem, q, s) => ptr + block.size <= q \/ q + s <= ptr

LEMMA HoldingOK ==
  ASSUME SmallocInv, Usable, NEW old, NEW ptr, NEW block,
         MemOK(mem', CacheSizes), Replaces(mem', old, ptr, block),
         block.data # Junk => ~OverBufctls(mem', ptr),
         held' = [q \in (DOMAIN held \ old) \cup {ptr} |->
                    IF q = ptr THEN block ELSE held[q]]
  PROVE  /\ HeldOK' /\ Uncovered'
         /\ ptr \in DOMAIN held' /\ held'[ptr] = block
         /\ TheHeap!Fits(ptr, block.size, DOMAIN held \ old)
         /\ held' = TheHeap!With(DOMAIN held \ old, ptr, block)
<1> DEFINE others == DOMAIN held \ old
           w      == mem'
<1>0. /\ ptr \notin others /\ block \in HeldTypes
      /\ Blocks(w) = others \cup {ptr}
      /\ block.size <= Capacity(w, ptr, block.size)
      /\ \A q \in others, s \in RequestSizes :
           /\ Capacity(w, q, s) = Capacity(mem, q, s)
           /\ s <= Capacity(mem, q, s) => ptr + block.size <= q \/ q + s <= ptr
  BY DEF Replaces
<1>1. \A q \in others : /\ held[q] \in HeldTypes /\ held[q].size \in RequestSizes
                        /\ held[q].size <= Capacity(mem, q, held[q].size)
  BY UsableMemory
<1>2. /\ DOMAIN held' = others \cup {ptr} /\ held'[ptr] = block
      /\ \A q \in others : held'[q] = held[q]
      /\ held' = [q \in DOMAIN held' |-> held'[q]]
  BY <1>0
<1>3. HeldOK'
  <2>1. ASSUME NEW q \in DOMAIN held'
        PROVE  /\ held'[q] \in HeldTypes
               /\ held'[q].size <= Capacity(w, q, held'[q].size)
    <3>1. CASE q = ptr
      BY <1>0, <1>2, <3>1
    <3>2. CASE q # ptr
      BY <1>0, <1>1, <1>2, <3>2
    <3> QED BY <3>1, <3>2
  <2> QED BY <1>0, <1>2, <2>1 DEF HeldOK, HeldTypes
<1>4. TheHeap!Fits(ptr, block.size, others)
  BY <1>0, <1>1 DEF TheHeap!Fits
<1>5. held' = TheHeap!With(others, ptr, block)
  BY DEF TheHeap!With
<1>6. ASSUME NEW q \in DOMAIN held', held'[q].data # Junk
      PROVE  ~OverBufctls(mem', q)
  <2>1. CASE q = ptr
    BY <1>2, <1>6, <2>1
  <2>2. CASE q # ptr
    <3>1. q \in others /\ held[q].data # Junk
      BY <1>2, <1>6, <2>2
    <3>2. /\ q \in Blocks(mem) /\ q \in Blocks(mem') /\ MemOK(mem, CacheSizes)
          /\ Capacity(mem', q, held[q].size) = Capacity(mem, q, held[q].size)
      BY <1>0, <1>1, <3>1, UsableMemory
    <3>3. ~OverBufctls(mem, q)
      BY <3>1 DEF SmallocInv, Uncovered, Usable
    <3> QED BY <3>2, <3>3, SameLayout
  <2> QED BY <2>1, <2>2
<1>7. Uncovered'
  BY <1>6 DEF Uncovered
<1> QED BY <1>2, <1>3, <1>4, <1>5, <1>7

LEMMA SmallocStep ==
  ASSUME SmallocInv, NEW size \in RequestSizes, smalloc(size)
  PROVE  SmallocInv' /\ [TheHeap!Next]_held
<1>1. Usable /\ inits' = inits /\ MemOK(mem, CacheSizes)
  BY UsableMemory DEF smalloc
<1> DEFINE block == [size |-> size, data |-> Junk]
<1>2. PICK new \in SmallocOf(mem, size) :
        mem' = new.mem /\ fault' = new.fault /\ held' = Holding(held, new.ptr, block)
  BY DEF smalloc
<1>3. block \in HeldTypes /\ block.size = size /\ block.data = Junk
  BY DEF HeldTypes
<1> HIDE DEF block
<1>4. AllocOutcome(mem, new, size)
  BY <1>1, SmallocOfOK
<1>5. CASE new.ptr = NULL /\ new.mem = mem /\ new.fault \in {"none", "mmap failed"}
  <2>1. held' = held
    BY <1>2, <1>5 DEF Holding
  <2> QED BY <1>1, <1>2, <1>5, <2>1, InvUnchanged DEF Faults, Usable
<1>6. CASE new.fault = "none" /\ Allocated(mem, new, size)
  <2> DEFINE ptr == new.ptr
  <2>1. /\ MemOK(mem', CacheSizes) /\ ptr \in Nat \ {NULL} /\ ptr \notin DOMAIN held
        /\ Blocks(new.mem) = DOMAIN held \cup {ptr}
        /\ size <= Capacity(new.mem, ptr, size)
        /\ \A q \in DOMAIN held, s \in RequestSizes :
             /\ Capacity(new.mem, q, s) = Capacity(mem, q, s)
             /\ s <= Capacity(mem, q, s) => ptr + size <= q \/ q + s <= ptr
    BY <1>1, <1>2, <1>6, UsableMemory DEF Allocated
  <2>2. held' = [q \in DOMAIN held \cup {ptr} |-> IF q = ptr THEN block ELSE held[q]]
    BY <1>2, <2>1 DEF Holding
  <2> HIDE DEF ptr
  <2>3. DOMAIN held \ {} = DOMAIN held /\ Replaces(mem', {}, ptr, block)
    BY <1>2, <1>3, <2>1 DEF Replaces
  <2>4. /\ HeldOK' /\ Uncovered' /\ ptr \in DOMAIN held' /\ held'[ptr] = block
        /\ TheHeap!Fits(ptr, block.size, DOMAIN held)
        /\ held' = TheHeap!With(DOMAIN held, ptr, block)
    <3>1. held' = [q \in (DOMAIN held \ {}) \cup {ptr} |->
                     IF q = ptr THEN block ELSE held[q]]
      BY <2>2, <2>3
    <3>2. /\ HeldOK' /\ Uncovered' /\ ptr \in DOMAIN held' /\ held'[ptr] = block
          /\ TheHeap!Fits(ptr, block.size, DOMAIN held \ {})
          /\ held' = TheHeap!With(DOMAIN held \ {}, ptr, block)
      BY <1>1, <1>3, <2>1, <2>3, <3>1, HoldingOK
    <3> QED BY <2>3, <3>2
  <2>5. SmallocInv'
    BY <1>1, <1>2, <1>6, <2>1, <2>4, InvAfterCall DEF Faults
  <2>6. TheHeap!Malloc
    BY <1>3, <2>1, <2>4 DEF TheHeap!Malloc, TheHeap!Blocks, HeldTypes
  <2> QED BY <2>5, <2>6 DEF TheHeap!Next
<1> QED BY <1>4, <1>5, <1>6 DEF AllocOutcome

\* A block in use, its slab's size, and what other blocks may reach to.
LEMMA BusyIsApart ==
  ASSUME NEW m, MemOK(m, CacheSizes), NEW ptr \in Blocks(m), IsSlabBlock(m, ptr),
         NEW size \in Nat, size <= m.slabs[PagePointer(ptr)].size,
         NEW q \in Blocks(m), q # ptr, NEW s \in RequestSizes, s <= Capacity(m, q, s)
  PROVE  ptr + size <= q \/ q + s <= ptr
<1> DEFINE c == m.slabs[PagePointer(ptr)].size
           d == m.slabs[PagePointer(q)].size
<1>1. /\ SlabsOK(m.slabs) /\ Mapped(m) \subseteq Pages /\ m.chunks \subseteq MallocPtrs
  BY DEF MemOK, MemTypeOK
<1>2. ptr \in BusyOf(m.slabs)
  <2>1. ptr \notin m.chunks
    BY <1>1, ChunkIsFree
  <2> QED BY <2>1 DEF Blocks
<1>3. ptr \in Nat /\ c \in Nat /\ s \in Nat
  <2>1. ptr \in Nat /\ PagePointer(ptr) \in DOMAIN m.slabs
    BY <1>1, <1>2, BusyFacts
  <2> QED BY <1>1, <2>1, HeapFacts DEF SlabsOK, WellFormed
<1>4. CASE q \in m.chunks
  <2>1. q \in MallocPtrs /\ q \in Nat
    BY <1>1, <1>4, HeapFacts
  <2>2. ptr + c <= q \/ q + s <= ptr
    BY <1>1, <1>2, <2>1, BusyAndChunk DEF Mapped
  <2> HIDE DEF c
  <2>3. size <= c
    BY DEF c
  <2> QED BY <1>3, <2>1, <2>2, <2>3
<1>5. CASE q \in BusyOf(m.slabs)
  <2>1. q \in Nat /\ PagePointer(q) \in DOMAIN m.slabs
    BY <1>1, <1>5, BusyFacts
  <2>2. d \in Nat /\ s <= d
    BY <1>1, <2>1 DEF SlabsOK, WellFormed, Capacity, IsSlabBlock, Mapped
  <2>3. ptr + c <= q \/ q + d <= ptr
    BY <1>1, <1>2, <1>5, BusyAreApart
  <2> HIDE DEF c, d
  <2>4. size <= c
    BY DEF c
  <2> QED BY <1>3, <2>1, <2>2, <2>3, <2>4
<1> QED BY <1>4, <1>5 DEF Blocks

\* One block, old, becomes another.
LEMMA ReallocStep ==
  ASSUME SmallocInv, Usable, NEW old \in DOMAIN held, NEW ptr, NEW block,
         Replaces(mem', {old}, ptr, block), block.data = held[old].data,
         MemOK(mem', CacheSizes), inits' = inits, fault' \in Faults,
         block.data # Junk => ~OverBufctls(mem', ptr),
         held' = [q \in (DOMAIN held \ {old}) \cup {ptr} |->
                    IF q = ptr THEN block ELSE held[q]]
  PROVE  SmallocInv' /\ [TheHeap!Next]_held
<1>1. /\ HeldOK' /\ Uncovered' /\ ptr \in DOMAIN held' /\ held'[ptr] = block
      /\ TheHeap!Fits(ptr, block.size, DOMAIN held \ {old})
      /\ held' = TheHeap!With(DOMAIN held \ {old}, ptr, block)
  BY HoldingOK
<1>2. SmallocInv'
  BY <1>1, InvAfterCall
<1>3. ptr \in Nat \ {NULL} /\ block.size \in RequestSizes
  BY DEF Replaces, HeldTypes
<1>4. TheHeap!Realloc
  BY <1>1, <1>3 DEF TheHeap!Realloc, TheHeap!Blocks
<1> QED BY <1>2, <1>4 DEF TheHeap!Next

\* What srealloc's Holding comes to.
LEMMA HoldingOther ==
  ASSUME NEW old \in DOMAIN held, NEW ptr, ptr # NULL, NEW block
  PROVE  Holding(Without({old}), ptr, block)
         = [q \in (DOMAIN held \ {old}) \cup {ptr} |->
              IF q = ptr THEN block ELSE held[q]]
<1> DEFINE others == Without({old})
<1>1. /\ DOMAIN others = DOMAIN held \ {old}
      /\ \A q \in DOMAIN others : others[q] = held[q]
  BY DEF Without
<1> HIDE DEF others
<1>2. Holding(others, ptr, block)
      = [q \in (DOMAIN held \ {old}) \cup {ptr} |->
           IF q = ptr THEN block ELSE held[q]]
  BY <1>1 DEF Holding
<1> QED BY <1>2 DEF others

LEMMA ReallocMallocedStep ==
  ASSUME SmallocInv, NEW old \in DOMAIN held, NEW size \in RequestSizes,
         srealloc_malloced(old, size)
  PROVE  SmallocInv' /\ [TheHeap!Next]_held
<1> DEFINE block == [held[old] EXCEPT !.size = size]
<1>1. /\ Usable /\ ~IsSlabBlock(mem, old)
      /\ inits' = inits /\ fault' = fault
  BY DEF srealloc_malloced
<1>2. PICK new \in Realloced(mem, old) :
        /\ mem' = new.mem
        /\ held' = Holding(Without({old}), new.ptr, block)
  BY DEF srealloc_malloced
<1>3. /\ MemOK(mem, CacheSizes) /\ DOMAIN held = Blocks(mem)
      /\ held[old] \in HeldTypes
      /\ SlabsOK(mem.slabs) /\ mem.chunks \in SUBSET MallocPtrs
      /\ \A q \in DOMAIN held : held[q].size <= Capacity(mem, q, held[q].size)
  BY <1>1, UsableMemory DEF MemOK, MemTypeOK
<1>4. fault' \in Faults /\ (fault' = "none" => fault = "none")
  BY <1>1 DEF SmallocInv, NoOverflowNoNull, Faults
<1>5. block \in HeldTypes /\ block.size = size /\ block.data = held[old].data
  BY <1>3 DEF HeldTypes
<1> HIDE DEF block
<1>6. CASE new = Outcome(mem, NULL, "none")
  <2>1. mem' = mem /\ held' = held
    BY <1>2, <1>6 DEF Outcome, Holding
  <2> QED BY <1>1, <1>4, <2>1, InvUnchanged
<1>7. CASE new # Outcome(mem, NULL, "none")
  <2>1. PICK ptr \in {old} \cup (MallocPtrs \ mem.chunks) :
          new = Outcome([mem EXCEPT !.chunks = (@ \ {old}) \cup {ptr}], ptr, "none")
    BY <1>7 DEF Realloced
  <2>2. old \in mem.chunks
    <3>1. old \in BusyOf(mem.slabs) => IsSlabBlock(mem, old)
      BY <1>3, BusyFacts DEF IsSlabBlock, Mapped
    <3> QED BY <1>1, <1>3, <3>1 DEF Blocks
  <2> DEFINE chunks == (mem.chunks \ {old}) \cup {ptr}
             w      == [mem EXCEPT !.chunks = chunks]
  <2>3. mem' = w /\ new.ptr = ptr
    BY <1>2, <2>1 DEF Outcome
  <2>4. ptr \in MallocPtrs /\ chunks \in SUBSET MallocPtrs
    BY <1>3, <2>2
  <2> HIDE DEF chunks
  <2>5. /\ MemOK(w, CacheSizes)
        /\ Blocks(w) = chunks \cup BusyOf(mem.slabs)
        /\ \A q, s : /\ IsSlabBlock(w, q) <=> IsSlabBlock(mem, q)
                     /\ Capacity(w, q, s) = Capacity(mem, q, s)
    BY <1>3, <2>4, ChunkedOK
  <2> HIDE DEF w
  <2>6. /\ ptr \notin BusyOf(mem.slabs) /\ ~IsSlabBlock(mem, ptr) /\ ptr \in Nat \ {NULL}
        /\ old \notin BusyOf(mem.slabs)
    BY <1>3, <2>2, <2>4, ChunkIsFree
  <2>7. Replaces(w, {old}, ptr, block)
    <3>1. Blocks(w) = (DOMAIN held \ {old}) \cup {ptr}
      BY <1>3, <2>5, <2>6 DEF Blocks, chunks
    <3>2. ptr \notin DOMAIN held \ {old}
      BY <1>3, <2>1, <2>6 DEF Blocks
    <3>3. block.size <= Capacity(w, ptr, block.size)
      BY <1>5, <2>5, <2>6, HeapFacts DEF Capacity
    <3>4. ASSUME NEW q \in DOMAIN held \ {old}, NEW s \in RequestSizes,
                 s <= Capacity(mem, q, s)
          PROVE  ptr + block.size <= q \/ q + s <= ptr
      BY <1>3, <1>5, <2>4, <3>2, <3>4, ChunkIsApart
    <3> QED BY <1>5, <2>5, <2>6, <3>1, <3>2, <3>3, <3>4 DEF Replaces
  <2>8. held' = [q \in (DOMAIN held \ {old}) \cup {ptr} |->
                   IF q = ptr THEN block ELSE held[q]]
    BY <1>2, <2>3, <2>6, HoldingOther
  <2>9. ~OverBufctls(w, ptr)
    BY <2>5, <2>6 DEF OverBufctls, IsSlabBlock
  <2> QED BY <1>1, <1>4, <1>5, <2>3, <2>5, <2>7, <2>8, <2>9, ReallocStep
<1> QED BY <1>6, <1>7

LEMMA ReallocStaysStep ==
  ASSUME SmallocInv, NEW ptr \in DOMAIN held, NEW size \in RequestSizes,
         srealloc_stays(ptr, size)
  PROVE  SmallocInv' /\ [TheHeap!Next]_held
<1> DEFINE block == [held[ptr] EXCEPT !.size = size]
           c     == mem.slabs[PagePointer(ptr)].size
<1>1. /\ Usable /\ IsSlabBlock(mem, ptr) /\ size < c
      /\ mem' = mem /\ inits' = inits /\ fault' = fault
      /\ held' = [held EXCEPT ![ptr].size = size]
  BY DEF srealloc_stays, Stays
<1>2. /\ MemOK(mem, CacheSizes) /\ DOMAIN held = Blocks(mem)
      /\ held[ptr] \in HeldTypes /\ held = [q \in DOMAIN held |-> held[q]]
      /\ \A q \in DOMAIN held : held[q].size <= Capacity(mem, q, held[q].size)
      /\ SlabsOK(mem.slabs)
  BY <1>1, UsableMemory DEF MemOK
<1>3. fault' \in Faults
  BY <1>1 DEF SmallocInv, NoOverflowNoNull, Faults
<1>4. block \in HeldTypes /\ block.size = size /\ block.data = held[ptr].data
  BY <1>2 DEF HeldTypes
<1>5. c \in Nat /\ size \in Nat /\ ptr \in Nat \ {NULL}
  <2>1. ptr \in Nat \ {NULL}
    BY <1>2, BusyFacts, HeapFacts DEF Blocks, MemOK, MemTypeOK
  <2>2. c \in Nat
    BY <1>1, <1>2 DEF IsSlabBlock, Mapped, SlabsOK, WellFormed
  <2> QED BY <2>1, <2>2, HeapFacts
<1>6. held' = [q \in (DOMAIN held \ {ptr}) \cup {ptr} |->
                 IF q = ptr THEN block ELSE held[q]]
  BY <1>1, <1>2
<1> HIDE DEF block, c
<1>7. size <= c
  BY <1>1, <1>5
<1>8. Replaces(mem', {ptr}, ptr, block)
  <2>1. DOMAIN held = (DOMAIN held \ {ptr}) \cup {ptr}
    OBVIOUS
  <2>2. size <= Capacity(mem, ptr, size)
    BY <1>1, <1>7 DEF Capacity, c
  <2>3. ASSUME NEW q \in DOMAIN held \ {ptr}, NEW s \in RequestSizes,
               s <= Capacity(mem, q, s)
        PROVE  ptr + size <= q \/ q + s <= ptr
    BY <1>1, <1>2, <1>5, <1>7, <2>3, BusyIsApart DEF c
  <2> QED BY <1>1, <1>2, <1>4, <1>5, <2>1, <2>2, <2>3 DEF Replaces
<1>9. block.data # Junk => ~OverBufctls(mem', ptr)
  BY <1>1, <1>4 DEF SmallocInv, Uncovered, Usable
<1> QED BY <1>1, <1>2, <1>3, <1>4, <1>6, <1>8, <1>9, ReallocStep

LEMMA ReallocMovesStep ==
  ASSUME SmallocInv, NEW old \in DOMAIN held, NEW size \in RequestSizes,
         srealloc_moves(old, size)
  PROVE  SmallocInv' /\ [TheHeap!Next]_held
<1> DEFINE length   == CopyLength(mem, old, size)
           why(new) == CopyFault(mem, new, length, size)
<1>1. /\ Usable /\ IsSlabBlock(mem, old) /\ ~Stays(mem, old, size) /\ inits' = inits
  BY DEF srealloc_moves
<1>2. PICK new \in SmallocOf(mem, size) :
        IF why(new) # "none"
        THEN fault' = why(new) /\ UNCHANGED <<mem, held>>
        ELSE /\ mem' = SfreeOf(new.mem, old).mem
             /\ fault' = SfreeOf(new.mem, old).fault
             /\ held' = Holding(Without({old}), new.ptr,
                          [size |-> size, data |-> Copied(held[old], length)])
  BY DEF srealloc_moves
<1>3. /\ MemOK(mem, CacheSizes) /\ DOMAIN held = Blocks(mem)
      /\ held[old] \in HeldTypes /\ SlabsOK(mem.slabs)
      /\ held[old].size <= Capacity(mem, old, held[old].size)
  BY <1>1, UsableMemory DEF MemOK
<1>4. AllocOutcome(mem, new, size)
  BY <1>3, SmallocOfOK
<1>5. /\ length \in Nat /\ size \in Nat /\ length <= size
      /\ held[old].size <= length /\ held[old].size \in Nat
  <2>1. length = mem.slabs[PagePointer(old)].size
    BY DEF CopyLength
  <2>2. mem.slabs[PagePointer(old)].size \in Nat
    BY <1>1, <1>3 DEF IsSlabBlock, Mapped, SlabsOK, WellFormed
  <2> HIDE DEF length
  <2>3. length \in Nat /\ size \in Nat /\ held[old].size \in Nat
    BY <1>3, <2>1, <2>2, HeapFacts DEF HeldTypes
  <2>4. ~(size < length) /\ held[old].size <= length
    BY <1>1, <1>3, <2>1 DEF Stays, Capacity
  <2> QED BY <2>3, <2>4
<1> HIDE DEF length
<1>6. CASE new.ptr = NULL
  <2>1. new.fault \in {"none", "mmap failed"}
    BY <1>4, <1>6 DEF AllocOutcome, Allocated
  <2>2. why(new) \in {"mmap failed", "malloc failed"}
    BY <1>6, <2>1 DEF CopyFault
  <2> HIDE DEF why
  <2>3. mem' = mem /\ held' = held /\ fault' \in {"mmap failed", "malloc failed"}
    BY <1>2, <2>2
  <2> QED BY <1>1, <2>3, InvUnchanged DEF Faults
<1>7. CASE new.ptr # NULL
  <2> DEFINE ptr   == new.ptr
             m     == new.mem
             freed == SfreeOf(m, old)
             block == [size |-> size, data |-> Copied(held[old], length)]
  <2>1. new.fault = "none" /\ Allocated(mem, new, size)
    BY <1>4, <1>7 DEF AllocOutcome
  <2>2. /\ MemOK(m, CacheSizes) /\ ptr \in Nat \ {NULL} /\ ptr \notin Blocks(mem)
        /\ Blocks(m) = Blocks(mem) \cup {ptr}
        /\ size <= Capacity(m, ptr, size)
        /\ \A q \in Blocks(mem), s \in RequestSizes :
             /\ Capacity(m, q, s) = Capacity(mem, q, s)
             /\ s <= Capacity(mem, q, s) => ptr + size <= q \/ q + s <= ptr
    BY <2>1 DEF Allocated
  <2>3. why(new) = IF OverBufctls(m, ptr) THEN "bufctls overwritten" ELSE "none"
    <3>1. ~(length > Capacity(m, ptr, size))
      <4>1. CASE IsSlabBlock(m, ptr)
        <5>1. m.slabs[PagePointer(ptr)].size \in Nat
          BY <2>2, <4>1 DEF MemOK, SlabsOK, WellFormed, IsSlabBlock, Mapped
        <5>2. Capacity(m, ptr, size) = m.slabs[PagePointer(ptr)].size
          BY <4>1 DEF Capacity
        <5> QED BY <1>5, <2>2, <5>1, <5>2
      <4>2. CASE ~IsSlabBlock(m, ptr)
        <5>1. Capacity(m, ptr, size) = size
          BY <4>2 DEF Capacity
        <5> QED BY <1>5, <5>1
      <4> QED BY <4>1, <4>2
    <3> QED BY <1>7, <2>1, <3>1 DEF CopyFault
  <2> HIDE DEF why
  <2>4. CASE OverBufctls(m, ptr)
    <3>1. why(new) = "bufctls overwritten"
      BY <2>3, <2>4
    <3>2. mem' = mem /\ held' = held /\ fault' = "bufctls overwritten"
      BY <1>2, <3>1
    <3> QED BY <1>1, <3>2, InvUnchanged DEF Faults
  <2> SUFFICES ASSUME ~OverBufctls(m, ptr)
               PROVE  SmallocInv' /\ [TheHeap!Next]_held
    BY <2>4
  <2>5. mem' = freed.mem /\ fault' = freed.fault /\ held' = Holding(Without({old}), ptr, block)
    BY <1>2, <2>3
  <2>6. Freed(m, freed, old)
    BY <1>3, <2>2, SfreeOfOK
  <2>7. block \in HeldTypes /\ block.size = size /\ block.data = held[old].data
    BY <1>3, <1>5 DEF HeldTypes, Copied
  <2> HIDE DEF block, freed, m, ptr
  <2>8. held' = [q \in (DOMAIN held \ {old}) \cup {ptr} |->
                   IF q = ptr THEN block ELSE held[q]]
    BY <2>2, <2>5, HoldingOther
  <2>9. Replaces(mem', {old}, ptr, block)
    <3>1. /\ Blocks(mem') = (DOMAIN held \ {old}) \cup {ptr}
          /\ \A q \in (DOMAIN held \ {old}) \cup {ptr}, s \in RequestSizes :
               Capacity(mem', q, s) = Capacity(m, q, s)
      BY <1>3, <2>2, <2>5, <2>6 DEF Freed
    <3>2. size <= Capacity(mem', ptr, size)
      BY <2>2, <3>1
    <3>3. \A q \in DOMAIN held \ {old}, s \in RequestSizes :
            /\ Capacity(mem', q, s) = Capacity(mem, q, s)
            /\ s <= Capacity(mem, q, s) => ptr + size <= q \/ q + s <= ptr
      BY <1>3, <2>2, <3>1
    <3> QED BY <1>3, <2>2, <2>7, <3>1, <3>2, <3>3 DEF Replaces
  <2>10. MemOK(mem', CacheSizes) /\ fault' = "none"
    BY <2>5, <2>6 DEF Freed
  <2>11. ~OverBufctls(mem', ptr)
    <3>1. /\ ptr \in Blocks(m) /\ ptr \in Blocks(mem')
          /\ Capacity(mem', ptr, size) = Capacity(m, ptr, size)
      BY <1>3, <2>2, <2>5, <2>6 DEF Freed
    <3> QED BY <2>2, <2>10, <3>1, SameLayout
  <2> QED BY <1>1, <2>7, <2>8, <2>9, <2>10, <2>11, ReallocStep DEF Faults
<1> QED BY <1>6, <1>7

LEMMA SfreeStep ==
  ASSUME SmallocInv, NEW ptr \in DOMAIN held, sfree(ptr)
  PROVE  SmallocInv' /\ [TheHeap!Next]_held
<1> DEFINE freed == SfreeOf(mem, ptr)
<1>1. /\ Usable /\ inits' = inits
      /\ mem' = freed.mem /\ fault' = freed.fault /\ held' = Without({ptr})
  BY DEF sfree
<1>2. /\ MemOK(mem, CacheSizes) /\ DOMAIN held = Blocks(mem)
      /\ \A q \in DOMAIN held : /\ held[q] \in HeldTypes /\ held[q].size \in RequestSizes
                                /\ held[q].size <= Capacity(mem, q, held[q].size)
  BY <1>1, UsableMemory
<1>3. Freed(mem, freed, ptr)
  BY <1>2, SfreeOfOK
<1> HIDE DEF freed
<1>4. /\ MemOK(mem', CacheSizes) /\ fault' = "none"
      /\ Blocks(mem') = DOMAIN held \ {ptr}
      /\ \A q \in DOMAIN held \ {ptr}, s \in RequestSizes :
           Capacity(mem', q, s) = Capacity(mem, q, s)
  BY <1>1, <1>2, <1>3 DEF Freed
<1>5. held' = [q \in DOMAIN held \ {ptr} |-> held[q]]
  BY <1>1 DEF Without
<1>6. HeldOK'
  <2>1. /\ DOMAIN held' = DOMAIN held \ {ptr}
        /\ held' = [q \in DOMAIN held' |-> held'[q]]
        /\ \A q \in DOMAIN held' : held'[q] = held[q]
    BY <1>5
  <2>2. \A q \in DOMAIN held' : /\ held'[q] \in HeldTypes
                                /\ held'[q].size <= Capacity(mem', q, held'[q].size)
    BY <1>2, <1>4, <2>1
  <2> QED BY <1>4, <2>1, <2>2 DEF HeldOK, HeldTypes
<1>7. ASSUME NEW q \in DOMAIN held', held'[q].data # Junk
      PROVE  ~OverBufctls(mem', q)
  <2>1. q \in DOMAIN held \ {ptr} /\ held[q].data # Junk
    BY <1>5, <1>7
  <2>2. ~OverBufctls(mem, q)
    BY <1>1, <2>1 DEF SmallocInv, Uncovered, Usable
  <2>3. /\ q \in Blocks(mem) /\ q \in Blocks(mem')
        /\ Capacity(mem', q, held[q].size) = Capacity(mem, q, held[q].size)
    BY <1>2, <1>4, <2>1
  <2> QED BY <1>2, <1>4, <2>2, <2>3, SameLayout
<1>8. Uncovered'
  BY <1>7 DEF Uncovered
<1>9. SmallocInv'
  BY <1>1, <1>4, <1>6, <1>8, InvAfterCall DEF Faults
<1>10. TheHeap!Free
  BY <1>5 DEF TheHeap!Free, TheHeap!Blocks
<1> QED BY <1>9, <1>10 DEF TheHeap!Next

LEMMA WriteStep ==
  ASSUME SmallocInv, NEW ptr \in DOMAIN held, NEW value \in Values, write(ptr, value)
  PROVE  SmallocInv' /\ [TheHeap!Next]_held
<1>1. /\ Usable /\ inits' = inits /\ mem' = mem
      /\ fault' = IF OverBufctls(mem, ptr) THEN "bufctls overwritten" ELSE "none"
      /\ held' = [held EXCEPT ![ptr].data = value]
  BY DEF write
<1>2. /\ MemOK(mem, CacheSizes) /\ DOMAIN held = Blocks(mem)
      /\ held = [q \in DOMAIN held |-> held[q]]
      /\ \A q \in DOMAIN held : /\ held[q] \in HeldTypes
                                /\ held[q].size <= Capacity(mem, q, held[q].size)
  BY <1>1, UsableMemory
<1>3. fault' \in Faults
  BY <1>1 DEF Faults
<1>4. HeldOK'
  <2>1. /\ DOMAIN held' = DOMAIN held /\ held' = [q \in DOMAIN held' |-> held'[q]]
        /\ \A q \in DOMAIN held \ {ptr} : held'[q] = held[q]
        /\ held'[ptr] = [held[ptr] EXCEPT !.data = value]
    BY <1>1, <1>2
  <2>2. held'[ptr] \in HeldTypes /\ held'[ptr].size = held[ptr].size
    BY <1>2, <2>1 DEF HeldTypes
  <2>3. \A q \in DOMAIN held' : /\ held'[q] \in HeldTypes
                                /\ held'[q].size <= Capacity(mem', q, held'[q].size)
    BY <1>1, <1>2, <2>1, <2>2
  <2> QED BY <1>1, <1>2, <2>1, <2>3 DEF HeldOK, HeldTypes
<1>5. ASSUME fault' = "none", NEW q \in DOMAIN held', held'[q].data # Junk
      PROVE  ~OverBufctls(mem', q)
  <2>1. CASE q = ptr
    BY <1>1, <1>5, <2>1
  <2>2. CASE q # ptr
    <3>1. q \in DOMAIN held /\ held[q].data # Junk
      BY <1>1, <1>2, <1>5, <2>2
    <3> QED BY <1>1, <3>1 DEF SmallocInv, Uncovered, Usable
  <2> QED BY <2>1, <2>2
<1>6. Uncovered'
  BY <1>5 DEF Uncovered
<1>7. SmallocInv'
  BY <1>1, <1>2, <1>3, <1>4, <1>6, InvAfterCall
<1>8. TheHeap!Write
  BY <1>1 DEF TheHeap!Write, TheHeap!Blocks
<1> QED BY <1>7, <1>8 DEF TheHeap!Next

-----------------------------------------------------------------------------
(* smalloc_initialize makes one pool after another.  It leaves the lists   *)
(* of the pools there were to themselves; that nothing in use is on them   *)
(* is what the program sees to.                                            *)

\* A slab without a busy buffer counts no reference.
LEMMA IdleSlab ==
  ASSUME NEW page, NEW s, WellFormed(page, s), BusySlots(s) = {}
  PROVE  s.ref_count = 0
<1>1. PICK order \in [1..s.max_refs -> Slots(s)] : FreelistOrder(s, order)
  BY DEF WellFormed, FreelistOK
<1>2. /\ s.max_refs \in Nat /\ s.max_refs >= 1 /\ s.ref_count \in Nat
      /\ s.is_free \in [Slots(s) -> {SLOT_FREE, SLOT_BUSY}]
  BY NonExistantNat DEF WellFormed, SlabTypeOK
<1> DEFINE n == s.max_refs
<1>3. n \in 1..n /\ order[n] \in Slots(s)
  BY <1>2
<1>4. s.is_free[order[n]] = SLOT_FREE <=> n <= n - s.ref_count
  BY <1>1, <1>3 DEF FreelistOrder
<1>5. s.is_free[order[n]] = SLOT_FREE
  BY <1>2, <1>3 DEF BusySlots
<1> HIDE DEF n
<1>6. n <= n - s.ref_count /\ n \in Nat
  BY <1>2, <1>4, <1>5 DEF n
<1> QED BY <1>2, <1>6

LEMMA Forget ==
  ASSUME NEW m, NEW made, MemOK(m, made), BusyOf(m.slabs) = {}
  PROVE  MemOK(m, {})
<1> DEFINE nodes == [i \in CacheSizes |-> {}]
<1>1. MemTypeOK(m) /\ SlabsOK(m.slabs) /\ Acyclic(m.next, Mapped(m))
  BY DEF MemOK
<1>2. Lost(m, nodes) = Mapped(m)
  BY DEF Lost
<1>3. ASSUME NEW p \in Mapped(m) PROVE m.slabs[p].ref_count = 0
  <2>1. WellFormed(p, m.slabs[p]) /\ BusyPtrs(m.slabs[p]) = {}
    BY <1>1 DEF SlabsOK, BusyOf, Mapped
  <2>2. BusySlots(m.slabs[p]) = {}
    BY <2>1 DEF BusyPtrs, PtrsOf
  <2> QED BY <2>1, <2>2, IdleSlab
<1>4. ListsApart(m, nodes, {})
  BY <1>1, <1>2, <1>3 DEF ListsApart, MemTypeOK
<1> QED BY <1>1, <1>4 DEF MemOK

\* slab_pool_create.
PoolCreated(m, i, base, made) ==
  LET w == PoolCreate(m, i, base) IN
  /\ MemOK(w, made \cup {i})
  /\ Mapped(w) = Mapped(m) \cup Region(base, StartSize)
  /\ w.chunks = m.chunks
  /\ BusyOf(w.slabs) = BusyOf(m.slabs)

LEMMA PoolCreateOK ==
  ASSUME NEW m, NEW made \in SUBSET CacheSizes, MemOK(m, made),
         NEW i \in CacheSizes, i \notin made,
         NEW base \in MappableIn(Pages \ Mapped(m), StartSize)
  PROVE  PoolCreated(m, i, base, made)
<1> DEFINE dom  == DOMAIN m.slabs
           none == [start |-> NULL, end |-> NULL, next |-> m.next, prev |-> m.prev]
           new  == Region(base, StartSize)
           s    == SeveralLinked(none, base, StartSize, NULL)
           l    == [s EXCEPT !.end = LastFromList(s, base)]
           now  == SeveralCreated(m.slabs, base, StartSize, i)
           w    == WithPool(m, i, l, now, StartSize)
<1>1. /\ MemTypeOK(m) /\ SlabsOK(m.slabs) /\ Acyclic(m.next, dom)
      /\ Mapped(m) = dom /\ dom \subseteq Pages /\ NULL \notin dom
      /\ m.next \in [dom -> dom \cup {NULL}] /\ m.prev \in [dom -> dom \cup {NULL}]
  BY HeapFacts DEF MemOK, MemTypeOK, Mapped
<1>2. PICK nodes : ListsApart(m, nodes, made)
  BY DEF MemOK
<1>3. nodes[i] = {}
  BY <1>2 DEF ListsApart
<1>4. /\ new \subseteq Pages /\ new \cap dom = {} /\ \A p \in new : PageAligned(p)
      /\ i \in Nat \ {0} /\ base \in Nat \ {NULL} /\ PageSize = PageMask
      /\ StartSize \in Nat \ {0}
  BY <1>1, HeapFacts DEF MappableIn
<1>5. /\ IsList(l, dom \cup new, new, StartSize)
      /\ SameElsewhere(none, l, dom, {})
  <2>1. ListTypeOK(none, dom, {}) /\ none.next = m.next
    BY <1>1 DEF ListTypeOK
  <2>2. PICK g : Lasts(none.next, dom, g)
    BY <1>1, <2>1, AcyclicLasts
  <2> HIDE DEF dom, none, new
  <2> QED BY <1>1, <1>4, <2>1, <2>2, NewListOK DEF new
<1>6. Created(m.slabs, now, new, i)
  <2> HIDE DEF now, new
  <2> QED BY <1>4, CreatedOK DEF now, new, dom
<1>7. SlabsOK(now) /\ BusyOf(now) = BusyOf(m.slabs)
  <2> DEFINE n == NumBuffers(i)
  <2>1. /\ n \in 0..4032 /\ i * n \in Nat /\ n <= i * n
        /\ 5 * (i * n) <= PageSize - HeaderSize
    BY <1>4, NumBuffersFit
  <2>2. n >= 2
    BY HeapFacts
  <2> HIDE DEF n
  <2>3. n >= 1
    BY <2>1, <2>2
  <2>4. NumBuffers(i) >= 1
    BY <2>3, Zenon DEF n
  <2> QED BY <1>1, <1>6, <2>4 DEF Created
<1>8. \A x \in dom : l.next[x] = m.next[x] /\ l.prev[x] = m.prev[x]
  BY <1>5 DEF SameElsewhere
<1> HIDE DEF l, now, new
<1>9. MemOK(w, made \cup {i})
  <2>1. /\ DOMAIN now = dom \cup new /\ now = [p \in DOMAIN now |-> now[p]]
        /\ \A p \in dom : now[p] = m.slabs[p]
        /\ \A p \in new : now[p].size = i
    BY <1>6 DEF Created
  <2>2. /\ DOMAIN now \subseteq Pages /\ Mapped(m) \subseteq DOMAIN now
        /\ DOMAIN now \ new = Mapped(m) \ nodes[i]
        /\ IsList(l, DOMAIN now, new, StartSize)
        /\ \A x \in Mapped(m) \ nodes[i] : /\ now[x] = m.slabs[x]
                                          /\ l.next[x] = m.next[x]
                                          /\ l.prev[x] = m.prev[x]
    BY <1>1, <1>3, <1>4, <1>5, <1>8, <2>1
  <2> QED BY <1>1, <1>2, <1>7, <2>1, <2>2, RelistedOK
<1>10. /\ w.slabs = now /\ w.chunks = m.chunks
       /\ Mapped(w) = dom \cup new
  BY <1>6 DEF WithPool, Mapped, Created
<1>11. PoolCreate(m, i, base) = w
  BY DEF PoolCreate, BalanceOfNew, l, now
<1> HIDE DEF w
<1> QED BY <1>1, <1>7, <1>9, <1>10, <1>11 DEF PoolCreated, new

\* What smalloc_initialize has made of m once the pools in s are there, if f
\* has what it makes of it for fewer.
Begun(f, m, bases, s) ==
  IF s = {} THEN m
  ELSE LET i == CHOOSE x \in s : TRUE IN PoolCreate(f[s \ {i}], i, bases[i])

Begins(f, m, bases) == f = [s \in SUBSET CacheSizes |-> Begun(f, m, bases, s)]

LEMMA SmallerSet ==
  ASSUME NEW s \in SUBSET CacheSizes, s # {}
  PROVE  LET i == CHOOSE x \in s : TRUE IN
         /\ i \in s
         /\ IsFiniteSet(s) /\ Cardinality(s) \in Nat
         /\ s \ {i} \in SUBSET CacheSizes
         /\ Cardinality(s \ {i}) = Cardinality(s) - 1
         /\ Cardinality(s \ {i}) \in Nat
<1> DEFINE i == CHOOSE x \in s : TRUE
<1>1. i \in s
  OBVIOUS
<1> HIDE DEF i
<1>2. IsFiniteSet(CacheSizes)
  BY SmallocAssumption
<1>3. IsFiniteSet(s) /\ Cardinality(s) \in Nat
  BY <1>2, FS_Subset, FS_CardinalityType
<1>4. Cardinality(s \ {i}) = Cardinality(s) - 1 /\ IsFiniteSet(s \ {i})
  BY <1>1, <1>3, FS_RemoveElement
<1>5. Cardinality(s \ {i}) \in Nat
  BY <1>4, FS_CardinalityType
<1> QED BY <1>1, <1>3, <1>4, <1>5 DEF i

LEMMA BeginsExists ==
  ASSUME NEW m, NEW bases
  PROVE  \E f : Begins(f, m, bases)
<1> DEFINE all     == SUBSET CacheSizes
           Upto(k) == \E f : \A s \in all : Cardinality(s) < k => f[s] = Begun(f, m, bases, s)
           A       == {k \in Nat : Upto(k)}
<1>1. IsFiniteSet(CacheSizes)
  BY SmallocAssumption
<1>2. \A s \in all : Cardinality(s) \in Nat /\ Cardinality(s) <= Cardinality(CacheSizes)
  BY <1>1, FS_Subset, FS_CardinalityType
<1>3. 0 \in A
  <2>1. \A s \in all : ~(Cardinality(s) < 0)
    BY <1>2
  <2> QED BY <2>1
<1>4. ASSUME NEW k \in A PROVE k + 1 \in A
  <2>1. PICK f : \A s \in all : Cardinality(s) < k => f[s] = Begun(f, m, bases, s)
    OBVIOUS
  <2> DEFINE h == [s \in all |-> Begun(f, m, bases, s)]
  <2>2. ASSUME NEW s \in all, Cardinality(s) < k + 1
        PROVE  h[s] = Begun(h, m, bases, s)
    <3>1. CASE s = {}
      BY <3>1 DEF Begun
    <3>2. CASE s # {}
      <4> DEFINE i == CHOOSE x \in s : TRUE
                 t == s \ {i}
      <4>1. /\ t \in all /\ Cardinality(t) = Cardinality(s) - 1
            /\ Cardinality(s) \in Nat
        BY <3>2, SmallerSet
      <4>2. Cardinality(t) < k
        BY <2>2, <4>1
      <4>3. h[t] = f[t]
        BY <2>1, <4>1, <4>2
      <4>4. h[s] = PoolCreate(f[t], i, bases[i])
        BY <3>2 DEF Begun
      <4> HIDE DEF h
      <4> QED BY <3>2, <4>3, <4>4 DEF Begun
    <3> QED BY <3>1, <3>2
  <2> HIDE DEF h
  <2>3. Upto(k + 1)
    BY <2>2
  <2> QED BY <2>3
<1> DEFINE N == Cardinality(CacheSizes)
<1>5. N \in Nat
  BY <1>1, FS_CardinalityType
<1> HIDE DEF N
<1>6. Upto(N + 1)
  <2>1. A = Nat
    <3>1. A \in SUBSET Nat
      OBVIOUS
    <3> HIDE DEF A
    <3> QED BY <1>3, <1>4, <3>1, AllNaturals
  <2>2. N + 1 \in A
    <3> HIDE DEF A
    <3> QED BY <1>5, <2>1
  <2> QED BY <2>2
<1>7. PICK f : \A s \in all : Cardinality(s) < N + 1 => f[s] = Begun(f, m, bases, s)
  BY <1>6
<1> DEFINE h == [s \in all |-> f[s]]
<1>8. ASSUME NEW s \in all PROVE h[s] = Begun(h, m, bases, s)
  <2>1. Cardinality(s) < N + 1
    BY <1>2, <1>5 DEF N
  <2>2. h[s] = Begun(f, m, bases, s)
    BY <1>7, <2>1
  <2>3. CASE s = {}
    BY <2>2, <2>3 DEF Begun
  <2>4. CASE s # {}
    <3> DEFINE i == CHOOSE x \in s : TRUE
               t == s \ {i}
    <3>1. h[t] = f[t]
      OBVIOUS
    <3> HIDE DEF h
    <3> QED BY <2>2, <2>4, <3>1 DEF Begun
  <2> QED BY <2>3, <2>4
<1>9. h = [s \in all |-> h[s]]
  OBVIOUS
<1> HIDE DEF h
<1>10. h = [s \in all |-> Begun(h, m, bases, s)]
  BY <1>8, <1>9
<1> QED BY <1>10 DEF Begins

\* The fold of smalloc_initialize is the last of these.
LEMMA FoldIsBegun ==
  ASSUME NEW m, NEW bases
  PROVE  \E f : Begins(f, m, bases) /\ Initialized(m, bases) = f[CacheSizes]
<1> DEFINE f == CHOOSE g : Begins(g, m, bases)
<1>1. Begins(f, m, bases)
  BY BeginsExists
<1>2. f = CHOOSE g : g = [s \in SUBSET CacheSizes |->
             IF s = {} THEN m
             ELSE PoolCreate(g[s \ {CHOOSE x \in s : TRUE}], CHOOSE x \in s : TRUE,
                             bases[CHOOSE x \in s : TRUE])]
  BY DEF Begins, Begun
<1> HIDE DEF f
<1>3. Initialized(m, bases) = f[CacheSizes]
  BY <1>2 DEF Initialized, FoldSet, MapThenFoldSet
<1> QED BY <1>1, <1>3

LEMMA InitializeStep ==
  ASSUME SmallocInv, NEW bases \in [CacheSizes -> Pages], smalloc_initialize(bases)
  PROVE  SmallocInv' /\ held' = held
<1> DEFINE start(i) == Region(bases[i], StartSize)
           made(m, s) == /\ MemOK(m, s)
                         /\ Mapped(m) = Mapped(mem) \cup UNION {start(i) : i \in s}
                         /\ m.chunks = mem.chunks
                         /\ BusyOf(m.slabs) = {}
<1>1. /\ fault = "none" /\ inits < MaxInits /\ DOMAIN held = {}
      /\ \A i \in CacheSizes : bases[i] \in MappableIn(Pages \ Mapped(mem), StartSize)
      /\ \A i, j \in CacheSizes : i # j => start(i) \cap start(j) = {}
      /\ mem' = Initialized(mem, bases)
      /\ inits' = inits + 1 /\ held' = held /\ fault' = fault
  BY DEF smalloc_initialize
<1>2. /\ MemOK(mem, Made) /\ HeldOK /\ inits \in 0..MaxInits
  BY DEF SmallocInv
<1>3. Blocks(mem) = {}
  BY <1>1, <1>2 DEF HeldOK
<1>4. mem.chunks = {} /\ BusyOf(mem.slabs) = {}
  BY <1>3 DEF Blocks
<1>5. MemOK(mem, {})
  BY <1>2, <1>4, Forget
<1>6. PICK f : Begins(f, mem, bases) /\ Initialized(mem, bases) = f[CacheSizes]
  BY FoldIsBegun
<1>7. \A s \in SUBSET CacheSizes : f[s] = Begun(f, mem, bases, s)
  <2> DEFINE F(s) == Begun(f, mem, bases, s)
  <2>1. f = [s \in SUBSET CacheSizes |-> F(s)]
    BY <1>6 DEF Begins
  <2> HIDE DEF F
  <2>2. \A s \in SUBSET CacheSizes : f[s] = F(s)
    BY <2>1
  <2> QED BY <2>2 DEF F
<1> DEFINE A == {k \in Nat : \A s \in SUBSET CacheSizes : Cardinality(s) = k => made(f[s], s)}
<1>8. IsFiniteSet(CacheSizes)
  BY SmallocAssumption
<1>9. 0 \in A
  <2> SUFFICES ASSUME NEW s \in SUBSET CacheSizes, Cardinality(s) = 0
               PROVE  made(f[s], s)
    OBVIOUS
  <2>1. s = {}
    BY <1>8, FS_Subset, FS_EmptySet
  <2>2. f[s] = mem
    BY <1>7, <2>1 DEF Begun
  <2> QED BY <1>4, <1>5, <2>1, <2>2
<1>10. ASSUME NEW k \in A PROVE k + 1 \in A
  <2> SUFFICES ASSUME NEW s \in SUBSET CacheSizes, Cardinality(s) = k + 1
               PROVE  made(f[s], s)
    <3> HIDE DEF made
    <3> QED OBVIOUS
  <2> DEFINE i == CHOOSE x \in s : TRUE
             t == s \ {i}
             m == f[t]
  <2>1. k \in Nat /\ s # {}
    <3>1. k \in Nat
      <4> HIDE DEF made
      <4> QED OBVIOUS
    <3> HIDE DEF A, made
    <3>2. s = {} => Cardinality(s) = 0
      BY FS_EmptySet
    <3> QED BY <3>1, <3>2, <1>10
  <2>2. i \in s /\ t \in SUBSET CacheSizes /\ Cardinality(t) = k
    BY <2>1, SmallerSet
  <2>3. f[s] = PoolCreate(m, i, bases[i])
    BY <1>7, <2>1 DEF Begun
  <2>4. made(m, t)
    BY <2>2
  <2> HIDE DEF m, i
  <2>5. bases[i] \in MappableIn(Pages \ Mapped(m), StartSize)
    <3>1. bases[i] \in Pages \ Mapped(mem) /\ start(i) \subseteq Pages \ Mapped(mem)
      BY <1>1, <2>2 DEF MappableIn
    <3>2. \A j \in t : start(j) \cap start(i) = {}
      BY <1>1, <2>2
    <3>3. bases[i] \in start(i)
      <4>1. 0 \in 0..(StartSize - 1) /\ bases[i] = bases[i] + 0 * PageSize
        BY <3>1, HeapFacts, PageSizeAssumption
      <4> QED BY <4>1 DEF Region
    <3> HIDE DEF start
    <3>4. bases[i] \in Pages \ Mapped(m) /\ start(i) \subseteq Pages \ Mapped(m)
      BY <2>4, <3>1, <3>2, <3>3
    <3> QED BY <3>4 DEF MappableIn, start
  <2>6. PoolCreated(m, i, bases[i], t)
    BY <2>2, <2>4, <2>5, PoolCreateOK
  <2>7. t \cup {i} = s
    BY <2>2
  <2>8. /\ MemOK(f[s], s) /\ Mapped(f[s]) = Mapped(m) \cup start(i)
        /\ f[s].chunks = m.chunks /\ BusyOf(f[s].slabs) = BusyOf(m.slabs)
    BY <2>3, <2>6, <2>7 DEF PoolCreated
  <2>9. Mapped(f[s]) = Mapped(mem) \cup UNION {start(j) : j \in s}
    <3> HIDE DEF start
    <3>1. UNION {start(j) : j \in s} = (UNION {start(j) : j \in t}) \cup start(i)
      BY <2>7
    <3>2. Mapped(m) = Mapped(mem) \cup UNION {start(j) : j \in t}
      BY <2>4
    <3> HIDE DEF t
    <3> QED BY <2>8, <3>1, <3>2
  <2> QED BY <2>4, <2>8, <2>9
<1>11. made(mem', CacheSizes)
  <2>1. A = Nat
    <3>1. A \in SUBSET Nat
      OBVIOUS
    <3> HIDE DEF A
    <3> QED BY <1>9, <1>10, <3>1, AllNaturals
  <2>2. Cardinality(CacheSizes) \in A
    <3>1. Cardinality(CacheSizes) \in Nat
      BY <1>8, FS_CardinalityType
    <3> HIDE DEF A
    <3> QED BY <2>1, <3>1
  <2>3. made(f[CacheSizes], CacheSizes)
    BY <2>2
  <2> QED BY <1>1, <1>6, <2>3
<1>12. /\ MemOK(mem', CacheSizes) /\ Blocks(mem') = {}
  BY <1>4, <1>11 DEF Blocks
<1>13. inits' \in 0..MaxInits /\ inits' # 0
  <2>1. MaxInits \in Nat
    BY SmallocAssumption
  <2> QED BY <1>1, <1>2, <2>1
<1>14. Made' = CacheSizes
  BY <1>13 DEF Made
<1>15. HeldOK' /\ Uncovered'
  BY <1>1, <1>2, <1>12 DEF HeldOK, Uncovered
<1> QED BY <1>1, <1>12, <1>13, <1>14, <1>15 DEF SmallocInv, NoOverflowNoNull

LEMMA InitializeFailsStep ==
  ASSUME SmallocInv, smalloc_initialize_fails
  PROVE  SmallocInv' /\ held' = held
<1>1. UNCHANGED <<mem, held, inits>> /\ fault' = "mmap failed"
  BY DEF smalloc_initialize_fails
<1> QED BY <1>1, InvUnchanged DEF Faults

LEMMA InitInv ==
  ASSUME Init
  PROVE  SmallocInv /\ TheHeap!Init
<1> DEFINE none == [p \in {} |-> 0]
<1>1. /\ mem.slabs = none /\ mem.next = none /\ mem.prev = none /\ mem.chunks = {}
      /\ mem.pools = [i \in CacheSizes |-> [start |-> NULL, end |-> NULL, balance |-> 0]]
      /\ mem = [slabs |-> mem.slabs, next |-> mem.next, prev |-> mem.prev,
                chunks |-> mem.chunks, pools |-> mem.pools]
      /\ held = none /\ inits = 0 /\ fault = "none"
  BY DEF Init
<1>2. DOMAIN none = {} /\ none = [p \in {} |-> none[p]]
  OBVIOUS
<1>3. Mapped(mem) = {}
  BY <1>1, <1>2 DEF Mapped
<1>4. MemTypeOK(mem)
  <2>1. none \in [{} -> {} \cup {NULL}]
    OBVIOUS
  <2> HIDE DEF none
  <2>2. mem.pools \in [CacheSizes -> [start : {} \cup {NULL}, end : {} \cup {NULL}, balance : Nat]]
    BY <1>1
  <2> QED BY <1>1, <1>2, <1>3, <2>1, <2>2 DEF MemTypeOK
<1>5. SlabsOK(mem.slabs) /\ BusyOf(mem.slabs) = {}
  BY <1>1, <1>2 DEF SlabsOK, BusyOf
<1>6. Acyclic(mem.next, Mapped(mem))
  <2>1. [p \in {} |-> 0] \in [{} -> 0..0] /\ 0 \in Nat
    OBVIOUS
  <2> QED BY <1>3, <2>1 DEF Acyclic
<1>7. ListsApart(mem, [i \in CacheSizes |-> {}], {})
  BY <1>3 DEF ListsApart, Lost
<1>8. MemOK(mem, Made)
  BY <1>1, <1>4, <1>5, <1>6, <1>7 DEF MemOK, Made
<1>9. HeldOK /\ Uncovered
  BY <1>1, <1>2, <1>5 DEF HeldOK, Blocks, Uncovered
<1>10. inits \in 0..MaxInits
  BY <1>1, SmallocAssumption
<1>11. TheHeap!Init
  BY <1>1 DEF TheHeap!Init
<1> QED BY <1>1, <1>8, <1>9, <1>10, <1>11 DEF SmallocInv, NoOverflowNoNull

-----------------------------------------------------------------------------
\* Every step.
LEMMA NextStep ==
  ASSUME SmallocInv, [Next]_vars
  PROVE  SmallocInv' /\ [TheHeap!Next]_held
<1>1. CASE \E bases \in [CacheSizes -> Pages] : smalloc_initialize(bases)
  BY <1>1, InitializeStep
<1>2. CASE smalloc_initialize_fails
  BY <1>2, InitializeFailsStep
<1>3. CASE \E size \in RequestSizes : smalloc(size)
  BY <1>3, SmallocStep
<1>4. ASSUME NEW ptr \in DOMAIN held, NEW size \in RequestSizes, srealloc_malloced(ptr, size)
      PROVE  SmallocInv' /\ [TheHeap!Next]_held
  BY <1>4, ReallocMallocedStep
<1>5. ASSUME NEW ptr \in DOMAIN held, NEW size \in RequestSizes, srealloc_stays(ptr, size)
      PROVE  SmallocInv' /\ [TheHeap!Next]_held
  BY <1>5, ReallocStaysStep
<1>6. ASSUME NEW ptr \in DOMAIN held, NEW size \in RequestSizes, srealloc_moves(ptr, size)
      PROVE  SmallocInv' /\ [TheHeap!Next]_held
  BY <1>6, ReallocMovesStep
<1>7. ASSUME NEW ptr \in DOMAIN held, sfree(ptr)
      PROVE  SmallocInv' /\ [TheHeap!Next]_held
  BY <1>7, SfreeStep
<1>8. ASSUME NEW ptr \in DOMAIN held, NEW value \in Values, write(ptr, value)
      PROVE  SmallocInv' /\ [TheHeap!Next]_held
  BY <1>8, WriteStep
<1>9. CASE UNCHANGED vars
  <2>1. UNCHANGED <<mem, held, inits>> /\ fault' = fault
    BY <1>9 DEF vars
  <2>2. fault' \in Faults
    BY <2>1 DEF SmallocInv, NoOverflowNoNull, Faults
  <2> QED BY <2>1, <2>2, InvUnchanged
<1> QED BY <1>1, <1>2, <1>3, <1>4, <1>5, <1>6, <1>7, <1>8, <1>9 DEF Next

-----------------------------------------------------------------------------
(* What the invariant says of a pool: its chain, as Chain follows it along *)
(* the links, is the list.                                                 *)

\* A sequence with one element in front.
LEMMA InFrontOf ==
  ASSUME NEW S, NEW p \in S, NEW j \in Nat, NEW t \in [1..j -> S],
         NEW s \in [1..(j + 1) -> S], s[1] = p, \A x \in 1..j : s[x + 1] = t[x]
  PROVE  <<p>> \o t = s
<1>1. /\ <<p>> \in Seq(S) /\ Len(<<p>>) = 1 /\ <<p>>[1] = p
      /\ t \in Seq(S) /\ Len(t) = j
      /\ s \in Seq(S) /\ Len(s) = j + 1
  <2>1. j + 1 \in Nat
    OBVIOUS
  <2> QED BY <2>1, SeqDef, LenProperties
<1>2. /\ <<p>> \o t \in Seq(S) /\ Len(<<p>> \o t) = j + 1
      /\ \A k \in 1..(j + 1) :
           (<<p>> \o t)[k] = IF k <= 1 THEN <<p>>[k] ELSE t[k - 1]
  <2>1. Len(<<p>>) + Len(t) = j + 1
    BY <1>1
  <2> QED BY <1>1, <2>1, ConcatProperties
<1>3. ASSUME NEW k \in 1..(j + 1) PROVE (<<p>> \o t)[k] = s[k]
  <2>1. CASE k = 1
    BY <1>1, <1>2, <2>1
  <2>2. CASE k # 1
    <3>1. k - 1 \in 1..j /\ (k - 1) + 1 = k /\ ~(k <= 1)
      BY <2>2
    <3>2. s[(k - 1) + 1] = t[k - 1]
      BY <3>1
    <3> QED BY <1>2, <3>1, <3>2
  <2> QED BY <2>1, <2>2
<1> QED BY <1>1, <1>2, <1>3, SeqEqual

LEMMA ChainIsOrder ==
  ASSUME NEW dom, NULL \notin dom, NEW next \in [dom -> dom \cup {NULL}], NEW prev,
         NEW f, Chains(next, dom, f),
         NEW nodes, nodes \subseteq dom, NEW n \in Nat \ {0}, NEW order,
         Linked(order, n, nodes, next, prev, NULL)
  PROVE  f[order[1]] = order
<1>1. /\ order \in [1..n -> nodes] /\ 1 \in 1..n /\ n \in 1..n
      /\ \A k \in 1..n : next[order[k]] = IF k = n THEN NULL ELSE order[k + 1]
      /\ \A k \in 1..n : order[k] \in dom
  BY DEF Linked
<1>2. \A p \in dom : f[p] = <<p>> \o f[next[p]]
  BY DEF Chains
<1>3. f[NULL] = <<>>
  BY DEF Chains
\* The last slabs of the list, from the one at n - j on.
<1> DEFINE from(j) == [x \in 1..(j + 1) |-> order[(n - j) + (x - 1)]]
           wrong   == {j \in 0..(n - 1) : f[order[n - j]] # from(j)}
<1>4. wrong = {}
  <2> SUFFICES ASSUME wrong # {} PROVE FALSE
    OBVIOUS
  <2>1. PICK j \in wrong : \A k \in wrong : j <= k
    <3>1. wrong \in SUBSET Nat
      OBVIOUS
    <3> HIDE DEF wrong
    <3> QED BY <3>1, LeastElement
  <2>2. /\ j \in 0..(n - 1) /\ n - j \in 1..n /\ f[order[n - j]] # from(j)
        /\ j \in Nat /\ j + 1 \in Nat
    OBVIOUS
  <2>3. from(j) \in [1..(j + 1) -> nodes] /\ from(j)[1] = order[n - j]
    <3>1. \A x \in 1..(j + 1) : (n - j) + (x - 1) \in 1..n
      BY <2>2
    <3>2. (n - j) + (1 - 1) = n - j /\ 1 \in 1..(j + 1)
      BY <2>2
    <3> QED BY <1>1, <3>1, <3>2
  <2>4. order[n - j] \in nodes /\ f[order[n - j]] = <<order[n - j]>> \o f[next[order[n - j]]]
    BY <1>1, <1>2, <2>2
  <2>5. CASE j = 0
    <3> DEFINE s == from(j)
               p == order[n - j]
               t == f[next[order[n - j]]]
    <3>1. t = <<>>
      BY <1>1, <1>3, <2>2, <2>5
    <3>2. t \in [1..j -> nodes]
      BY <2>5, <3>1
    <3>3. \A x \in 1..j : s[x + 1] = t[x]
      BY <2>5
    <3>4. p \in nodes /\ s \in [1..(j + 1) -> nodes] /\ s[1] = p
      BY <2>3, <2>4
    <3>5. f[p] = <<p>> \o t /\ f[p] # s
      BY <2>2, <2>4
    <3> HIDE DEF s, p, t
    <3>6. <<p>> \o t = s
      BY <2>2, <3>2, <3>3, <3>4, InFrontOf
    <3> QED BY <3>5, <3>6
  <2>6. CASE j # 0
    <3>1. /\ j - 1 \in 0..(n - 1) /\ n - (j - 1) = (n - j) + 1 /\ n - j # n
          /\ (j - 1) + 1 = j /\ ~(j <= j - 1)
      BY <2>2, <2>6
    <3>2. f[order[n - (j - 1)]] = from(j - 1)
      BY <2>1, <3>1
    <3>3. next[order[n - j]] = order[n - (j - 1)]
      BY <1>1, <2>2, <3>1
    <3> DEFINE s == from(j)
               p == order[n - j]
               t == from(j - 1)
    <3>4. t \in [1..j -> nodes]
      <4>1. \A x \in 1..j : (n - (j - 1)) + (x - 1) \in 1..n
        BY <2>2
      <4> QED BY <1>1, <3>1, <4>1
    <3>5. \A x \in 1..j : s[x + 1] = t[x]
      <4> TAKE x \in 1..j
      <4>1. x + 1 \in 1..(j + 1) /\ x \in 1..((j - 1) + 1)
            /\ (n - j) + ((x + 1) - 1) = (n - (j - 1)) + (x - 1)
        BY <2>2
      <4> QED BY <4>1
    <3>6. p \in nodes /\ s \in [1..(j + 1) -> nodes] /\ s[1] = p
      BY <2>3, <2>4
    <3>7. f[p] = <<p>> \o t /\ f[p] # s
      BY <2>2, <2>4, <3>2, <3>3
    <3> HIDE DEF s, p, t
    <3>8. <<p>> \o t = s
      BY <2>2, <3>4, <3>5, <3>6, InFrontOf
    <3> QED BY <3>7, <3>8
  <2> QED BY <2>5, <2>6
<1>5. f[order[1]] = from(n - 1)
  <2>1. n - 1 \in 0..(n - 1) /\ n - (n - 1) = 1
    OBVIOUS
  <2> QED BY <1>4, <2>1
<1>6. from(n - 1) = order
  <2>1. (n - 1) + 1 = n /\ \A x \in 1..n : (n - (n - 1)) + (x - 1) = x
    OBVIOUS
  <2>2. order = [x \in 1..n |-> order[x]]
    BY <1>1
  <2> QED BY <2>1, <2>2
<1> QED BY <1>5, <1>6

LEMMA ChainOfPool ==
  ASSUME SmallocInv, Usable, NEW nodes, ListsApart(mem, nodes, CacheSizes),
         NEW i \in CacheSizes
  PROVE  \E n \in Nat \ {0} : \E order :
           /\ Chain(i) = order
           /\ Linked(order, n, nodes[i], mem.next, mem.prev, NULL)
           /\ order[n] = mem.pools[i].end /\ n = mem.pools[i].balance
<1> DEFINE dom == Mapped(mem)
           l   == ListOf(mem, i)
           n   == mem.pools[i].balance
<1>1. /\ NULL \notin dom /\ mem.next \in [dom -> dom \cup {NULL}]
      /\ Acyclic(mem.next, dom)
  <2>1. MemOK(mem, CacheSizes)
    BY UsableMemory
  <2> QED BY <2>1, HeapFacts DEF MemOK, MemTypeOK
<1>2. /\ l.next = mem.next /\ l.prev = mem.prev
      /\ l.start = mem.pools[i].start /\ l.end = mem.pools[i].end
  BY DEF ListOf
<1>3. IsList(l, dom, nodes[i], n) /\ nodes[i] \subseteq dom
  BY DEF ListsApart, OwnList
<1>4. n \in Nat \ {0} /\ \E order \in [1..n -> nodes[i]] : ListOrder(l, nodes[i], n, order)
  BY <1>3 DEF IsList
<1>5. PICK order : ListOrder(l, nodes[i], n, order)
  BY <1>4
<1>6. /\ Linked(order, n, nodes[i], mem.next, mem.prev, NULL)
      /\ order[1] = mem.pools[i].start /\ order[n] = mem.pools[i].end
  BY <1>2, <1>5 DEF ListOrder
<1> DEFINE F(f) == [p \in dom \cup {NULL} |->
                      IF p = NULL THEN <<>> ELSE <<p>> \o f[mem.next[p]]]
           list == CHOOSE f : f = F(f)
<1>7. \E f : f = F(f)
  <2>1. \E f : Chains(mem.next, dom, f)
    <3> HIDE DEF dom
    <3> QED BY <1>1, AcyclicChains
  <2> QED BY <2>1, Zenon DEF Chains
<1>8. Chains(mem.next, dom, list)
  <2>1. list = F(list)
    <3> HIDE DEF F
    <3> QED BY <1>7
  <2> HIDE DEF list
  <2> QED BY <2>1 DEF Chains
<1>9. Chain(i) = list[mem.pools[i].start]
  BY DEF Chain
<1> HIDE DEF list, dom
<1>10. list[order[1]] = order
  <2> DEFINE own   == nodes[i]
             next  == mem.next
             prev  == mem.prev
  <2>1. /\ NULL \notin dom /\ next \in [dom -> dom \cup {NULL}]
        /\ own \subseteq dom /\ n \in Nat \ {0}
        /\ Chains(next, dom, list) /\ Linked(order, n, own, next, prev, NULL)
    BY <1>1, <1>3, <1>4, <1>6, <1>8
  <2> HIDE DEF l, n, own, next, prev, F
  <2> QED BY <2>1, ChainIsOrder
<1>11. Chain(i) = order
  BY <1>6, <1>9, <1>10
<1> QED BY <1>4, <1>6, <1>11

\* What PoolsApart says of a chain, of the function that it is.
IsChain(s, nodes, n, next, prev) ==
  /\ Range(s) = nodes
  /\ Len(s) = n
  /\ Last(s) = s[n]
  /\ Linked(s, Len(s), Range(s), [p \in Range(s) |-> next[p]],
            [p \in Range(s) |-> prev[p]], NULL)

LEMMA LinkedChain ==
  ASSUME NEW S, NEW nodes \in SUBSET S, NEW next, NEW prev,
         NEW n \in Nat \ {0}, NEW order,
         Linked(order, n, nodes, next, prev, NULL)
  PROVE  IsChain(order, nodes, n, next, prev)
<1>1. /\ order \in [1..n -> nodes] /\ DOMAIN order = 1..n
      /\ \A x \in nodes : \E k \in 1..n : order[k] = x
      /\ \A k \in 1..n : order[k] \in nodes
  BY DEF Linked
<1>2. order \in Seq(nodes) /\ Len(order) = n
  <2>1. order \in Seq(nodes)
    BY <1>1, SeqDef
  <2> QED BY <1>1, <2>1, LenProperties
<1>3. Range(order) = nodes
  BY <1>1 DEF Range
<1>4. Last(order) = order[n]
  BY <1>2 DEF Last
<1>5. Linked(order, n, nodes, [p \in nodes |-> next[p]], [p \in nodes |-> prev[p]], NULL)
  BY <1>1 DEF Linked
<1> QED BY <1>2, <1>3, <1>4, <1>5 DEF IsChain

LEMMA InvPoolsApart ==
  ASSUME SmallocInv
  PROVE  PoolsApart
<1> SUFFICES ASSUME Usable PROVE
      /\ \A i \in CacheSizes :
           /\ Linked(Chain(i), Len(Chain(i)), Range(Chain(i)),
                     [p \in Range(Chain(i)) |-> mem.next[p]],
                     [p \in Range(Chain(i)) |-> mem.prev[p]], NULL)
           /\ Last(Chain(i)) = mem.pools[i].end
           /\ Len(Chain(i)) = mem.pools[i].balance
           /\ \A p \in Range(Chain(i)) : mem.slabs[p].size = i
      /\ \A i, j \in CacheSizes : i # j => Range(Chain(i)) \cap Range(Chain(j)) = {}
      /\ \A p \in Mapped(mem) :
           mem.slabs[p].ref_count > 0 => \E i \in CacheSizes : p \in Range(Chain(i))
  BY DEF PoolsApart
<1>1. PICK nodes : ListsApart(mem, nodes, CacheSizes)
  BY UsableMemory DEF MemOK
<1>2. ASSUME NEW i \in CacheSizes
      PROVE  /\ Range(Chain(i)) = nodes[i]
             /\ Last(Chain(i)) = mem.pools[i].end
             /\ Len(Chain(i)) = mem.pools[i].balance
             /\ Linked(Chain(i), Len(Chain(i)), Range(Chain(i)),
                       [p \in Range(Chain(i)) |-> mem.next[p]],
                       [p \in Range(Chain(i)) |-> mem.prev[p]], NULL)
  <2> DEFINE P(n, order) == /\ Chain(i) = order
                            /\ Linked(order, n, nodes[i], mem.next, mem.prev, NULL)
                            /\ order[n] = mem.pools[i].end /\ n = mem.pools[i].balance
  <2>0. PICK n \in Nat \ {0} : \E order : P(n, order)
    BY <1>1, ChainOfPool
  <2>1. PICK order : P(n, order)
    BY <2>0
  <2>2. nodes[i] \in SUBSET Mapped(mem)
    BY <1>1 DEF ListsApart
  <2>3. IsChain(order, nodes[i], n, mem.next, mem.prev)
    <3> HIDE DEF Mapped
    <3> QED BY <2>1, <2>2, LinkedChain
  <2> QED BY <2>1, <2>3, Zenon DEF IsChain
<1>3. /\ \A i \in CacheSizes : \A p \in nodes[i] : mem.slabs[p].size = i
      /\ \A i, j \in CacheSizes : i # j => nodes[i] \cap nodes[j] = {}
      /\ \A p \in Lost(mem, nodes) : mem.slabs[p].ref_count = 0
  BY <1>1 DEF ListsApart, OwnList
<1>4. ASSUME NEW p \in Mapped(mem), mem.slabs[p].ref_count > 0
      PROVE  \E i \in CacheSizes : p \in nodes[i]
  <2>1. p \notin Lost(mem, nodes)
    BY <1>3, <1>4
  <2> QED BY <2>1 DEF Lost
<1>5. \A i, j \in CacheSizes : i # j => Range(Chain(i)) \cap Range(Chain(j)) = {}
  BY <1>2, <1>3
<1>6. ASSUME NEW i \in CacheSizes
      PROVE  \A p \in Range(Chain(i)) : mem.slabs[p].size = i
  BY <1>2, <1>3
<1>7. ASSUME NEW p \in Mapped(mem), mem.slabs[p].ref_count > 0
      PROVE  \E i \in CacheSizes : p \in Range(Chain(i))
  BY <1>2, <1>4, <1>7
<1> QED BY <1>2, <1>5, <1>6, <1>7, Zenon

LEMMA InvTypeOK ==
  ASSUME SmallocInv
  PROVE  SmallocTypeOK
<1> DEFINE Link == Mapped(mem) \cup {NULL}
<1>1. MemTypeOK(mem) /\ SlabsOK(mem.slabs)
  BY DEF SmallocInv, MemOK
<1>2. /\ Mapped(mem) \subseteq Pages
      /\ mem.next \in [Mapped(mem) -> Link] /\ mem.prev \in [Mapped(mem) -> Link]
      /\ mem.pools \in [CacheSizes -> [start : Link, end : Link, balance : Nat]]
      /\ mem.chunks \subseteq MallocPtrs
  BY <1>1 DEF MemTypeOK
<1>3. \A p \in Mapped(mem) : SlabTypeOK(mem.slabs[p])
  BY <1>1 DEF SlabsOK, WellFormed, Mapped
<1>4. /\ inits \in 0..MaxInits
      /\ \A ptr \in DOMAIN held : held[ptr] \in [size : RequestSizes, data : Values \cup {Junk}]
      /\ fault \in Faults
  BY DEF SmallocInv, HeldOK, NoOverflowNoNull, Faults
<1>5. fault \in {"none", "mmap failed", "malloc failed", "NULL followed",
                "copy overflows", "bufctls overwritten"}
  BY <1>4 DEF Faults
<1> QED BY <1>2, <1>3, <1>4, <1>5 DEF SmallocTypeOK

LEMMA InvHeldAreBusy ==
  ASSUME SmallocInv
  PROVE  HeldAreBusy
<1>1. Usable => DOMAIN held = mem.chunks \cup UNION {BusyPtrs(mem.slabs[p]) : p \in Mapped(mem)}
  BY DEF SmallocInv, HeldOK, Blocks, BusyOf, Mapped
<1>2. \A ptr \in DOMAIN held : held[ptr].size <= Capacity(mem, ptr, held[ptr].size)
  BY DEF SmallocInv, HeldOK
<1>3. Usable => \A ptr \in DOMAIN held : held[ptr].data # Junk => ~OverBufctls(mem, ptr)
  BY DEF SmallocInv, Uncovered, Usable
<1> QED BY <1>1, <1>2, <1>3 DEF HeldAreBusy

-----------------------------------------------------------------------------
\* The inductive invariant holds throughout: between two calls each pool of
\* smalloc.c has a list of slabs of its own, links end, and the program holds
\* exactly what is in use.
THEOREM SmallocInvariance == Spec => []SmallocInv
<1>1. Init => SmallocInv
  BY InitInv
<1>2. SmallocInv /\ [Next]_vars => SmallocInv'
  BY NextStep
<1> QED BY <1>1, <1>2, PTL DEF Spec

\* Whatever smalloc.c links, counts and hands out has its type: a link leads
\* to a mapped slab or is NULL.
THEOREM SmallocTypeCorrect == Spec => []SmallocTypeOK
<1>1. SmallocInv => SmallocTypeOK
  BY InvTypeOK
<1> QED BY <1>1, SmallocInvariance, PTL

\* The lists of the pools, followed along the links of slab_pool.c, are linked
\* both ways, disjoint, of one size each, and have every slab in use.
THEOREM PoolsStayApart == Spec => []PoolsApart
<1>1. SmallocInv => PoolsApart
  BY InvPoolsApart
<1> QED BY <1>1, SmallocInvariance, PTL

\* The program holds exactly the busy buffers and the blocks of the C library:
\* sfree and srealloc free what they are given, and nothing else.  No bufctl,
\* which later calls change, lies in what has been written to a block.
THEOREM HeldStayBusy == Spec => []HeldAreBusy
<1>1. SmallocInv => HeldAreBusy
  BY InvHeldAreBusy
<1> QED BY <1>1, SmallocInvariance, PTL

\* srealloc's memcpy never writes past its buffer and sfree never follows
\* NULL: what goes wrong is an unchecked failure of mmap or malloc, or a write
\* to one of the buffers that slab.c lays over its bufctls.
THEOREM FaultsAreFailures == Spec => []NoOverflowNoNull
<1>1. SmallocInv => NoOverflowNoNull
  BY DEF SmallocInv
<1> QED BY <1>1, SmallocInvariance, PTL

\* smalloc.c implements a heap up to the first write to a buffer that covers
\* bufctls, where behaviours end (the first buffers of every slab do, so the
\* promise is that of a program that writes to the others): blocks in use never
\* overlap, and keep their data when srealloc moves them between pools or to
\* the C library.
THEOREM SmallocImplementsHeap == Spec => ImplementsHeap
<1>1. Init => SmallocInv /\ TheHeap!Init
  BY InitInv
<1>2. SmallocInv /\ [Next]_vars => SmallocInv' /\ [TheHeap!Next]_held
  BY NextStep
<1> QED BY <1>1, <1>2, PTL DEF Spec, ImplementsHeap, TheHeap!Spec
=============================================================================
