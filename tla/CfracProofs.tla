----------------------------- MODULE CfracProofs -----------------------------
(***************************************************************************)
(* The storage of the numbers (PrecisionMemory) keeps every number as long *)
(* as somebody has it, for all cells, sizes, caches and depths of calls,   *)
(* as one part of the cfrac benchmark (Cfrac).                             *)
(***************************************************************************)
EXTENDS Cfrac, DoublyLinkedProofs, SequenceTheorems

Stores == [ref : [Cells -> 0..RefLimit - 1], alloc : [Cells -> Nat], cache : [Sizes -> Seq(Cells)]]

CachedIn(s) == UNION {ToSet(s.cache[size]) : size \in Sizes}

AliveIn(s, c) == s.alloc[c] # 0 /\ c \notin CachedIn(s)

CacheOK(s) ==
  \A size \in Sizes :
    /\ Len(s.cache[size]) <= CacheLimit
    /\ size >= CacheSize => s.cache[size] = <<>>
    /\ \A i, j \in 1..Len(s.cache[size]) : s.cache[size][i] = s.cache[size][j] => i = j
    /\ \A i \in 1..Len(s.cache[size]) : s.alloc[s.cache[size][i]] = size

\* h says how many variables and parameters have each cell, w which cells are
\* results on their way.
StoreOK(s, h, w) ==
  /\ s \in Stores /\ h \in [Cells -> Nat] /\ w \subseteq Cells
  /\ s.alloc[pzeroCell] = 1
  /\ \A c \in Cells \ {pzeroCell} : s.alloc[c] \in Sizes \cup {0}
  /\ CacheOK(s)
  /\ \A c \in Cells : AliveIn(s, c) => s.ref[c] = h[c] /\ (h[c] = 0 => c \in w)
  /\ \A c \in Cells : h[c] > 0 \/ c \in w => AliveIn(s, c)
  /\ h[pzeroCell] > 0

Frames == [params : Seq(Cells), locals : {l \in Seq(Cells \cup {pUndef}) : Len(l) = 2},
           pending : Seq(Cells)]

FramesOK(fr) ==
  /\ fr \in Seq(Frames) /\ Len(fr) \in 1..MaxCalls + 1
  /\ \A k \in 1..Len(fr) :
       /\ Len(fr[k].params) <= MaxPending /\ Len(fr[k].pending) <= MaxPending
       /\ k < Len(fr) => Len(fr[k].pending) < MaxPending

\* The frame f has the cell c.
Has(f, c) ==
  \/ \E i \in 1..Len(f.params) : f.params[i] = c
  \/ \E i \in 1..2 : f.locals[i] = c

\* One of the first n frames has it, or everybody.
Held(fr, n, c) == c = pzeroCell \/ \E k \in 1..n : Has(fr[k], c)

\* What has been evaluated for a call is protected by a variable or parameter
\* of the same function or of one that waits for it; or nobody has it, and it
\* occurs once.
PendingOK(fr) ==
  \A k \in 1..Len(fr) : \A i \in 1..Len(fr[k].pending) :
    \/ Held(fr, k, fr[k].pending[i])
    \/ /\ ~Held(fr, Len(fr), fr[k].pending[i])
       /\ \A l \in 1..Len(fr) : \A j \in 1..Len(fr[l].pending) :
            fr[l].pending[j] = fr[k].pending[i] => l = k /\ j = i

\* How often the cell c occurs in a sequence, and in the frames.
Occurs(seq, c) == Cardinality({j \in 1..Len(seq) : seq[j] = c})

HoldersIn(fr, c) ==
  (IF c = pzeroCell THEN 1 ELSE 0)
  + Cardinality({p \in (1..Len(fr)) \X (1..2) : fr[p[1]].locals[p[2]] = c})
  + Cardinality({p \in (1..Len(fr)) \X (1..MaxPending) :
                   p[2] <= Len(fr[p[1]].params) /\ fr[p[1]].params[p[2]] = c})

CountsOf(fr) == [c \in Cells |-> HoldersIn(fr, c)]

Waits(fr) == {c \in Cells : \E k \in 1..Len(fr) : \E i \in 1..Len(fr[k].pending) :
                              fr[k].pending[i] = c}

\* The inductive invariant of the storage.
MemoryInv ==
  /\ FramesOK(frames)
  /\ PendingOK(frames)
  /\ StoreOK(Store, CountsOf(frames), Waits(frames))

-----------------------------------------------------------------------------
(* One step on the store. *)
LEMMA Constants ==
  /\ pzeroCell \in Cells /\ pUndef \notin Cells
  /\ Cells \subseteq Nat \ {0} /\ IsFiniteSet(Cells)
  /\ Sizes \subseteq Nat \ {0}
  /\ CacheSize \in Nat /\ CacheLimit \in Nat /\ MaxCalls \in Nat /\ MaxPending \in Nat
  /\ RefLimit \in Nat \ {0}
<1>1. /\ IsFiniteSet(Cells) /\ Cells = 1..Cardinality(Cells) /\ Cells # {}
      /\ Sizes \subseteq Nat \ {0}
      /\ {CacheSize, CacheLimit, MaxCalls, MaxPending} \subseteq Nat
      /\ RefLimit \in Nat /\ RefLimit > (MaxCalls + 1) * (MaxPending + 2) + 2
  BY PrecisionMemoryAssumption
<1>2. Cardinality(Cells) \in Nat
  BY <1>1, FS_CardinalityType
<1>3. pzeroCell \in Cells /\ pUndef \notin Cells /\ Cells \subseteq Nat \ {0}
  BY <1>1, <1>2 DEF pzeroCell, pUndef
<1>4. MaxCalls \in Nat /\ MaxPending \in Nat
  BY <1>1
<1>5. (MaxCalls + 1) * (MaxPending + 2) \in Nat
  BY <1>4, SMT
<1> QED BY <1>1, <1>3, <1>4, <1>5

\* Counting does not touch what is alive.
LEMMA SameCells ==
  ASSUME NEW s, NEW t, t.alloc = s.alloc, t.cache = s.cache
  PROVE  /\ CacheOK(s) => CacheOK(t)
         /\ \A c : AliveIn(t, c) <=> AliveIn(s, c)
BY DEF CacheOK, AliveIn, CachedIn

\* Of the store s, only the count of c differs in t: it is x.
Counted(s, t, c, x) ==
  /\ t \in Stores /\ t.alloc = s.alloc /\ t.cache = s.cache
  /\ t.ref = [s.ref EXCEPT ![c] = x]

\* The count of a cell becomes x, the cell perhaps a result.
LEMMA CountOK ==
  ASSUME NEW s, NEW h, NEW w, StoreOK(s, h, w),
         NEW c \in Cells, h[c] > 0 \/ c \in w,
         NEW x \in 0..RefLimit - 1, c = pzeroCell => x > 0,
         NEW v, w \subseteq v, v \subseteq w \cup {c}, x = 0 => c \in v,
         NEW t, Counted(s, t, c, x)
  PROVE  StoreOK(t, [h EXCEPT ![c] = x], v)
<1> DEFINE g == [h EXCEPT ![c] = x]
<1>1. s \in Stores /\ h \in [Cells -> Nat] /\ w \subseteq Cells /\ v \subseteq Cells
  BY DEF StoreOK
<1>2. AliveIn(s, c)
  BY DEF StoreOK
<1>5. /\ t \in Stores /\ t.alloc = s.alloc /\ t.cache = s.cache
      /\ t.ref = [s.ref EXCEPT ![c] = x]
  BY DEF Counted
<1>6. \A d : AliveIn(t, d) <=> AliveIn(s, d)
  BY <1>5, SameCells
<1>7. CacheOK(t)
  BY <1>5, SameCells DEF StoreOK
<1>8. g \in [Cells -> Nat] /\ g[c] = x /\ \A d \in Cells \ {c} : g[d] = h[d]
  BY <1>1
<1>9. t.ref[c] = x /\ \A d \in Cells \ {c} : t.ref[d] = s.ref[d]
  BY <1>1, <1>5 DEF Stores
<1> HIDE DEF g
<1>10. \A d \in Cells : AliveIn(t, d) => t.ref[d] = g[d] /\ (g[d] = 0 => d \in v)
  <2> SUFFICES ASSUME NEW d \in Cells, AliveIn(s, d)
               PROVE  t.ref[d] = g[d] /\ (g[d] = 0 => d \in v)
    BY <1>6
  <2>1. s.ref[d] = h[d] /\ (h[d] = 0 => d \in w)
    BY DEF StoreOK
  <2> QED BY <1>8, <1>9, <2>1
<1>11. \A d \in Cells : g[d] > 0 \/ d \in v => AliveIn(t, d)
  <2> SUFFICES ASSUME NEW d \in Cells, g[d] > 0 \/ d \in v
               PROVE  AliveIn(s, d)
    BY <1>6
  <2>1. CASE d = c
    BY <1>2, <2>1
  <2>2. CASE d # c
    BY <1>8, <2>2 DEF StoreOK
  <2> QED BY <2>1, <2>2
<1>12. g[pzeroCell] > 0
  <2>1. h[pzeroCell] > 0 /\ pzeroCell \in Cells
    BY <1>1, Constants DEF StoreOK
  <2> QED BY <1>8, <2>1
<1>13. StoreOK(t, g, v)
  <2>1. s.alloc[pzeroCell] = 1 /\ \A d \in Cells \ {pzeroCell} : s.alloc[d] \in Sizes \cup {0}
    BY DEF StoreOK
  <2> QED BY <1>1, <1>5, <1>7, <1>8, <1>10, <1>11, <1>12, <2>1 DEF StoreOK
<1> QED BY <1>13 DEF g

LEMMA UpOK ==
  ASSUME NEW s, NEW h, NEW w, StoreOK(s, h, w),
         NEW c \in Cells, h[c] > 0 \/ c \in w, h[c] + 1 < RefLimit
  PROVE  StoreOK(Up(s, c), [h EXCEPT ![c] = @ + 1], w)
<1> DEFINE x == h[c] + 1
           t == [s EXCEPT !.ref[c] = x]
<1>0. RefLimit \in Nat \ {0} /\ c # pUndef
  BY Constants
<1>1. s \in Stores /\ h[c] \in Nat /\ w \subseteq Cells /\ s.ref[c] = h[c]
  BY DEF StoreOK
<1>2. (s.ref[c] + 1) % RefLimit = x /\ x \in 0..RefLimit - 1 /\ x > 0
  BY <1>0, <1>1
<1>3. Up(s, c) = t
  BY <1>0, <1>2 DEF Up
<1> HIDE DEF x
<1>4. Counted(s, t, c, x)
  BY <1>1, <1>2 DEF Counted, Stores
<1> HIDE DEF t
<1>t. w \subseteq w /\ w \subseteq w \cup {c}
  OBVIOUS
<1>u. x # 0
  BY <1>2
<1>5. StoreOK(t, [h EXCEPT ![c] = x], w)
  BY <1>2, <1>4, <1>t, <1>u, CountOK
<1> QED BY <1>3, <1>5 DEF x

LEMMA DownOK ==
  ASSUME NEW s, NEW h, NEW w, StoreOK(s, h, w),
         NEW c \in Cells, h[c] > 0, c = pzeroCell => h[c] > 1
  PROVE  /\ StoreOK(Down(s, c), [h EXCEPT ![c] = @ - 1], w \cup {c})
         /\ h[c] > 1 => StoreOK(Down(s, c), [h EXCEPT ![c] = @ - 1], w)
         /\ Counted(s, Down(s, c), c, h[c] - 1)
<1> DEFINE x == h[c] - 1
           t == [s EXCEPT !.ref[c] = x]
           v == w \cup {c}
<1>0. RefLimit \in Nat \ {0} /\ c # pUndef
  BY Constants
<1>1. s \in Stores /\ h[c] \in Nat /\ w \subseteq Cells /\ s.ref[c] = h[c] /\ s.ref[c] \in 0..RefLimit - 1
  BY DEF StoreOK, Stores
<1>2. /\ (s.ref[c] - 1) % RefLimit = x /\ x \in 0..RefLimit - 1
      /\ c = pzeroCell => x > 0
      /\ h[c] > 1 => x > 0
  BY <1>0, <1>1
<1>3. Down(s, c) = t
  BY <1>0, <1>2 DEF Down
<1> HIDE DEF x
<1>4. Counted(s, t, c, x)
  BY <1>1, <1>2 DEF Counted, Stores
<1> HIDE DEF t
<1>5. StoreOK(t, [h EXCEPT ![c] = x], v)
  <2>1. w \subseteq v /\ v \subseteq w \cup {c} /\ c \in v
    OBVIOUS
  <2> HIDE DEF v
  <2> QED BY <1>2, <1>4, <2>1, CountOK
<1>t. w \subseteq w /\ w \subseteq w \cup {c}
  OBVIOUS
<1>6. ASSUME h[c] > 1 PROVE StoreOK(t, [h EXCEPT ![c] = x], w)
  <2>1. x > 0
    BY <1>2, <1>6
  <2>2. x # 0
    BY <1>2, <2>1
  <2> QED BY <1>2, <1>4, <1>t, <2>1, <2>2, CountOK
<1> QED BY <1>3, <1>4, <1>5, <1>6 DEF x

LEMMA InCache ==
  ASSUME NEW s \in Stores
  PROVE  /\ \A size \in Sizes : /\ s.cache[size] \in Seq(Cells)
                                /\ Len(s.cache[size]) \in Nat
                                /\ DOMAIN s.cache[size] = 1..Len(s.cache[size])
                                /\ \A i \in 1..Len(s.cache[size]) : s.cache[size][i] \in Cells
         /\ \A d : d \in CachedIn(s) <=>
              \E size \in Sizes : \E i \in 1..Len(s.cache[size]) : s.cache[size][i] = d
<1>1. \A size \in Sizes : /\ s.cache[size] \in Seq(Cells)
                          /\ Len(s.cache[size]) \in Nat
                          /\ DOMAIN s.cache[size] = 1..Len(s.cache[size])
                          /\ \A i \in 1..Len(s.cache[size]) : s.cache[size][i] \in Cells
  BY DEF Stores
<1>2. \A size \in Sizes : ToSet(s.cache[size]) =
        {s.cache[size][i] : i \in 1..Len(s.cache[size])}
  BY <1>1 DEF ToSet
<1>3. \A d : d \in CachedIn(s) <=>
        \E size \in Sizes : \E i \in 1..Len(s.cache[size]) : s.cache[size][i] = d
  <2> SUFFICES ASSUME NEW d
               PROVE  d \in CachedIn(s) <=>
                 \E size \in Sizes : \E i \in 1..Len(s.cache[size]) : s.cache[size][i] = d
    OBVIOUS
  <2>1. d \in CachedIn(s) <=> \E size \in Sizes : d \in ToSet(s.cache[size])
    BY DEF CachedIn
  <2>2. \A size \in Sizes : d \in ToSet(s.cache[size]) <=>
          \E i \in 1..Len(s.cache[size]) : s.cache[size][i] = d
    BY <1>2
  <2> QED BY <2>1, <2>2
<1> QED BY <1>1, <1>3

\* What was freed is no longer alive, whether the cache takes it or not, and
\* everything else is as it was.
LEMMA FreeAlive ==
  ASSUME NEW s, s \in Stores, CacheOK(s), NEW c \in Cells, AliveIn(s, c), s.alloc[c] \in Sizes
  PROVE  LET u == pfree(s, c)
         IN  /\ u \in Stores /\ u.ref = s.ref /\ CacheOK(u)
             /\ \A d \in Cells : AliveIn(u, d) <=> AliveIn(s, d) /\ d # c
             /\ \A d \in Cells \ {c} : u.alloc[d] = s.alloc[d]
             /\ u.alloc[c] \in Sizes \cup {0}
<1> DEFINE size == s.alloc[c]
           u == pfree(s, c)
<1>0. /\ size \in Sizes /\ size \in Nat \ {0} /\ CacheLimit \in Nat /\ CacheSize \in Nat
      /\ Sizes \subseteq Nat \ {0}
  BY Constants
<1>1. /\ c \notin CachedIn(s)
      /\ s.ref \in [Cells -> 0..RefLimit - 1] /\ s.alloc \in [Cells -> Nat]
      /\ s.cache \in [Sizes -> Seq(Cells)]
  BY DEF AliveIn, Stores
<1>2. ASSUME CacheTakes(s, size)
      PROVE  /\ u \in Stores /\ u.ref = s.ref /\ CacheOK(u)
             /\ \A d \in Cells : AliveIn(u, d) <=> AliveIn(s, d) /\ d # c
             /\ u.alloc = s.alloc
  <2> DEFINE old == s.cache[size]
             new == <<c>> \o old
  <2>1. old \in Seq(Cells) /\ Len(old) \in Nat
    BY <1>0, <1>1
  <2>2. /\ new \in Seq(Cells) /\ Len(new) = Len(old) + 1 /\ new[1] = c
        /\ \A i \in 1..Len(old) : new[i + 1] = old[i]
        /\ \A i \in 1..Len(new) : i = 1 \/ (i - 1 \in 1..Len(old) /\ new[i] = old[i - 1])
    <3> HIDE DEF old
    <3> QED BY <2>1
  <2>3. u = [s EXCEPT !.cache[size] = new]
    BY <1>2 DEF pfree
  <2> HIDE DEF new, u
  <2>4. /\ u \in Stores /\ u.ref = s.ref /\ u.alloc = s.alloc
        /\ u.cache = [s.cache EXCEPT ![size] = new]
    BY <1>0, <2>2, <2>3 DEF Stores
  <2>5. u.cache[size] = new /\ \A z \in Sizes \ {size} : u.cache[z] = s.cache[z]
    BY <1>0, <1>1, <2>4
  <2>6. \A i \in 1..Len(old) : old[i] \in CachedIn(s) /\ old[i] # c
    BY <1>0, <1>1, InCache
  <2>7. ASSUME NEW z \in Sizes
        PROVE  /\ Len(u.cache[z]) <= CacheLimit
               /\ z >= CacheSize => u.cache[z] = <<>>
               /\ \A i, j \in 1..Len(u.cache[z]) : u.cache[z][i] = u.cache[z][j] => i = j
               /\ \A i \in 1..Len(u.cache[z]) : u.alloc[u.cache[z][i]] = z
    <3>1. CASE z = size
      <4>1. /\ Len(old) < CacheLimit /\ size < CacheSize
        BY <1>2 DEF CacheTakes
      <4>2. \A i, j \in 1..Len(old) : old[i] = old[j] => i = j
        BY <1>0 DEF CacheOK
      <4>3. \A i \in 1..Len(old) : s.alloc[old[i]] = size
        BY <1>0 DEF CacheOK
      <4> HIDE DEF old
      <4>4. Len(new) <= CacheLimit
        BY <1>0, <2>1, <2>2, <4>1
      <4>5. ~(size >= CacheSize)
        BY <1>0, <4>1
      <4>6. ASSUME NEW i \in 1..Len(new), NEW j \in 1..Len(new), new[i] = new[j] PROVE i = j
        <5>1. CASE i = 1 /\ j = 1
          BY <5>1
        <5>2. CASE i = 1 /\ j # 1
          BY <2>2, <2>6, <4>6, <5>2
        <5>3. CASE i # 1 /\ j = 1
          BY <2>2, <2>6, <4>6, <5>3
        <5>4. CASE i # 1 /\ j # 1
          <6>1. i - 1 = j - 1
            BY <2>2, <4>2, <4>6, <5>4
          <6> QED BY <6>1
        <5> QED BY <5>1, <5>2, <5>3, <5>4
      <4>7. ASSUME NEW i \in 1..Len(new) PROVE s.alloc[new[i]] = size
        <5> HIDE DEF size
        <5>1. s.alloc[c] = size
          BY DEF size
        <5> QED BY <2>2, <4>3, <5>1
      <4> HIDE DEF size
      <4> QED BY <2>4, <2>5, <3>1, <4>4, <4>5, <4>6, <4>7
    <3>2. CASE z # size
      <4>1. u.cache[z] = s.cache[z]
        BY <2>5, <3>2
      <4> QED BY <2>4, <4>1 DEF CacheOK
    <3> QED BY <3>1, <3>2
  <2>8. CacheOK(u)
    BY <2>7 DEF CacheOK
  <2>9. ASSUME NEW d \in Cells PROVE d \in CachedIn(u) <=> d \in CachedIn(s) \/ d = c
    <3>1. ASSUME d \in CachedIn(s) PROVE d \in CachedIn(u)
      <4>1. PICK z \in Sizes : \E i \in 1..Len(s.cache[z]) : s.cache[z][i] = d
        BY <3>1, InCache
      <4>2. PICK i \in 1..Len(s.cache[z]) : s.cache[z][i] = d
        BY <4>1
      <4>3. CASE z = size
        <5>1. i \in 1..Len(old) /\ old[i] = d
          BY <4>2, <4>3
        <5> HIDE DEF old
        <5>2. i + 1 \in 1..Len(new) /\ new[i + 1] = d
          BY <2>1, <2>2, <5>1
        <5> HIDE DEF size
        <5> QED BY <1>0, <2>4, <2>5, <5>2, InCache
      <4>4. CASE z # size
        <5>1. u.cache[z] = s.cache[z]
          BY <2>5, <4>4
        <5> QED BY <2>4, <4>2, <5>1, InCache
      <4> QED BY <4>3, <4>4
    <3>2. c \in CachedIn(u)
      <4>1. 1 \in 1..Len(new) /\ new[1] = c
        <5> HIDE DEF old
        <5> QED BY <2>1, <2>2
      <4> HIDE DEF size
      <4> QED BY <1>0, <2>4, <2>5, <4>1, InCache
    <3>3. ASSUME d \in CachedIn(u) PROVE d \in CachedIn(s) \/ d = c
      <4>1. PICK z \in Sizes : \E i \in 1..Len(u.cache[z]) : u.cache[z][i] = d
        BY <2>4, <3>3, InCache
      <4>2. PICK i \in 1..Len(u.cache[z]) : u.cache[z][i] = d
        BY <4>1
      <4>3. CASE z = size
        <5>1. i \in 1..Len(new) /\ new[i] = d
          BY <2>5, <4>2, <4>3
        <5>2. i = 1 \/ (i - 1 \in 1..Len(old) /\ d = old[i - 1])
          <6> HIDE DEF old
          <6> QED BY <2>2, <5>1
        <5>3. CASE i = 1
          BY <2>2, <5>1, <5>3
        <5>4. CASE i - 1 \in 1..Len(old) /\ d = old[i - 1]
          BY <2>6, <5>4
        <5> QED BY <5>2, <5>3, <5>4
      <4>4. CASE z # size
        <5>1. u.cache[z] = s.cache[z]
          BY <2>5, <4>4
        <5> QED BY <4>2, <5>1, InCache
      <4> QED BY <4>3, <4>4
    <3> QED BY <3>1, <3>2, <3>3
  <2>10. \A d \in Cells : AliveIn(u, d) <=> AliveIn(s, d) /\ d # c
    BY <2>4, <2>9 DEF AliveIn
  <2> QED BY <2>4, <2>8, <2>10
<1>3. ASSUME ~CacheTakes(s, size)
      PROVE  /\ u \in Stores /\ u.ref = s.ref /\ CacheOK(u)
             /\ \A d \in Cells : AliveIn(u, d) <=> AliveIn(s, d) /\ d # c
             /\ u.alloc = [s.alloc EXCEPT ![c] = 0]
  <2>1. u = [s EXCEPT !.alloc[c] = 0]
    BY <1>3 DEF pfree
  <2> HIDE DEF u
  <2>2. /\ u \in Stores /\ u.ref = s.ref /\ u.cache = s.cache
        /\ u.alloc = [s.alloc EXCEPT ![c] = 0]
    BY <2>1 DEF Stores
  <2>3. u.alloc[c] = 0 /\ \A d \in Cells \ {c} : u.alloc[d] = s.alloc[d]
    BY <1>1, <2>2
  <2>4. \A z \in Sizes : \A i \in 1..Len(s.cache[z]) : s.cache[z][i] \in Cells \ {c}
    BY <1>1, InCache
  <2>5. CacheOK(u)
    BY <2>2, <2>3, <2>4 DEF CacheOK
  <2>6. CachedIn(u) = CachedIn(s)
    BY <2>2 DEF CachedIn
  <2>7. \A d \in Cells : AliveIn(u, d) <=> AliveIn(s, d) /\ d # c
    BY <2>3, <2>6 DEF AliveIn
  <2> QED BY <2>2, <2>5, <2>7
<1>4. /\ u \in Stores /\ u.ref = s.ref /\ CacheOK(u)
      /\ \A d \in Cells : AliveIn(u, d) <=> AliveIn(s, d) /\ d # c
  BY <1>2, <1>3
<1>5. (\A d \in Cells \ {c} : u.alloc[d] = s.alloc[d]) /\ u.alloc[c] \in Sizes \cup {0}
  <2>1. CASE u.alloc = s.alloc
    BY <1>0, <2>1
  <2>2. CASE u.alloc = [s.alloc EXCEPT ![c] = 0]
    <3> HIDE DEF u
    <3> QED BY <1>1, <2>2
  <2> QED BY <1>2, <1>3, <2>1, <2>2
<1> QED BY <1>4, <1>5

\* The last holder of a cell frees it.
LEMMA DestroyOK ==
  ASSUME NEW s, NEW h, NEW w, StoreOK(s, h, w),
         NEW c \in Cells, h[c] > 0, c = pzeroCell => h[c] > 1, h[c] = 1 => c \notin w
  PROVE  StoreOK(pdestroy(s, c), [h EXCEPT ![c] = @ - 1], w)
<1> DEFINE t == Down(s, c)
           g == [h EXCEPT ![c] = @ - 1]
<1>0. RefLimit \in Nat \ {0} /\ c # pUndef /\ pzeroCell \in Cells
  BY Constants
<1>1. s \in Stores /\ h \in [Cells -> Nat] /\ h[c] \in Nat /\ w \subseteq Cells
  BY DEF StoreOK
<1>2. /\ StoreOK(t, g, w \cup {c})
      /\ h[c] > 1 => StoreOK(t, g, w)
      /\ Counted(s, t, c, h[c] - 1)
  BY DownOK
<1>3. /\ g \in [Cells -> Nat] /\ g[c] = h[c] - 1 /\ \A d \in Cells \ {c} : g[d] = h[d]
  BY <1>1
<1>4. pdestroy(s, c) = IF t.ref[c] = 0 THEN pfree(t, c) ELSE t
  BY <1>0 DEF pdestroy
<1> HIDE DEF t, g
<1>5. t.ref[c] = h[c] - 1 /\ \A d \in Cells \ {c} : t.ref[d] = s.ref[d]
  BY <1>1, <1>2 DEF Counted, Stores
<1>6. CASE h[c] > 1
  <2>1. t.ref[c] # 0
    BY <1>1, <1>5, <1>6
  <2> QED BY <1>2, <1>4, <1>6, <2>1 DEF g
<1>7. CASE h[c] = 1
  <2> DEFINE u == pfree(t, c)
  <2>1. t.ref[c] = 0 /\ c # pzeroCell /\ c \notin w
    BY <1>5, <1>7
  <2>2. /\ t \in Stores /\ CacheOK(t) /\ AliveIn(t, c)
        /\ t.alloc[pzeroCell] = 1
        /\ \A d \in Cells \ {pzeroCell} : t.alloc[d] \in Sizes \cup {0}
        /\ \A d \in Cells : AliveIn(t, d) => t.ref[d] = g[d] /\ (g[d] = 0 => d \in w \cup {c})
        /\ \A d \in Cells : g[d] > 0 \/ d \in w \cup {c} => AliveIn(t, d)
        /\ g[pzeroCell] > 0
    BY <1>2 DEF StoreOK
  <2>3. t.alloc[c] \in Sizes
    BY <2>1, <2>2 DEF AliveIn
  <2>4. /\ u \in Stores /\ u.ref = t.ref /\ CacheOK(u)
        /\ \A d \in Cells : AliveIn(u, d) <=> AliveIn(t, d) /\ d # c
        /\ \A d \in Cells \ {c} : u.alloc[d] = t.alloc[d]
        /\ u.alloc[c] \in Sizes \cup {0}
    BY <2>2, <2>3, FreeAlive
  <2>5. pdestroy(s, c) = u
    BY <1>4, <2>1
  <2> HIDE DEF u
  <2>6. u.alloc[pzeroCell] = 1 /\ \A d \in Cells \ {pzeroCell} : u.alloc[d] \in Sizes \cup {0}
    BY <1>0, <2>1, <2>2, <2>4
  <2>7. \A d \in Cells : AliveIn(u, d) => u.ref[d] = g[d] /\ (g[d] = 0 => d \in w)
    BY <2>2, <2>4
  <2>8. g[c] = 0
    BY <1>3, <1>7
  <2>9. \A d \in Cells : g[d] > 0 \/ d \in w => AliveIn(u, d)
    BY <2>1, <2>2, <2>4, <2>8
  <2>10. StoreOK(u, g, w)
    BY <1>1, <1>3, <2>2, <2>4, <2>6, <2>7, <2>9 DEF StoreOK
  <2> QED BY <2>5, <2>10 DEF g
<1> QED BY <1>1, <1>6, <1>7

\* What waits may change among what somebody has.
LEMMA OtherResults ==
  ASSUME NEW s, NEW h, NEW w, StoreOK(s, h, w),
         NEW v, v \subseteq Cells,
         \A c \in v \ w : h[c] > 0, \A c \in w \ v : h[c] > 0
  PROVE  StoreOK(s, h, v)
<1>1. \A c \in Cells : AliveIn(s, c) => s.ref[c] = h[c] /\ (h[c] = 0 => c \in v)
  BY DEF StoreOK
<1>2. \A c \in Cells : h[c] > 0 \/ c \in v => AliveIn(s, c)
  BY DEF StoreOK
<1> QED BY <1>1, <1>2 DEF StoreOK

-----------------------------------------------------------------------------
(* FoldLeft goes through a sequence from its first element to its last: it *)
(* is a recursive function of sets of places, which has a value because    *)
(* the sets are finite.                                                    *)

Turn(up, s, c) == IF up = "up" THEN Up(s, c) ELSE pdestroy(s, c)

\* What counting with all at the places t has made of s, if f has what
\* counting with fewer has.
Turned(f, up, s, seq, t) ==
  IF t = {} THEN s ELSE Turn(up, f[t \ {Largest(t)}], seq[Largest(t)])

CountsAt(f, up, s, seq, n) == f = [t \in SUBSET (1..n) |-> Turned(f, up, s, seq, t)]

LEMMA TurnedExists ==
  ASSUME NEW up, NEW s, NEW seq, NEW n \in Nat
  PROVE  \E f : CountsAt(f, up, s, seq, n)
<1> DEFINE all == SUBSET (1..n)
           Upto(k) == \E f : \A t \in all : Cardinality(t) < k => f[t] = Turned(f, up, s, seq, t)
           Reached == {k \in Nat : Upto(k)}
<1>2. ASSUME NEW t \in all PROVE Cardinality(t) \in Nat /\ Cardinality(t) <= n
  <2>1. t \in SUBSET (1..n)
    OBVIOUS
  <2>2. Cardinality(t) \in 0..n
    BY <2>1, SmallerPlaces
  <2> QED BY <2>2
<1>3. 0 \in Reached
  <2>1. \A t \in all : ~(Cardinality(t) < 0)
    BY <1>2
  <2> QED BY <2>1
<1>4. ASSUME NEW k \in Reached PROVE k + 1 \in Reached
  <2>1. PICK f : \A t \in all : Cardinality(t) < k => f[t] = Turned(f, up, s, seq, t)
    OBVIOUS
  <2> DEFINE h == [t \in all |-> Turned(f, up, s, seq, t)]
  <2>2. ASSUME NEW t \in all, Cardinality(t) < k + 1
        PROVE  h[t] = Turned(h, up, s, seq, t)
    <3>1. CASE t = {}
      BY <3>1 DEF Turned
    <3>2. CASE t # {}
      <4> DEFINE i == Largest(t)
                 r == t \ {i}
      <4>0. t \in SUBSET (1..n)
        OBVIOUS
      <4>1. r \in all /\ Cardinality(r) = Cardinality(t) - 1 /\ Cardinality(t) \in Nat
        BY <1>2, <3>2, <4>0, SmallerPlaces
      <4>2. Cardinality(r) < k
        BY <2>2, <4>1
      <4>3. h[r] = f[r]
        BY <2>1, <4>1, <4>2
      <4>4. h[t] = Turn(up, f[r], seq[i])
        BY <3>2 DEF Turned
      <4> HIDE DEF h
      <4> QED BY <3>2, <4>3, <4>4 DEF Turned
    <3> QED BY <3>1, <3>2
  <2> HIDE DEF h
  <2>3. Upto(k + 1)
    BY <2>2
  <2> QED BY <2>3
<1>6. Upto(n + 1)
  <2>1. Reached = Nat
    <3>1. Reached \in SUBSET Nat
      OBVIOUS
    <3> HIDE DEF Reached
    <3> QED BY <1>3, <1>4, <3>1, AllNaturals
  <2>2. n + 1 \in Reached
    <3> HIDE DEF Reached
    <3> QED BY <2>1
  <2> QED BY <2>2
<1>7. PICK f : \A t \in all : Cardinality(t) < n + 1 => f[t] = Turned(f, up, s, seq, t)
  BY <1>6
<1> DEFINE h == [t \in all |-> f[t]]
<1>8. ASSUME NEW t \in all PROVE h[t] = Turned(h, up, s, seq, t)
  <2>1. Cardinality(t) < n + 1
    BY <1>2
  <2>2. h[t] = Turned(f, up, s, seq, t)
    BY <1>7, <2>1
  <2>3. CASE t = {}
    BY <2>2, <2>3 DEF Turned
  <2>4. CASE t # {}
    <3> DEFINE r == t \ {Largest(t)}
    <3>1. h[r] = f[r]
      OBVIOUS
    <3> HIDE DEF h
    <3> QED BY <2>2, <2>4, <3>1 DEF Turned
  <2> QED BY <2>3, <2>4
<1>9. h = [t \in all |-> h[t]]
  OBVIOUS
<1> HIDE DEF h
<1>10. h = [t \in all |-> Turned(h, up, s, seq, t)]
  BY <1>8, <1>9
<1> QED BY <1>10 DEF CountsAt

\* The same from one place to the next: g has the store after k of the n places.
Steps(g, up, s, seq, n, last) ==
  /\ g[0] = s /\ g[n] = last
  /\ \A k \in 1..n : g[k] = Turn(up, g[k - 1], seq[k])

LEMMA PlaceByPlace ==
  ASSUME NEW up, NEW s, NEW seq, NEW n \in Nat,
         NEW f, CountsAt(f, up, s, seq, n)
  PROVE  \E g : Steps(g, up, s, seq, n, f[1..n])
<1> DEFINE F(t) == Turned(f, up, s, seq, t)
<1>1. \A t \in SUBSET (1..n) : f[t] = F(t)
  <2>1. f = [t \in SUBSET (1..n) |-> F(t)]
    BY DEF CountsAt
  <2> HIDE DEF F
  <2> QED BY <2>1
<1> DEFINE g == [k \in 0..n |-> f[1..k]]
<1>2. g[0] = s
  <2>1. 1..0 = {} /\ {} \in SUBSET (1..n)
    OBVIOUS
  <2> QED BY <1>1, <2>1 DEF Turned
<1>3. ASSUME NEW k \in 1..n PROVE g[k] = Turn(up, g[k - 1], seq[k])
  <2> DEFINE t == 1..k
  <2>1. t \in SUBSET (1..n) /\ t # {} /\ k \in t
    OBVIOUS
  <2>2. Largest(t) = k
    <3>1. Largest(t) \in t /\ Largest(t) >= k
      BY <2>1, SmallerPlaces
    <3> QED BY <3>1
  <2>3. t \ {k} = 1..(k - 1)
    OBVIOUS
  <2>4. f[t] = Turn(up, f[1..(k - 1)], seq[k])
    <3>1. f[t] = F(t)
      BY <1>1, <2>1
    <3> HIDE DEF t
    <3> QED BY <2>1, <2>2, <2>3, <3>1 DEF Turned
  <2>5. g[k] = f[t] /\ g[k - 1] = f[1..(k - 1)]
    OBVIOUS
  <2> QED BY <2>4, <2>5
<1>4. g[n] = f[1..n]
  OBVIOUS
<1> HIDE DEF g
<1> QED BY <1>2, <1>3, <1>4 DEF Steps

LEMMA DestroyAllSteps ==
  ASSUME NEW s, NEW S, NEW seq \in Seq(S)
  PROVE  \E g : /\ g[0] = s /\ g[Len(seq)] = DestroyAll(s, seq)
                /\ \A k \in 1..Len(seq) : g[k] = pdestroy(g[k - 1], seq[k])
<1> DEFINE n == Len(seq)
           D == DOMAIN seq
           G(h) == [t \in SUBSET D |->
                     IF t = {} THEN s
                     ELSE pdestroy(h[t \ {CHOOSE x \in t : \A y \in t : x >= y}],
                                   seq[CHOOSE x \in t : \A y \in t : x >= y])]
           f == CHOOSE h : h = G(h)
<1>1. n \in Nat /\ D = 1..n
  OBVIOUS
<1>2. \A h : CountsAt(h, "down", s, seq, n) <=> h = G(h)
  BY <1>1 DEF CountsAt, Turned, Turn, Largest
<1>3. DestroyAll(s, seq) = f[D]
  BY DEF DestroyAll, FoldLeft, MapThenFoldSet, Max
<1> HIDE DEF G
<1>4. \E h : h = G(h)
  BY <1>1, <1>2, TurnedExists
<1>5. f = G(f)
  BY <1>4
<1> HIDE DEF f
<1> HIDE DEF n, D
<1>c. CountsAt(f, "down", s, seq, n)
  BY <1>2, <1>5
<1>6. PICK g : Steps(g, "down", s, seq, n, f[1..n])
  BY <1>1, <1>c, PlaceByPlace
<1>7. \A k \in 1..n : g[k] = pdestroy(g[k - 1], seq[k])
  BY <1>6 DEF Steps, Turn
<1>8. g[0] = s /\ g[n] = f[1..n]
  BY <1>6 DEF Steps
<1> QED BY <1>1, <1>3, <1>7, <1>8 DEF n

LEMMA ParmSteps ==
  ASSUME NEW s, NEW S, NEW seq \in Seq(S)
  PROVE  \E g : /\ g[0] = s /\ g[Len(seq)] = Parm(s, seq)
                /\ \A k \in 1..Len(seq) : g[k] = Up(g[k - 1], seq[k])
<1> DEFINE n == Len(seq)
           D == DOMAIN seq
           G(h) == [t \in SUBSET D |->
                     IF t = {} THEN s
                     ELSE Up(h[t \ {CHOOSE x \in t : \A y \in t : x >= y}],
                                   seq[CHOOSE x \in t : \A y \in t : x >= y])]
           f == CHOOSE h : h = G(h)
<1>1. n \in Nat /\ D = 1..n
  OBVIOUS
<1>2. \A h : CountsAt(h, "up", s, seq, n) <=> h = G(h)
  BY <1>1 DEF CountsAt, Turned, Turn, Largest
<1>3. Parm(s, seq) = f[D]
  BY DEF Parm, FoldLeft, MapThenFoldSet, Max
<1> HIDE DEF G
<1>4. \E h : h = G(h)
  BY <1>1, <1>2, TurnedExists
<1>5. f = G(f)
  BY <1>4
<1> HIDE DEF f
<1> HIDE DEF n, D
<1>c. CountsAt(f, "up", s, seq, n)
  BY <1>2, <1>5
<1>6. PICK g : Steps(g, "up", s, seq, n, f[1..n])
  BY <1>1, <1>c, PlaceByPlace
<1>7. \A k \in 1..n : g[k] = Up(g[k - 1], seq[k])
  BY <1>6 DEF Steps, Turn
<1>8. g[0] = s /\ g[n] = f[1..n]
  BY <1>6 DEF Steps
<1> QED BY <1>1, <1>3, <1>7, <1>8 DEF n

-----------------------------------------------------------------------------
(* How often a cell occurs in a sequence, and what counting with all of it *)
(* does.                                                                   *)

OccursTo(seq, k, c) == Cardinality({j \in 1..k : seq[j] = c})

LEMMA OccursNat ==
  ASSUME NEW seq, NEW c, NEW k \in Nat
  PROVE  /\ OccursTo(seq, k, c) \in Nat
         /\ IsFiniteSet({j \in 1..k : seq[j] = c})
         /\ OccursTo(seq, k, c) <= k
         /\ OccursTo(seq, 0, c) = 0
         /\ OccursTo(seq, k + 1, c) = OccursTo(seq, k, c) + (IF seq[k + 1] = c THEN 1 ELSE 0)
         /\ \A l \in 0..k : OccursTo(seq, l, c) <= OccursTo(seq, k, c)
         /\ \A l \in 1..k : seq[l] = c => OccursTo(seq, k, c) > 0
<1> DEFINE S(l) == {j \in 1..l : seq[j] = c}
<1>1. ASSUME NEW l \in Nat PROVE IsFiniteSet(S(l)) /\ Cardinality(S(l)) \in Nat /\ Cardinality(S(l)) <= l
  <2>1. IsFiniteSet(1..l) /\ Cardinality(1..l) = l
    BY FS_Interval
  <2>2. S(l) \in SUBSET (1..l)
    OBVIOUS
  <2> HIDE DEF S
  <2> QED BY <2>1, <2>2, FS_Subset, FS_CardinalityType
<1>2. Cardinality(S(0)) = 0
  <2>1. S(0) = {}
    OBVIOUS
  <2> QED BY <2>1, FS_EmptySet
<1>3. Cardinality(S(k + 1)) = Cardinality(S(k)) + (IF seq[k + 1] = c THEN 1 ELSE 0)
  <2>1. CASE seq[k + 1] = c
    <3>1. S(k + 1) = S(k) \cup {k + 1} /\ k + 1 \notin S(k)
      BY <2>1
    <3> HIDE DEF S
    <3> QED BY <1>1, <2>1, <3>1, FS_AddElement
  <2>2. CASE seq[k + 1] # c
    <3>1. S(k + 1) = S(k)
      BY <2>2
    <3>2. Cardinality(S(k)) \in Nat
      BY <1>1
    <3> HIDE DEF S
    <3> QED BY <2>2, <3>1, <3>2
  <2> QED BY <2>1, <2>2
<1>4. ASSUME NEW l \in 0..k PROVE Cardinality(S(l)) <= Cardinality(S(k))
  <2>1. S(l) \in SUBSET S(k)
    OBVIOUS
  <2> HIDE DEF S
  <2> QED BY <1>1, <2>1, FS_Subset
<1>5. ASSUME NEW l \in 1..k, seq[l] = c PROVE Cardinality(S(k)) > 0
  <2>1. l \in S(k)
    BY <1>5
  <2> HIDE DEF S
  <2>2. Cardinality(S(k)) # 0
    BY <1>1, <2>1, FS_EmptySet
  <2> QED BY <1>1, <2>2
<1> QED BY <1>1, <1>2, <1>3, <1>4, <1>5 DEF OccursTo

LEMMA OccursIsTo ==
  ASSUME NEW seq, NEW c
  PROVE  Occurs(seq, c) = OccursTo(seq, Len(seq), c)
BY DEF Occurs, OccursTo

LEMMA DestroyAllOK ==
  ASSUME NEW s, NEW h, NEW w, StoreOK(s, h, w),
         NEW seq \in Seq(Cells \cup {pUndef}),
         \A c \in Cells : Occurs(seq, c) <= h[c],
         \A c \in Cells : Occurs(seq, c) = h[c] /\ h[c] > 0 => c \notin w /\ c # pzeroCell
  PROVE  StoreOK(DestroyAll(s, seq), [c \in Cells |-> h[c] - Occurs(seq, c)], w)
<1> DEFINE n == Len(seq)
           O(k, c) == OccursTo(seq, k, c)
           H(k) == [c \in Cells |-> h[c] - O(k, c)]
<1>0. n \in Nat /\ pUndef \notin Cells /\ h \in [Cells -> Nat]
  BY Constants DEF StoreOK
<1>1. PICK g : /\ g[0] = s /\ g[n] = DestroyAll(s, seq)
               /\ \A k \in 1..n : g[k] = pdestroy(g[k - 1], seq[k])
  BY DestroyAllSteps
<1>2. \A c \in Cells : Occurs(seq, c) = O(n, c)
  BY OccursIsTo
<1> DEFINE Fine == {k \in Nat : k <= n => StoreOK(g[k], H(k), w)}
<1>3. 0 \in Fine
  <2>1. ASSUME NEW c \in Cells PROVE h[c] - O(0, c) = h[c]
    <3>1. O(0, c) = 0 /\ h[c] \in Nat
      BY <1>0, OccursNat
    <3> QED BY <3>1
  <2> HIDE DEF O
  <2>2. H(0) = h
    BY <1>0, <2>1
  <2> QED BY <1>1, <2>2
<1>4. ASSUME NEW k \in Fine PROVE k + 1 \in Fine
  <2> SUFFICES ASSUME k + 1 <= n PROVE StoreOK(g[k + 1], H(k + 1), w)
    OBVIOUS
  <2>0. k \in Nat /\ k <= n /\ k + 1 \in 1..n
    BY <1>0
  <2>1. StoreOK(g[k], H(k), w)
    BY <2>0
  <2> DEFINE c == seq[k + 1]
  <2>2. g[k + 1] = pdestroy(g[k], c)
    <3>1. (k + 1) - 1 = k
      BY <2>0
    <3> QED BY <1>1, <2>0, <3>1
  <2>3. c \in Cells \cup {pUndef}
    BY <2>0
  <2>4. \A d \in Cells : O(k, d) \in Nat /\ O(k + 1, d) = O(k, d) + (IF c = d THEN 1 ELSE 0)
    BY <2>0, OccursNat
  <2>5. \A d \in Cells : O(k + 1, d) \in Nat /\ O(k + 1, d) <= O(n, d)
    <3>1. k + 1 \in Nat /\ k + 1 \in 0..n
      BY <2>0
    <3> QED BY <1>0, <3>1, OccursNat
  <2> HIDE DEF O, c
  <2>6. CASE c = pUndef
    <3>1. \A d \in Cells : h[d] - O(k + 1, d) = h[d] - O(k, d)
      BY <1>0, <2>4, <2>6
    <3>2. H(k + 1) = H(k)
      BY <3>1
    <3> QED BY <2>1, <2>2, <2>6, <3>2 DEF pdestroy
  <2>7. CASE c \in Cells
    <3>1. /\ h[c] \in Nat /\ O(k, c) \in Nat /\ O(k + 1, c) = O(k, c) + 1
          /\ O(k + 1, c) <= O(n, c) /\ O(n, c) <= h[c]
          /\ O(n, c) = h[c] /\ h[c] > 0 => c \notin w /\ c # pzeroCell
          /\ O(n, c) \in Nat
      <4>1. O(n, c) \in Nat
        BY <1>0, OccursNat DEF O
      <4> QED BY <1>0, <1>2, <2>4, <2>5, <2>7, <4>1
    <3>2. H(k)[c] = h[c] - O(k, c)
      BY <2>7
    <3>3. H(k)[c] > 0 /\ (H(k)[c] = 1 => O(n, c) = h[c] /\ h[c] > 0)
      BY <3>1, <3>2
    <3>4. c = pzeroCell => H(k)[c] > 1
      BY <3>1, <3>2, <3>3
    <3>5. H(k)[c] = 1 => c \notin w
      BY <3>1, <3>3
    <3>6. H(k + 1) = [H(k) EXCEPT ![c] = @ - 1]
      <4>1. \A d \in Cells : h[d] \in Nat
        BY <1>0
      <4>2. \A d \in Cells : h[d] - O(k + 1, d) = IF d = c THEN (h[c] - O(k, c)) - 1
                                                   ELSE h[d] - O(k, d)
        <5> SUFFICES ASSUME NEW d \in Cells
                     PROVE  h[d] - O(k + 1, d) = IF d = c THEN (h[c] - O(k, c)) - 1
                                                 ELSE h[d] - O(k, d)
          OBVIOUS
        <5>1. h[d] \in Nat /\ O(k, d) \in Nat /\ O(k + 1, d) = O(k, d) + (IF c = d THEN 1 ELSE 0)
          BY <2>4, <4>1
        <5>2. CASE d = c
          <6>1. O(k + 1, d) = O(k, d) + 1
            BY <5>1, <5>2
          <6> DEFINE x == h[d]
                     y == O(k, d)
          <6>2. x \in Nat /\ y \in Nat
            BY <5>1
          <6> HIDE DEF x, y
          <6>3. x - (y + 1) = (x - y) - 1
            BY <6>2
          <6>4. h[d] - O(k + 1, d) = (h[d] - O(k, d)) - 1
            BY <6>1, <6>3 DEF x, y
          <6> QED BY <5>2, <6>4
        <5>3. CASE d # c
          <6>1. O(k + 1, d) = O(k, d)
            BY <5>1, <5>3
          <6> QED BY <5>3, <6>1
        <5> QED BY <5>2, <5>3
      <4> QED BY <2>7, <4>2
    <3> HIDE DEF H
    <3> QED BY <2>1, <2>2, <2>7, <3>3, <3>4, <3>5, <3>6, DestroyOK
  <2> QED BY <2>3, <2>6, <2>7
<1>5. n \in Fine
  <2>1. Fine \in SUBSET Nat
    OBVIOUS
  <2> HIDE DEF Fine
  <2> QED BY <1>0, <1>3, <1>4, <2>1, AllNaturals
<1>6. StoreOK(g[n], H(n), w)
  BY <1>0, <1>5
<1>7. H(n) = [c \in Cells |-> h[c] - Occurs(seq, c)]
  BY <1>2
<1> QED BY <1>1, <1>6, <1>7

LEMMA ParmOK ==
  ASSUME NEW s, NEW h, NEW w, StoreOK(s, h, w),
         NEW seq \in Seq(Cells),
         \A i \in 1..Len(seq) : h[seq[i]] > 0 \/ seq[i] \in w,
         \A c \in Cells : h[c] + Occurs(seq, c) < RefLimit
  PROVE  StoreOK(Parm(s, seq), [c \in Cells |-> h[c] + Occurs(seq, c)], w)
<1> DEFINE n == Len(seq)
           O(k, c) == OccursTo(seq, k, c)
           H(k) == [c \in Cells |-> h[c] + O(k, c)]
<1>0. n \in Nat /\ pUndef \notin Cells /\ h \in [Cells -> Nat] /\ RefLimit \in Nat
  BY Constants DEF StoreOK
<1>1. PICK g : /\ g[0] = s /\ g[n] = Parm(s, seq)
               /\ \A k \in 1..n : g[k] = Up(g[k - 1], seq[k])
  BY ParmSteps
<1>2. \A c \in Cells : Occurs(seq, c) = O(n, c)
  BY OccursIsTo
<1> DEFINE Fine == {k \in Nat : k <= n => StoreOK(g[k], H(k), w)}
<1>3. 0 \in Fine
  <2>1. ASSUME NEW c \in Cells PROVE h[c] + O(0, c) = h[c]
    <3>1. O(0, c) = 0 /\ h[c] \in Nat
      BY <1>0, OccursNat
    <3> QED BY <3>1
  <2> HIDE DEF O
  <2>2. H(0) = h
    BY <1>0, <2>1
  <2> QED BY <1>1, <2>2
<1>4. ASSUME NEW k \in Fine PROVE k + 1 \in Fine
  <2> SUFFICES ASSUME k + 1 <= n PROVE StoreOK(g[k + 1], H(k + 1), w)
    OBVIOUS
  <2>0. k \in Nat /\ k <= n /\ k + 1 \in 1..n
    BY <1>0
  <2>1. StoreOK(g[k], H(k), w)
    BY <2>0
  <2> DEFINE c == seq[k + 1]
  <2>2. g[k + 1] = Up(g[k], c)
    <3>1. (k + 1) - 1 = k
      BY <2>0
    <3> QED BY <1>1, <2>0, <3>1
  <2>3. c \in Cells /\ (h[c] > 0 \/ c \in w)
    BY <2>0
  <2>4. \A d \in Cells : O(k, d) \in Nat /\ O(k + 1, d) = O(k, d) + (IF c = d THEN 1 ELSE 0)
    BY <2>0, OccursNat
  <2>5. \A d \in Cells : O(k + 1, d) \in Nat /\ O(k + 1, d) <= O(n, d) /\ O(n, d) \in Nat
    <3>1. k + 1 \in Nat /\ k + 1 \in 0..n
      BY <2>0
    <3> QED BY <1>0, <3>1, OccursNat
  <2> HIDE DEF O, c
  <2>6. H(k)[c] = h[c] + O(k, c)
    BY <2>3
  <2>7. h[c] \in Nat /\ O(k, c) \in Nat /\ O(k + 1, c) = O(k, c) + 1 /\ O(k + 1, c) <= O(n, c)
        /\ O(n, c) \in Nat /\ h[c] + O(n, c) < RefLimit
    BY <1>0, <1>2, <2>3, <2>4, <2>5
  <2>8. H(k)[c] > 0 \/ c \in w
    BY <2>3, <2>6, <2>7
  <2>9. H(k)[c] + 1 < RefLimit
    BY <1>0, <2>6, <2>7
  <2>10. H(k + 1) = [H(k) EXCEPT ![c] = @ + 1]
    <3>1. \A d \in Cells : h[d] \in Nat
      BY <1>0
    <3>2. \A d \in Cells : h[d] + O(k + 1, d) = IF d = c THEN (h[c] + O(k, c)) + 1
                                                 ELSE h[d] + O(k, d)
      <4> SUFFICES ASSUME NEW d \in Cells
                   PROVE  h[d] + O(k + 1, d) = IF d = c THEN (h[c] + O(k, c)) + 1
                                               ELSE h[d] + O(k, d)
        OBVIOUS
      <4>1. h[d] \in Nat /\ O(k, d) \in Nat /\ O(k + 1, d) = O(k, d) + (IF c = d THEN 1 ELSE 0)
        BY <2>4, <3>1
      <4>2. CASE d = c
        <5>1. O(k + 1, d) = O(k, d) + 1
          BY <4>1, <4>2
        <5>2. h[d] + O(k + 1, d) = (h[d] + O(k, d)) + 1
          BY <4>1, <5>1
        <5> QED BY <4>2, <5>2
      <4>3. CASE d # c
        <5>1. O(k + 1, d) = O(k, d)
          BY <4>1, <4>3
        <5> QED BY <4>3, <5>1
      <4> QED BY <4>2, <4>3
    <3> QED BY <2>3, <3>2
  <2> HIDE DEF H
  <2> QED BY <2>1, <2>2, <2>3, <2>8, <2>9, <2>10, UpOK
<1>5. n \in Fine
  <2>1. Fine \in SUBSET Nat
    OBVIOUS
  <2> HIDE DEF Fine
  <2> QED BY <1>0, <1>3, <1>4, <2>1, AllNaturals
<1>6. StoreOK(g[n], H(n), w)
  BY <1>0, <1>5
<1>7. H(n) = [c \in Cells |-> h[c] + Occurs(seq, c)]
  BY <1>2
<1> QED BY <1>1, <1>6, <1>7

-----------------------------------------------------------------------------
(* How often a cell occurs in the frames. *)
Bit(p) == IF p THEN 1 ELSE 0

LEMMA OccursPair ==
  ASSUME NEW seq, NEW c, Len(seq) = 2
  PROVE  Occurs(seq, c) = Bit(seq[1] = c) + Bit(seq[2] = c)
<1>1. Occurs(seq, c) = OccursTo(seq, 2, c)
  BY OccursIsTo
<1>2. OccursTo(seq, 0, c) = 0
  BY OccursNat
<1>3. OccursTo(seq, 1, c) = 0 + (IF seq[1] = c THEN 1 ELSE 0)
  <2>1. OccursTo(seq, 0 + 1, c) = OccursTo(seq, 0, c) + (IF seq[0 + 1] = c THEN 1 ELSE 0)
    BY OccursNat
  <2> QED BY <1>2, <2>1
<1>4. OccursTo(seq, 2, c) = OccursTo(seq, 1, c) + (IF seq[2] = c THEN 1 ELSE 0)
  <2>1. OccursTo(seq, 1 + 1, c) = OccursTo(seq, 1, c) + (IF seq[1 + 1] = c THEN 1 ELSE 0)
    BY OccursNat
  <2> QED BY <2>1
<1> QED BY <1>1, <1>3, <1>4 DEF Bit

LEMMA OccursSome ==
  ASSUME NEW S, NEW seq \in Seq(S), NEW c
  PROVE  /\ Occurs(seq, c) \in Nat
         /\ Occurs(seq, c) > 0 <=> \E i \in 1..Len(seq) : seq[i] = c
<1> DEFINE n == Len(seq)
<1>1. n \in Nat /\ Occurs(seq, c) = OccursTo(seq, n, c)
  BY OccursIsTo, LenProperties
<1> HIDE DEF n
<1>0. n \in Nat
  BY <1>1
<1>2. /\ OccursTo(seq, n, c) \in Nat
      /\ \A l \in 1..n : seq[l] = c => OccursTo(seq, n, c) > 0
  BY <1>0, OccursNat
<1>3. ASSUME NEW i \in 1..n, seq[i] = c PROVE Occurs(seq, c) > 0
  BY <1>1, <1>2, <1>3
<1>4. ASSUME Occurs(seq, c) > 0 PROVE \E i \in 1..n : seq[i] = c
  <2> DEFINE Places == {j \in 1..n : seq[j] = c}
  <2>1. Occurs(seq, c) = Cardinality(Places)
    BY DEF Occurs, n
  <2> HIDE DEF Places
  <2>2. Places # {}
    <3>1. Cardinality({}) = 0
      BY FS_EmptySet
    <3> QED BY <1>4, <2>1, <3>1
  <2> QED BY <2>2 DEF Places
<1> QED BY <1>1, <1>2, <1>3, <1>4 DEF n

\* One more element, or another one in its place.
LEMMA OccursAppend ==
  ASSUME NEW S, NEW seq \in Seq(S), NEW e \in S, NEW c
  PROVE  Occurs(Append(seq, e), c) = Occurs(seq, c) + Bit(e = c)
<1> DEFINE n == Len(seq)
           t == Append(seq, e)
<1>1. n \in Nat /\ Len(t) = n + 1 /\ t[n + 1] = e /\ \A i \in 1..n : t[i] = seq[i]
  BY AppendProperties
<1> HIDE DEF n, t
<1>2. OccursTo(t, n + 1, c) = OccursTo(t, n, c) + (IF t[n + 1] = c THEN 1 ELSE 0)
  BY <1>1, OccursNat
<1>3. OccursTo(t, n, c) = OccursTo(seq, n, c)
  <2>1. {j \in 1..n : t[j] = c} = {j \in 1..n : seq[j] = c}
    BY <1>1
  <2> QED BY <2>1 DEF OccursTo
<1>4. Occurs(t, c) = OccursTo(t, n + 1, c) /\ Occurs(seq, c) = OccursTo(seq, n, c)
  BY <1>1, OccursIsTo DEF n
<1> QED BY <1>1, <1>2, <1>3, <1>4 DEF Bit, t

LEMMA OccursExcept ==
  ASSUME NEW S, NEW seq \in Seq(S), NEW i \in 1..Len(seq), NEW e \in S, NEW c
  PROVE  Occurs([seq EXCEPT ![i] = e], c) + Bit(seq[i] = c) = Occurs(seq, c) + Bit(e = c)
<1> DEFINE t == [seq EXCEPT ![i] = e]
           Was == {j \in 1..Len(seq) : seq[j] = c}
           Is  == {j \in 1..Len(t) : t[j] = c}
           R   == Was \ {i}
<1>1. Len(t) = Len(seq) /\ \A j \in 1..Len(seq) : t[j] = IF j = i THEN e ELSE seq[j]
  BY ExceptSeq
<1>2. R = Is \ {i} /\ i \notin R
  BY <1>1
<1>3. (i \in Was <=> seq[i] = c) /\ (i \in Is <=> e = c)
  BY <1>1
<1>4. IsFiniteSet(R) /\ Cardinality(R) \in Nat
  <2>1. IsFiniteSet(1..Len(seq)) /\ R \in SUBSET (1..Len(seq))
    BY FS_Interval
  <2> HIDE DEF R
  <2> QED BY <2>1, FS_Subset, FS_CardinalityType
<1>5. Cardinality(Was) = Cardinality(R) + Bit(seq[i] = c)
  <2>1. Was = IF seq[i] = c THEN R \cup {i} ELSE R
    BY <1>3
  <2>2. i \notin R
    BY <1>2
  <2> HIDE DEF Was, R
  <2>3. Cardinality(R \cup {i}) = Cardinality(R) + 1
    BY <1>4, <2>2, FS_AddElement
  <2> QED BY <1>4, <2>1, <2>3 DEF Bit
<1>6. Cardinality(Is) = Cardinality(R) + Bit(e = c)
  <2>1. Is = IF e = c THEN R \cup {i} ELSE R
    BY <1>2, <1>3
  <2>2. i \notin R
    BY <1>2
  <2> HIDE DEF Is, R
  <2>3. Cardinality(R \cup {i}) = Cardinality(R) + 1
    BY <1>4, <2>2, FS_AddElement
  <2> QED BY <1>4, <2>1, <2>3 DEF Bit
<1>7. Occurs(seq, c) = Cardinality(Was) /\ Occurs(t, c) = Cardinality(Is)
  BY DEF Occurs
<1> HIDE DEF Was, Is, R, t
<1>8. Bit(seq[i] = c) \in Nat /\ Bit(e = c) \in Nat
  BY DEF Bit
<1>9. Occurs(t, c) + Bit(seq[i] = c) = Occurs(seq, c) + Bit(e = c)
  BY <1>4, <1>5, <1>6, <1>7, <1>8
<1> QED BY <1>9 DEF t

LEMMA OccursConcat ==
  ASSUME NEW S, NEW q \in Seq(S), NEW l \in Seq(S), NEW c, Len(l) = 2
  PROVE  Occurs(q \o l, c) = Occurs(q, c) + Occurs(l, c)
<1> DEFINE t == q \o l
           n == Len(q)
<1>1. n \in Nat /\ Len(t) = n + 2 /\ t[n + 1] = l[1] /\ t[n + 2] = l[2]
      /\ \A i \in 1..n : t[i] = q[i]
  BY ConcatProperties
<1> HIDE DEF n, t
<1>2. OccursTo(t, n + 1, c) = OccursTo(t, n, c) + (IF t[n + 1] = c THEN 1 ELSE 0)
  BY <1>1, OccursNat
<1>3. OccursTo(t, n + 2, c) = OccursTo(t, n + 1, c) + (IF t[n + 2] = c THEN 1 ELSE 0)
  <2>1. n + 1 \in Nat /\ (n + 1) + 1 = n + 2
    BY <1>1
  <2>2. OccursTo(t, (n + 1) + 1, c) = OccursTo(t, n + 1, c)
                                      + (IF t[(n + 1) + 1] = c THEN 1 ELSE 0)
    BY <2>1, OccursNat
  <2> QED BY <2>1, <2>2
<1>4. OccursTo(t, n, c) = OccursTo(q, n, c)
  <2>1. {j \in 1..n : t[j] = c} = {j \in 1..n : q[j] = c}
    BY <1>1
  <2> QED BY <2>1 DEF OccursTo
<1>5. Occurs(t, c) = OccursTo(t, n + 2, c) /\ Occurs(q, c) = OccursTo(q, n, c)
  BY <1>1, OccursIsTo DEF n
<1>6. Occurs(l, c) = Bit(l[1] = c) + Bit(l[2] = c)
  BY OccursPair
<1>7. OccursTo(q, n, c) \in Nat
  BY <1>1, OccursNat
<1>8. Occurs(t, c) = Occurs(q, c) + Occurs(l, c)
  BY <1>1, <1>2, <1>3, <1>4, <1>5, <1>6, <1>7 DEF Bit
<1> QED BY <1>8 DEF t

\* Pairs with a new first component.
Row(k, J) == {<<k, j>> : j \in J}

\* Q has a row of pairs more than P.
OneMoreRow(P, Q, n, m, J) ==
  /\ n \in Nat /\ m \in Nat /\ P \subseteq (1..n) \X (1..m) /\ J \subseteq 1..m
  /\ Q = P \cup Row(n + 1, J)

LEMMA AnotherRow ==
  ASSUME NEW P, NEW Q, NEW n, NEW m, NEW J, OneMoreRow(P, Q, n, m, J)
  PROVE  /\ IsFiniteSet(P) /\ Cardinality(P) \in Nat
         /\ Cardinality(Q) = Cardinality(P) + Cardinality(J)
<1> USE DEF OneMoreRow
<1> DEFINE R == Row(n + 1, J)
           f == [j \in J |-> <<n + 1, j>>]
<1>1. IsFiniteSet(P) /\ Cardinality(P) \in Nat
  <2>1. IsFiniteSet(1..n) /\ IsFiniteSet(1..m)
    BY FS_Interval
  <2>2. IsFiniteSet((1..n) \X (1..m))
    BY <2>1, FS_Product
  <2> QED BY <2>2, FS_Subset, FS_CardinalityType
<1>2. IsFiniteSet(J) /\ Cardinality(J) \in Nat
  <2>1. IsFiniteSet(1..m)
    BY FS_Interval
  <2> QED BY <2>1, FS_Subset, FS_CardinalityType
<1>0. R = {<<n + 1, j>> : j \in J}
  BY DEF Row
<1>3. f \in Bijection(J, R)
  BY <1>0 DEF Bijection, Injection, Surjection, IsInjective
<1>4. IsFiniteSet(R) /\ Cardinality(R) = Cardinality(J)
  BY <1>2, <1>3, FS_Bijection DEF ExistsBijection
<1>5. P \cap R = {}
  <2> SUFFICES ASSUME NEW x \in P, x \in R PROVE FALSE
    OBVIOUS
  <2>1. PICK j \in J : x = <<n + 1, j>>
    BY <1>0
  <2>2. PICK i \in 1..n, l \in 1..m : x = <<i, l>>
    OBVIOUS
  <2>3. i = n + 1
    BY <2>1, <2>2
  <2> QED BY <2>2, <2>3
<1> HIDE DEF R
<1>6. Cardinality(P \cup R) = Cardinality(P) + Cardinality(R) - Cardinality(P \cap R)
  BY <1>1, <1>4, FS_Union
<1>7. Cardinality(P \cap R) = 0
  BY <1>5, FS_EmptySet
<1>8. Q = P \cup R
  BY DEF R
<1> DEFINE a == Cardinality(P)
           b1 == Cardinality(J)
           d == Cardinality(P \cup R)
<1>9. a \in Nat /\ b1 \in Nat /\ d = a + b1 - 0
  BY <1>1, <1>2, <1>4, <1>6, <1>7
<1>10. Cardinality(Q) = d
  BY <1>8
<1> HIDE DEF a, b1, d
<1>11. Cardinality(Q) = a + b1
  BY <1>9, <1>10
<1> QED BY <1>1, <1>11 DEF a, b1

LocalPlaces(fr, c) == {p \in (1..Len(fr)) \X (1..2) : fr[p[1]].locals[p[2]] = c}

ParamPlaces(fr, c) == {p \in (1..Len(fr)) \X (1..MaxPending) :
                         p[2] <= Len(fr[p[1]].params) /\ fr[p[1]].params[p[2]] = c}

\* A frame more.
LEMMA HoldersAppend ==
  ASSUME NEW lo \in Seq(Frames), NEW f \in Frames, Len(f.params) <= MaxPending, NEW c
  PROVE  /\ HoldersIn(lo, c) \in Nat
         /\ c = pzeroCell => HoldersIn(lo, c) > 0
         /\ HoldersIn(Append(lo, f), c)
              = HoldersIn(lo, c) + Occurs(f.locals, c) + Occurs(f.params, c)
<1> DEFINE n == Len(lo)
           t == Append(lo, f)
           J == {j \in 1..2 : f.locals[j] = c}
           K == {j \in 1..MaxPending : j <= Len(f.params) /\ f.params[j] = c}
<1>1. /\ n \in Nat /\ Len(t) = n + 1 /\ t[n + 1] = f
      /\ \A k \in 1..n : t[k] = lo[k]
  BY AppendProperties
<1>2. MaxPending \in Nat /\ Len(f.params) \in Nat /\ Len(f.locals) = 2
  BY Constants DEF Frames
<1>3. LocalPlaces(t, c) = LocalPlaces(lo, c) \cup Row(n + 1, J)
  <2>1. LocalPlaces(t, c) = {p \in (1..n + 1) \X (1..2) : t[p[1]].locals[p[2]] = c}
    BY <1>1 DEF LocalPlaces
  <2>2. LocalPlaces(lo, c) = {p \in (1..n) \X (1..2) : lo[p[1]].locals[p[2]] = c}
    BY DEF LocalPlaces
  <2> HIDE DEF t, n
  <2>3. ASSUME NEW k \in 1..n + 1, NEW j \in 1..2
        PROVE  t[k].locals[j] = c <=> \/ k \in 1..n /\ lo[k].locals[j] = c
                                      \/ k = n + 1 /\ j \in J
    BY <1>1
  <2> HIDE DEF J
  <2>4. J \subseteq 1..2
    BY DEF J
  <2>5. \A p : p \in LocalPlaces(t, c) <=>
                 \E k \in 1..n + 1, j \in 1..2 : p = <<k, j>> /\ t[k].locals[j] = c
    BY <2>1
  <2>6. \A p : p \in LocalPlaces(lo, c) <=>
                 \E k \in 1..n, j \in 1..2 : p = <<k, j>> /\ lo[k].locals[j] = c
    BY <2>2
  <2>7. \A k : k \in 1..n + 1 <=> k \in 1..n \/ k = n + 1
    BY <1>1
  <2>8. \A p : p \in Row(n + 1, J) <=> \E j \in J : p = <<n + 1, j>>
    BY DEF Row
  <2>9. ASSUME NEW p PROVE p \in LocalPlaces(t, c) <=> p \in LocalPlaces(lo, c) \/ p \in Row(n + 1, J)
    <3>1. ASSUME p \in LocalPlaces(t, c) PROVE p \in LocalPlaces(lo, c) \/ p \in Row(n + 1, J)
      <4>1. PICK k \in 1..n + 1, j \in 1..2 : p = <<k, j>> /\ t[k].locals[j] = c
        BY <2>5, <3>1
      <4>2. \/ k \in 1..n /\ lo[k].locals[j] = c
            \/ k = n + 1 /\ j \in J
        BY <2>3, <4>1
      <4> QED BY <2>6, <2>8, <4>1, <4>2
    <3>2. ASSUME p \in LocalPlaces(lo, c) PROVE p \in LocalPlaces(t, c)
      <4>1. PICK k \in 1..n, j \in 1..2 : p = <<k, j>> /\ lo[k].locals[j] = c
        BY <2>6, <3>2
      <4>2. k \in 1..n + 1
        BY <2>7, <4>1
      <4>3. t[k].locals[j] = c
        BY <2>3, <4>1, <4>2
      <4> QED BY <2>5, <4>1, <4>2, <4>3
    <3>3. ASSUME p \in Row(n + 1, J) PROVE p \in LocalPlaces(t, c)
      BY <2>3, <2>4, <2>5, <2>7, <2>8, <3>3
    <3> QED BY <3>1, <3>2, <3>3
  <2> QED BY <2>9
<1>4. ParamPlaces(t, c) = ParamPlaces(lo, c) \cup Row(n + 1, K)
  <2>1. ParamPlaces(t, c) = {p \in (1..n + 1) \X (1..MaxPending) :
                               p[2] <= Len(t[p[1]].params) /\ t[p[1]].params[p[2]] = c}
    BY <1>1 DEF ParamPlaces
  <2>2. ParamPlaces(lo, c) = {p \in (1..n) \X (1..MaxPending) :
                               p[2] <= Len(lo[p[1]].params) /\ lo[p[1]].params[p[2]] = c}
    BY DEF ParamPlaces
  <2> HIDE DEF t, n
  <2>3. ASSUME NEW k \in 1..n + 1, NEW j \in 1..MaxPending
        PROVE  j <= Len(t[k].params) /\ t[k].params[j] = c
                 <=> \/ k \in 1..n /\ j <= Len(lo[k].params) /\ lo[k].params[j] = c
                     \/ k = n + 1 /\ j \in K
    BY <1>1
  <2> HIDE DEF K
  <2>4. K \subseteq 1..MaxPending
    BY DEF K
  <2>5. \A p : p \in ParamPlaces(t, c) <=>
                 \E k \in 1..n + 1, j \in 1..MaxPending :
                   p = <<k, j>> /\ j <= Len(t[k].params) /\ t[k].params[j] = c
    BY <2>1
  <2>6. \A p : p \in ParamPlaces(lo, c) <=>
                 \E k \in 1..n, j \in 1..MaxPending :
                   p = <<k, j>> /\ j <= Len(lo[k].params) /\ lo[k].params[j] = c
    BY <2>2
  <2>7. \A k : k \in 1..n + 1 <=> k \in 1..n \/ k = n + 1
    BY <1>1
  <2>8. \A p : p \in Row(n + 1, K) <=> \E j \in K : p = <<n + 1, j>>
    BY DEF Row
  <2>9. ASSUME NEW p PROVE p \in ParamPlaces(t, c) <=> p \in ParamPlaces(lo, c) \/ p \in Row(n + 1, K)
    <3>1. ASSUME p \in ParamPlaces(t, c) PROVE p \in ParamPlaces(lo, c) \/ p \in Row(n + 1, K)
      <4>1. PICK k \in 1..n + 1, j \in 1..MaxPending : p = <<k, j>> /\ j <= Len(t[k].params) /\ t[k].params[j] = c
        BY <2>5, <3>1
      <4>2. \/ k \in 1..n /\ j <= Len(lo[k].params) /\ lo[k].params[j] = c
            \/ k = n + 1 /\ j \in K
        BY <2>3, <4>1
      <4> QED BY <2>6, <2>8, <4>1, <4>2
    <3>2. ASSUME p \in ParamPlaces(lo, c) PROVE p \in ParamPlaces(t, c)
      <4>1. PICK k \in 1..n, j \in 1..MaxPending : p = <<k, j>> /\ j <= Len(lo[k].params) /\ lo[k].params[j] = c
        BY <2>6, <3>2
      <4>2. k \in 1..n + 1
        BY <2>7, <4>1
      <4>3. j <= Len(t[k].params) /\ t[k].params[j] = c
        BY <2>3, <4>1, <4>2
      <4> QED BY <2>5, <4>1, <4>2, <4>3
    <3>3. ASSUME p \in Row(n + 1, K) PROVE p \in ParamPlaces(t, c)
      BY <2>3, <2>4, <2>5, <2>7, <2>8, <3>3
    <3> QED BY <3>1, <3>2, <3>3
  <2> QED BY <2>9
<1>5. /\ Cardinality(LocalPlaces(lo, c)) \in Nat
      /\ Cardinality(LocalPlaces(t, c)) = Cardinality(LocalPlaces(lo, c)) + Cardinality(J)
  <2>1. LocalPlaces(lo, c) \in SUBSET ((1..n) \X (1..2)) /\ J \in SUBSET (1..2)
    BY DEF LocalPlaces
  <2>2. n \in Nat /\ 2 \in Nat
    BY <1>1
  <2> HIDE DEF n, t, J
  <2>3. OneMoreRow(LocalPlaces(lo, c), LocalPlaces(t, c), n, 2, J)
    BY <1>3, <2>1, <2>2 DEF OneMoreRow
  <2> QED BY <2>3, AnotherRow
<1>6. /\ Cardinality(ParamPlaces(lo, c)) \in Nat
      /\ Cardinality(ParamPlaces(t, c)) = Cardinality(ParamPlaces(lo, c)) + Cardinality(K)
  <2>1. ParamPlaces(lo, c) \in SUBSET ((1..n) \X (1..MaxPending)) /\ K \in SUBSET (1..MaxPending)
    BY DEF ParamPlaces
  <2>2. n \in Nat /\ MaxPending \in Nat
    BY <1>1, <1>2
  <2> HIDE DEF n, t, K
  <2>3. OneMoreRow(ParamPlaces(lo, c), ParamPlaces(t, c), n, MaxPending, K)
    BY <1>4, <2>1, <2>2 DEF OneMoreRow
  <2> QED BY <2>3, AnotherRow
<1>7. Cardinality(J) = Occurs(f.locals, c)
  BY <1>2 DEF Occurs
<1>8. Cardinality(K) = Occurs(f.params, c)
  <2>1. K = {j \in 1..Len(f.params) : f.params[j] = c}
    BY <1>2
  <2> QED BY <2>1 DEF Occurs
<1>9. Cardinality(J) \in Nat /\ Cardinality(K) \in Nat
  <2>1. f.locals \in Seq(Cells \cup {pUndef}) /\ f.params \in Seq(Cells)
    BY DEF Frames
  <2> HIDE DEF J, K
  <2> QED BY <1>7, <1>8, <2>1, OccursSome
<1>10. \A fr : HoldersIn(fr, c) = (IF c = pzeroCell THEN 1 ELSE 0)
                 + Cardinality(LocalPlaces(fr, c)) + Cardinality(ParamPlaces(fr, c))
  BY DEF HoldersIn, LocalPlaces, ParamPlaces
<1> HIDE DEF J, K
<1>11. HoldersIn(lo, c) \in Nat /\ (c = pzeroCell => HoldersIn(lo, c) > 0)
  BY <1>5, <1>6, <1>10
<1>12. HoldersIn(t, c) = HoldersIn(lo, c) + Cardinality(J) + Cardinality(K)
  BY <1>5, <1>6, <1>9, <1>10
<1> QED BY <1>7, <1>8, <1>11, <1>12

\* A cell has holders when somebody has it, and never as many as a count can
\* say.
Bounded(fr) ==
  /\ fr \in Seq(Frames) /\ Len(fr) <= MaxCalls + 1
  /\ \A k \in 1..Len(fr) : Len(fr[k].params) <= MaxPending

LEMMA FramesBounded ==
  ASSUME NEW fr, FramesOK(fr)
  PROVE  Bounded(fr)
<1>1. Len(fr) \in 1..MaxCalls + 1 /\ MaxCalls \in Nat
  BY Constants DEF FramesOK
<1> QED BY <1>1 DEF FramesOK, Bounded

LEMMA HoldersBound ==
  ASSUME NEW fr, Bounded(fr), NEW c
  PROVE  /\ HoldersIn(fr, c) \in Nat
         /\ HoldersIn(fr, c) > 0 <=> Held(fr, Len(fr), c)
         /\ HoldersIn(fr, c) + 1 < RefLimit
<1> DEFINE n == Len(fr)
           L == LocalPlaces(fr, c)
           P == ParamPlaces(fr, c)
           N == MaxCalls + 1
<1>1. n \in Nat /\ n \in 0..N /\ N \in Nat /\ MaxPending \in Nat
  BY Constants DEF Bounded
<1>2. HoldersIn(fr, c) = (IF c = pzeroCell THEN 1 ELSE 0) + Cardinality(L) + Cardinality(P)
  BY DEF HoldersIn, LocalPlaces, ParamPlaces
<1>3. L \in SUBSET ((1..N) \X (1..2)) /\ P \in SUBSET ((1..N) \X (1..MaxPending))
  <2>1. \A k \in 1..n : k \in 1..N
    BY <1>1
  <2> HIDE DEF n, N
  <2> QED BY <2>1 DEF LocalPlaces, ParamPlaces, n
<1>4. /\ \A p : p \in L <=> \E k \in 1..n, j \in 1..2 : p = <<k, j>> /\ fr[k].locals[j] = c
      /\ \A p : p \in P <=> \E k \in 1..n, j \in 1..MaxPending :
           p = <<k, j>> /\ j <= Len(fr[k].params) /\ fr[k].params[j] = c
  BY DEF LocalPlaces, ParamPlaces
<1>5. /\ IsFiniteSet((1..N) \X (1..2)) /\ Cardinality((1..N) \X (1..2)) = N * 2
      /\ IsFiniteSet((1..N) \X (1..MaxPending))
      /\ Cardinality((1..N) \X (1..MaxPending)) = N * MaxPending
  <2> HIDE DEF N
  <2>1. ASSUME NEW b1 \in Nat PROVE IsFiniteSet(1..b1) /\ Cardinality(1..b1) = b1
    BY FS_Interval
  <2>2. 2 \in Nat
    OBVIOUS
  <2>3. /\ IsFiniteSet(1..N) /\ Cardinality(1..N) = N
        /\ IsFiniteSet(1..2) /\ Cardinality(1..2) = 2
        /\ IsFiniteSet(1..MaxPending) /\ Cardinality(1..MaxPending) = MaxPending
    BY <1>1, <2>1, <2>2, Zenon
  <2>4. /\ IsFiniteSet((1..N) \X (1..2))
        /\ Cardinality((1..N) \X (1..2)) = Cardinality(1..N) * Cardinality(1..2)
    BY <2>3, FS_Product, Zenon
  <2>5. /\ IsFiniteSet((1..N) \X (1..MaxPending))
        /\ Cardinality((1..N) \X (1..MaxPending)) = Cardinality(1..N) * Cardinality(1..MaxPending)
    BY <2>3, FS_Product, Zenon
  <2> QED BY <2>3, <2>4, <2>5, Zenon
<1>6. \A k \in 1..n : Len(fr[k].params) \in Nat /\ Len(fr[k].params) <= MaxPending
  BY DEF Bounded, Frames
<1> HIDE DEF n, L, P, N
<1>7. /\ IsFiniteSet(L) /\ Cardinality(L) \in Nat /\ Cardinality(L) <= N * 2
      /\ IsFiniteSet(P) /\ Cardinality(P) \in Nat /\ Cardinality(P) <= N * MaxPending
  BY <1>3, <1>5, FS_Subset, FS_CardinalityType
<1>8. HoldersIn(fr, c) \in Nat
  BY <1>2, <1>7
<1>9. HoldersIn(fr, c) + 1 < RefLimit
  <2>1. N * 2 + N * MaxPending = N * (MaxPending + 2)
    BY <1>1
  <2> DEFINE x == N * 2
             y == N * MaxPending
             z == N * (MaxPending + 2)
  <2>2. x \in Nat /\ y \in Nat /\ z \in Nat /\ x + y = z
    BY <1>1, <2>1
  <2>3. RefLimit > z + 2 /\ RefLimit \in Nat
    BY PrecisionMemoryAssumption DEF N
  <2>4. Cardinality(L) <= x /\ Cardinality(P) <= y
    BY <1>7
  <2> HIDE DEF x, y, z
  <2> QED BY <1>2, <1>7, <2>2, <2>3, <2>4
<1>10. ASSUME HoldersIn(fr, c) > 0 PROVE Held(fr, n, c)
  <2>1. CASE c = pzeroCell
    BY <2>1 DEF Held
  <2>2. CASE c # pzeroCell
    <3>1. Cardinality(L) # 0 \/ Cardinality(P) # 0
      BY <1>2, <1>7, <1>10, <2>2
    <3>2. L # {} \/ P # {}
      BY <3>1, FS_EmptySet
    <3>3. CASE L # {}
      <4>1. PICK k \in 1..n, j \in 1..2 : fr[k].locals[j] = c
        BY <1>4, <3>3
      <4> QED BY <4>1 DEF Held, Has
    <3>4. CASE P # {}
      <4>1. PICK k \in 1..n, j \in 1..MaxPending :
              j <= Len(fr[k].params) /\ fr[k].params[j] = c
        BY <1>4, <3>4
      <4>2. j \in 1..Len(fr[k].params)
        BY <1>6, <4>1
      <4> QED BY <4>1, <4>2 DEF Held, Has
    <3> QED BY <3>2, <3>3, <3>4
  <2> QED BY <2>1, <2>2
<1>11. ASSUME Held(fr, n, c) PROVE HoldersIn(fr, c) > 0
  <2>1. CASE c = pzeroCell
    BY <1>2, <1>7, <2>1
  <2>2. CASE c # pzeroCell
    <3>1. PICK k \in 1..n : Has(fr[k], c)
      BY <1>11, <2>2 DEF Held
    <3>2. L # {} \/ P # {}
      <4>1. ASSUME NEW j \in 1..2, fr[k].locals[j] = c PROVE <<k, j>> \in L
        BY <1>4, <4>1
      <4>2. ASSUME NEW j \in 1..Len(fr[k].params), fr[k].params[j] = c PROVE <<k, j>> \in P
        <5>1. j \in 1..MaxPending /\ j <= Len(fr[k].params)
          BY <1>1, <1>6
        <5> QED BY <1>4, <4>2, <5>1
      <4> QED BY <3>1, <4>1, <4>2 DEF Has
    <3>3. Cardinality(L) # 0 \/ Cardinality(P) # 0
      BY <1>7, <3>2, FS_EmptySet
    <3> QED BY <1>2, <1>7, <3>3
  <2> QED BY <2>1, <2>2
<1> QED BY <1>8, <1>9, <1>10, <1>11 DEF n

-----------------------------------------------------------------------------
(* The frames but the last one, lo, and the last one, f. *)
LowerOK(lo) ==
  /\ lo \in Seq(Frames) /\ Len(lo) \in 0..MaxCalls
  /\ \A k \in 1..Len(lo) : Len(lo[k].params) <= MaxPending /\ Len(lo[k].pending) < MaxPending

TopOK(f) == f \in Frames /\ Len(f.params) <= MaxPending /\ Len(f.pending) <= MaxPending

\* The cell waits among the arguments of f, or of a lower frame.
WaitsIn(f, c) == \E i \in 1..Len(f.pending) : f.pending[i] = c

WaitsBelow(lo, c) == \E k \in 1..Len(lo) : WaitsIn(lo[k], c)

LowerPending(lo, f) ==
  \A k \in 1..Len(lo) : \A i \in 1..Len(lo[k].pending) :
    \/ Held(lo, k, lo[k].pending[i])
    \/ /\ ~Held(lo, Len(lo), lo[k].pending[i]) /\ ~Has(f, lo[k].pending[i])
       /\ ~WaitsIn(f, lo[k].pending[i])
       /\ \A l \in 1..Len(lo) : \A j \in 1..Len(lo[l].pending) :
            lo[l].pending[j] = lo[k].pending[i] => l = k /\ j = i

TopPending(lo, f) ==
  \A i \in 1..Len(f.pending) :
    \/ Held(lo, Len(lo), f.pending[i]) \/ Has(f, f.pending[i])
    \/ /\ ~WaitsBelow(lo, f.pending[i])
       /\ \A j \in 1..Len(f.pending) : f.pending[j] = f.pending[i] => j = i

Sound(s, lo, f) ==
  /\ LowerOK(lo) /\ TopOK(f) /\ LowerPending(lo, f) /\ TopPending(lo, f)
  /\ StoreOK(s, CountsOf(Append(lo, f)), Waits(Append(lo, f)))

LEMMA AppendFrame ==
  ASSUME NEW lo \in Seq(Frames), NEW f \in Frames
  PROVE  /\ Len(lo) \in Nat /\ Len(Append(lo, f)) = Len(lo) + 1
         /\ Append(lo, f) \in Seq(Frames)
         /\ \A k \in 1..Len(lo) : Append(lo, f)[k] = lo[k]
         /\ Append(lo, f)[Len(lo) + 1] = f
         /\ \A k \in 1..Len(lo) : \A c : Held(Append(lo, f), k, c) <=> Held(lo, k, c)
         /\ \A c : Held(Append(lo, f), Len(lo), c) <=> Held(lo, Len(lo), c)
         /\ \A c : Held(Append(lo, f), Len(lo) + 1, c) <=> Held(lo, Len(lo), c) \/ Has(f, c)
         /\ \A c \in Cells : c \in Waits(Append(lo, f)) <=> WaitsBelow(lo, c) \/ WaitsIn(f, c)
         /\ FramesOK(Append(lo, f)) <=> LowerOK(lo) /\ TopOK(f)
<1> DEFINE n == Len(lo)
           t == Append(lo, f)
<1>1. /\ n \in Nat /\ Len(t) = n + 1 /\ t \in Seq(Frames)
      /\ \A k \in 1..n : t[k] = lo[k]
      /\ t[n + 1] = f
  BY AppendProperties
<1> HIDE DEF n, t
<1>2. ASSUME NEW m \in 0..n, NEW c PROVE Held(t, m, c) <=> Held(lo, m, c)
  BY <1>1 DEF Held
<1>3. ASSUME NEW c PROVE Held(t, n + 1, c) <=> Held(lo, n, c) \/ Has(f, c)
  <2>1. \A k : k \in 1..n + 1 <=> k \in 1..n \/ k = n + 1
    BY <1>1
  <2> QED BY <1>1, <2>1 DEF Held
<1>4. ASSUME NEW c \in Cells PROVE c \in Waits(t) <=> WaitsBelow(lo, c) \/ WaitsIn(f, c)
  <2>1. \A k : k \in 1..Len(t) <=> k \in 1..n \/ k = n + 1
    BY <1>1
  <2>2. c \in Waits(t) <=> \E k \in 1..Len(t) : WaitsIn(t[k], c)
    BY DEF Waits, WaitsIn
  <2>3. WaitsBelow(lo, c) <=> \E k \in 1..n : WaitsIn(lo[k], c)
    BY DEF WaitsBelow, n
  <2> QED BY <1>1, <2>1, <2>2, <2>3
<1>5. FramesOK(t) <=> LowerOK(lo) /\ TopOK(f)
  <2>0. MaxCalls \in Nat /\ MaxPending \in Nat
    BY Constants
  <2>1. \A k : k \in 1..Len(t) <=> k \in 1..n \/ k = n + 1
    BY <1>1
  <2>2. Len(t) \in 1..MaxCalls + 1 <=> n \in 0..MaxCalls
    BY <1>1, <2>0
  <2>3. \A k : k \in 1..Len(t) /\ k < Len(t) <=> k \in 1..n
    BY <1>1
  <2>4. ASSUME FramesOK(t) PROVE LowerOK(lo) /\ TopOK(f)
    <3>1. ASSUME NEW k \in 1..n
          PROVE  Len(lo[k].params) <= MaxPending /\ Len(lo[k].pending) < MaxPending
      BY <1>1, <2>1, <2>3, <2>4 DEF FramesOK
    <3>2. TopOK(f)
      BY <1>1, <2>1, <2>4 DEF FramesOK, TopOK
    <3> QED BY <2>2, <2>4, <3>1, <3>2 DEF FramesOK, LowerOK, n
  <2>5. ASSUME LowerOK(lo), TopOK(f) PROVE FramesOK(t)
    <3> SUFFICES ASSUME NEW k \in 1..Len(t)
                 PROVE  /\ Len(t[k].params) <= MaxPending /\ Len(t[k].pending) <= MaxPending
                        /\ k < Len(t) => Len(t[k].pending) < MaxPending
      BY <1>1, <2>2, <2>5 DEF FramesOK, LowerOK, n
    <3>1. CASE k \in 1..n
      <4>1. t[k] = lo[k] /\ lo[k] \in Frames
        BY <1>1, <3>1 DEF n
      <4>2. Len(lo[k].params) <= MaxPending /\ Len(lo[k].pending) < MaxPending
        BY <2>5, <3>1 DEF LowerOK, n
      <4>3. Len(lo[k].pending) \in Nat
        BY <4>1 DEF Frames
      <4> QED BY <2>0, <4>1, <4>2, <4>3
    <3>2. CASE k = n + 1
      BY <1>1, <2>5, <3>2 DEF TopOK
    <3> QED BY <2>1, <3>1, <3>2
  <2> QED BY <2>4, <2>5
<1> QED BY <1>1, <1>2, <1>3, <1>4, <1>5 DEF n, t

LEMMA PendingSplit ==
  ASSUME NEW lo \in Seq(Frames), NEW f \in Frames
  PROVE  PendingOK(Append(lo, f)) <=> LowerPending(lo, f) /\ TopPending(lo, f)
<1> DEFINE n == Len(lo)
           t == Append(lo, f)
           Alone(k, i) == \A l \in 1..n + 1 : \A j \in 1..Len(t[l].pending) :
                            t[l].pending[j] = t[k].pending[i] => l = k /\ j = i
           At(k, i) == \/ Held(t, k, t[k].pending[i])
                       \/ ~Held(t, n + 1, t[k].pending[i]) /\ Alone(k, i)
           Lower(k, i) == \/ Held(lo, k, lo[k].pending[i])
                          \/ /\ ~Held(lo, n, lo[k].pending[i]) /\ ~Has(f, lo[k].pending[i])
                             /\ ~WaitsIn(f, lo[k].pending[i])
                             /\ \A l \in 1..n : \A j \in 1..Len(lo[l].pending) :
                                  lo[l].pending[j] = lo[k].pending[i] => l = k /\ j = i
           Upper(i) == \/ Held(lo, n, f.pending[i]) \/ Has(f, f.pending[i])
                       \/ /\ ~WaitsBelow(lo, f.pending[i])
                          /\ \A j \in 1..Len(f.pending) : f.pending[j] = f.pending[i] => j = i
<1>1. /\ n \in Nat /\ Len(t) = n + 1
      /\ \A k \in 1..n : t[k] = lo[k]
      /\ t[n + 1] = f
      /\ \A k \in 1..n : \A c : Held(t, k, c) <=> Held(lo, k, c)
      /\ \A c : Held(t, n, c) <=> Held(lo, n, c)
      /\ \A c : Held(t, n + 1, c) <=> Held(lo, n, c) \/ Has(f, c)
  BY AppendFrame
<1>2. PendingOK(t) <=> \A k \in 1..n + 1 : \A i \in 1..Len(t[k].pending) : At(k, i)
  BY <1>1 DEF PendingOK
<1>3. /\ LowerPending(lo, f) <=> \A k \in 1..n : \A i \in 1..Len(lo[k].pending) : Lower(k, i)
      /\ TopPending(lo, f) <=> \A i \in 1..Len(f.pending) : Upper(i)
  BY DEF LowerPending, TopPending
<1> HIDE DEF n, t
<1>4. \A k : k \in 1..n + 1 <=> k \in 1..n \/ k = n + 1
  BY <1>1
<1>5. \A k \in 1..n : k # n + 1
  BY <1>1
<1>6. ASSUME NEW k \in 1..n, NEW i \in 1..Len(lo[k].pending) PROVE At(k, i) <=> Lower(k, i)
  <2>1. t[k] = lo[k] /\ k # n + 1
    BY <1>1, <1>5
  <2>2. Alone(k, i) <=>
          /\ ~WaitsIn(f, lo[k].pending[i])
          /\ \A l \in 1..n : \A j \in 1..Len(lo[l].pending) :
               lo[l].pending[j] = lo[k].pending[i] => l = k /\ j = i
    BY <1>1, <1>4, <2>1 DEF WaitsIn
  <2>3. Held(t, k, t[k].pending[i]) <=> Held(lo, k, lo[k].pending[i])
    BY <1>1, <2>1
  <2>4. Held(t, n + 1, t[k].pending[i]) <=> Held(lo, n, lo[k].pending[i]) \/ Has(f, lo[k].pending[i])
    BY <1>1, <2>1
  <2> QED BY <2>2, <2>3, <2>4
<1>7. ASSUME NEW i \in 1..Len(f.pending) PROVE At(n + 1, i) <=> Upper(i)
  <2> DEFINE c == f.pending[i]
  <2>1. t[n + 1].pending[i] = c
    BY <1>1
  <2>2. Alone(n + 1, i) <=>
          ~WaitsBelow(lo, c) /\ \A j \in 1..Len(f.pending) : f.pending[j] = c => j = i
    <3>1. WaitsBelow(lo, c) <=>
            \E l \in 1..n : \E j \in 1..Len(lo[l].pending) : lo[l].pending[j] = c
      BY DEF WaitsBelow, WaitsIn, n
    <3> HIDE DEF c
    <3> QED BY <1>1, <1>4, <1>5, <2>1, <3>1
  <2>3. Held(t, n + 1, c) <=> Held(lo, n, c) \/ Has(f, c)
    BY <1>1
  <2> HIDE DEF Alone
  <2> QED BY <2>1, <2>2, <2>3
<1>8. PendingOK(t) <=> /\ \A k \in 1..n : \A i \in 1..Len(lo[k].pending) : At(k, i)
                       /\ \A i \in 1..Len(f.pending) : At(n + 1, i)
  <2> HIDE DEF At
  <2> QED BY <1>1, <1>2, <1>4
<1> HIDE DEF At, Lower, Upper
<1>9. PendingOK(t) <=> LowerPending(lo, f) /\ TopPending(lo, f)
  BY <1>3, <1>6, <1>7, <1>8
<1> QED BY <1>9 DEF t

\* The two ways to say it.
LEMMA SoundIs ==
  ASSUME NEW s, NEW lo \in Seq(Frames), NEW f \in Frames
  PROVE  Sound(s, lo, f) <=> /\ FramesOK(Append(lo, f)) /\ PendingOK(Append(lo, f))
                             /\ StoreOK(s, CountsOf(Append(lo, f)), Waits(Append(lo, f)))
BY AppendFrame, PendingSplit DEF Sound

\* What is held below, and how often a cell is held.
LEMMA SoundFacts ==
  ASSUME NEW s, NEW lo, NEW f, Sound(s, lo, f)
  PROVE  /\ lo \in Seq(Frames) /\ f \in Frames
         /\ \A c \in Cells :
              /\ HoldersIn(lo, c) \in Nat
              /\ Occurs(f.locals, c) \in Nat /\ Occurs(f.params, c) \in Nat
              /\ CountsOf(Append(lo, f))[c] = HoldersIn(lo, c) + Occurs(f.locals, c)
                                              + Occurs(f.params, c)
              /\ CountsOf(Append(lo, f))[c] + 1 < RefLimit
              /\ HoldersIn(lo, c) > 0 <=> Held(lo, Len(lo), c)
              /\ Has(f, c) <=> Occurs(f.locals, c) > 0 \/ Occurs(f.params, c) > 0
              /\ CountsOf(Append(lo, f))[c] > 0 <=> Held(lo, Len(lo), c) \/ Has(f, c)
              /\ WaitsBelow(lo, c) /\ Has(f, c) => HoldersIn(lo, c) > 0
         /\ HoldersIn(lo, pzeroCell) > 0
<1>1. lo \in Seq(Frames) /\ f \in Frames /\ Len(f.params) <= MaxPending
      /\ Bounded(Append(lo, f)) /\ Bounded(lo)
  <2>1. lo \in Seq(Frames) /\ f \in Frames /\ Len(f.params) <= MaxPending
        /\ FramesOK(Append(lo, f))
    BY AppendFrame DEF Sound, LowerOK, TopOK
  <2>2. Bounded(lo)
    BY Constants DEF Sound, LowerOK, Bounded
  <2>3. Bounded(Append(lo, f))
    BY <2>1, Constants DEF FramesOK, Bounded
  <2> QED BY <2>1, <2>2, <2>3
<1>2. /\ f.locals \in Seq(Cells \cup {pUndef}) /\ Len(f.locals) = 2
      /\ f.params \in Seq(Cells) /\ Len(f.params) \in Nat
  BY <1>1 DEF Frames
<1> SUFFICES ASSUME NEW c \in Cells
             PROVE  /\ HoldersIn(lo, c) \in Nat
                    /\ c = pzeroCell => HoldersIn(lo, c) > 0
                    /\ Occurs(f.locals, c) \in Nat /\ Occurs(f.params, c) \in Nat
                    /\ CountsOf(Append(lo, f))[c] = HoldersIn(lo, c) + Occurs(f.locals, c)
                                                    + Occurs(f.params, c)
                    /\ CountsOf(Append(lo, f))[c] + 1 < RefLimit
                    /\ HoldersIn(lo, c) > 0 <=> Held(lo, Len(lo), c)
                    /\ Has(f, c) <=> Occurs(f.locals, c) > 0 \/ Occurs(f.params, c) > 0
                    /\ CountsOf(Append(lo, f))[c] > 0 <=> Held(lo, Len(lo), c) \/ Has(f, c)
                    /\ WaitsBelow(lo, c) /\ Has(f, c) => HoldersIn(lo, c) > 0
  BY <1>1, Constants
<1>3. CountsOf(Append(lo, f))[c] = HoldersIn(Append(lo, f), c)
  BY DEF CountsOf
<1>4. /\ HoldersIn(lo, c) \in Nat
      /\ c = pzeroCell => HoldersIn(lo, c) > 0
      /\ HoldersIn(Append(lo, f), c) = HoldersIn(lo, c) + Occurs(f.locals, c) + Occurs(f.params, c)
  BY <1>1, HoldersAppend
<1>5. HoldersIn(Append(lo, f), c) + 1 < RefLimit
  BY <1>1, HoldersBound
<1>6. /\ Occurs(f.locals, c) \in Nat /\ Occurs(f.params, c) \in Nat
      /\ Occurs(f.locals, c) > 0 <=> \E i \in 1..2 : f.locals[i] = c
      /\ Occurs(f.params, c) > 0 <=> \E i \in 1..Len(f.params) : f.params[i] = c
  BY <1>2, OccursSome
<1>7. Has(f, c) <=> Occurs(f.locals, c) > 0 \/ Occurs(f.params, c) > 0
  BY <1>6 DEF Has
<1>8. HoldersIn(lo, c) > 0 <=> Held(lo, Len(lo), c)
  BY <1>1, HoldersBound
<1>9. CountsOf(Append(lo, f))[c] > 0 <=> Held(lo, Len(lo), c) \/ Has(f, c)
  BY <1>3, <1>4, <1>6, <1>7, <1>8
<1>10. ASSUME WaitsBelow(lo, c), Has(f, c) PROVE HoldersIn(lo, c) > 0
  <2>0. PICK k \in 1..Len(lo) : WaitsIn(lo[k], c)
    BY <1>10 DEF WaitsBelow
  <2>1. PICK i \in 1..Len(lo[k].pending) : lo[k].pending[i] = c
    BY <2>0 DEF WaitsIn
  <2>2. Held(lo, k, c)
    BY <1>10, <2>1 DEF Sound, LowerPending
  <2>3. Held(lo, Len(lo), c)
    BY <1>1, <2>1, <2>2 DEF Held
  <2> QED BY <1>8, <2>3
<1> QED BY <1>3, <1>4, <1>5, <1>6, <1>7, <1>8, <1>9, <1>10

\* From the store to the frames.
LEMMA ToSound ==
  ASSUME NEW t, NEW g, NEW w, StoreOK(t, g, w),
         NEW lo, NEW f, LowerOK(lo), TopOK(f), LowerPending(lo, f), TopPending(lo, f),
         \A c \in Cells : g[c] = HoldersIn(lo, c) + Occurs(f.locals, c) + Occurs(f.params, c),
         \A c \in Cells : (c \in w <=> WaitsBelow(lo, c) \/ WaitsIn(f, c)) \/ g[c] > 0
  PROVE  Sound(t, lo, f)
<1>1. lo \in Seq(Frames) /\ f \in Frames /\ Len(f.params) <= MaxPending
  BY DEF LowerOK, TopOK
<1>2. g \in [Cells -> Nat] /\ w \subseteq Cells
  BY DEF StoreOK
<1>3. \A c \in Cells : g[c] = HoldersIn(Append(lo, f), c)
  BY <1>1, HoldersAppend
<1>4. g = CountsOf(Append(lo, f))
  BY <1>2, <1>3 DEF CountsOf
<1> DEFINE v == Waits(Append(lo, f))
<1>5. v \subseteq Cells /\ \A c \in Cells : c \in v <=> WaitsBelow(lo, c) \/ WaitsIn(f, c)
  BY <1>1, AppendFrame DEF Waits
<1> HIDE DEF v
<1>6. (\A c \in v \ w : g[c] > 0) /\ (\A c \in w \ v : g[c] > 0)
  BY <1>2, <1>5
<1>7. StoreOK(t, g, v)
  BY <1>5, <1>6, OtherResults
<1> QED BY <1>4, <1>7 DEF Sound, v

\* An argument is evaluated.
LEMMA EvaluateOK ==
  ASSUME NEW s, NEW lo, NEW f, Sound(s, lo, f), Len(f.pending) < MaxPending,
         NEW c \in Cells, Has(f, c) \/ c = pzeroCell
  PROVE  Sound(s, lo, [f EXCEPT !.pending = Append(@, c)])
<1> DEFINE g == [f EXCEPT !.pending = Append(@, c)]
           h == CountsOf(Append(lo, f))
           w == Waits(Append(lo, f))
           n == Len(f.pending)
<1>1. /\ LowerOK(lo) /\ TopOK(f) /\ LowerPending(lo, f) /\ TopPending(lo, f)
      /\ StoreOK(s, h, w)
      /\ lo \in Seq(Frames) /\ f \in Frames
  BY DEF Sound, LowerOK, TopOK
<1>2. /\ f.pending \in Seq(Cells) /\ n \in Nat
      /\ g.params = f.params /\ g.locals = f.locals /\ g.pending = Append(f.pending, c)
  BY <1>1 DEF Frames
<1>3. /\ g.pending \in Seq(Cells) /\ Len(g.pending) = n + 1 /\ g.pending[n + 1] = c
      /\ \A i \in 1..n : g.pending[i] = f.pending[i]
  BY <1>2, AppendProperties
<1>4. g \in Frames
  <2> DEFINE q == Append(f.pending, c)
             L == {l \in Seq(Cells \cup {pUndef}) : Len(l) = 2}
  <2>1. q \in Seq(Cells) /\ g = [f EXCEPT !.pending = q]
    BY <1>2, <1>3
  <2>2. f \in [params : Seq(Cells), locals : L, pending : Seq(Cells)]
    BY <1>1 DEF Frames
  <2> HIDE DEF g, q, L
  <2>3. g \in [params : Seq(Cells), locals : L, pending : Seq(Cells)]
    BY <2>1, <2>2
  <2> QED BY <2>3 DEF Frames, L
<1> HIDE DEF g, h, w, n
<1>5. TopOK(g)
  BY <1>1, <1>2, <1>3, <1>4, Constants DEF TopOK, n
<1>6. \A d : Has(g, d) <=> Has(f, d)
  BY <1>2 DEF Has
<1>7. \A d : WaitsIn(g, d) <=> WaitsIn(f, d) \/ d = c
  <2>1. \A i : i \in 1..n + 1 <=> i \in 1..n \/ i = n + 1
    BY <1>2
  <2> QED BY <1>3, <2>1 DEF WaitsIn, n
<1>8. Held(lo, Len(lo), c) \/ Has(f, c)
  BY DEF Held
<1>9. LowerPending(lo, g)
  <2> SUFFICES ASSUME NEW k \in 1..Len(lo), NEW i \in 1..Len(lo[k].pending),
                      ~Held(lo, k, lo[k].pending[i])
               PROVE  ~WaitsIn(g, lo[k].pending[i])
    BY <1>1, <1>6 DEF LowerPending
  <2>1. /\ ~Held(lo, Len(lo), lo[k].pending[i]) /\ ~Has(f, lo[k].pending[i])
        /\ ~WaitsIn(f, lo[k].pending[i])
    BY <1>1 DEF LowerPending
  <2> QED BY <1>7, <1>8, <2>1
<1>10. TopPending(lo, g)
  <2> SUFFICES ASSUME NEW i \in 1..n + 1, ~Held(lo, Len(lo), g.pending[i]), ~Has(f, g.pending[i])
               PROVE  /\ ~WaitsBelow(lo, g.pending[i])
                      /\ \A j \in 1..n + 1 : g.pending[j] = g.pending[i] => j = i
    BY <1>3, <1>6 DEF TopPending
  <2>1. i \in 1..n /\ g.pending[i] = f.pending[i] /\ g.pending[i] # c
    BY <1>2, <1>3, <1>8
  <2>2. /\ ~WaitsBelow(lo, f.pending[i])
        /\ \A j \in 1..n : f.pending[j] = f.pending[i] => j = i
    BY <1>1, <2>1 DEF TopPending, n
  <2>3. \A j \in 1..n + 1 : j \in 1..n \/ j = n + 1
    BY <1>2
  <2> QED BY <1>3, <2>1, <2>2, <2>3
<1>11. \A d \in Cells : h[d] = HoldersIn(lo, d) + Occurs(g.locals, d) + Occurs(g.params, d)
  BY <1>2, SoundFacts DEF h
<1>12. \A d \in Cells : (d \in w <=> WaitsBelow(lo, d) \/ WaitsIn(g, d)) \/ h[d] > 0
  <2>1. h[c] > 0
    BY <1>8, SoundFacts DEF h
  <2>2. \A d \in Cells : d \in w <=> WaitsBelow(lo, d) \/ WaitsIn(f, d)
    BY <1>1, AppendFrame DEF w
  <2> QED BY <1>7, <2>1, <2>2
<1>13. Sound(s, lo, g)
  BY <1>1, <1>5, <1>9, <1>10, <1>11, <1>12, ToSound
<1> QED BY <1>13 DEF g

\* Another list of arguments.
LEMMA NewPending ==
  ASSUME NEW f \in Frames, NEW q \in Seq(Cells)
  PROVE  /\ [f EXCEPT !.pending = q] \in Frames
         /\ [f EXCEPT !.pending = q].params = f.params
         /\ [f EXCEPT !.pending = q].locals = f.locals
         /\ [f EXCEPT !.pending = q].pending = q
<1> DEFINE L == {l \in Seq(Cells \cup {pUndef}) : Len(l) = 2}
<1>1. f \in [params : Seq(Cells), locals : L, pending : Seq(Cells)]
  BY DEF Frames
<1> HIDE DEF L
<1>2. [f EXCEPT !.pending = q] \in [params : Seq(Cells), locals : L, pending : Seq(Cells)]
  BY <1>1
<1>3. [f EXCEPT !.pending = q] \in Frames
  BY <1>2 DEF Frames, L
<1> QED BY <1>1, <1>3

\* A call with the last arguments, q; the others, p, wait.
LEMMA CallOK ==
  ASSUME NEW s, NEW lo, NEW f, Sound(s, lo, f), Len(lo) < MaxCalls,
         NEW p \in Seq(Cells), NEW q \in Seq(Cells), f.pending = p \o q, Len(q) > 0
  PROVE  Sound(Parm(s, q), Append(lo, [f EXCEPT !.pending = p]), Frame(q))
<1> DEFINE g == [f EXCEPT !.pending = p]
           up == Append(lo, g)
           e == Frame(q)
           h == CountsOf(Append(lo, f))
           w == Waits(Append(lo, f))
           n == Len(lo)
<1>1. /\ LowerOK(lo) /\ TopOK(f) /\ LowerPending(lo, f) /\ TopPending(lo, f)
      /\ StoreOK(s, h, w)
      /\ lo \in Seq(Frames) /\ f \in Frames
  BY DEF Sound, LowerOK, TopOK
<1>2. /\ Len(p) \in Nat /\ Len(q) \in Nat /\ Len(f.pending) = Len(p) + Len(q)
      /\ \A i \in 1..Len(p) : f.pending[i] = p[i]
      /\ \A i \in 1..Len(q) : f.pending[Len(p) + i] = q[i]
  <2>1. /\ Len(p) \in Nat /\ Len(q) \in Nat /\ Len(f.pending) = Len(p) + Len(q)
        /\ \A i \in 1..Len(p) + Len(q) : f.pending[i] = IF i <= Len(p) THEN p[i] ELSE q[i - Len(p)]
    BY ConcatProperties, LenProperties
  <2> QED BY <2>1
<1>3. g \in Frames /\ g.params = f.params /\ g.locals = f.locals /\ g.pending = p
  BY <1>1, NewPending
<1>4. /\ e.params = q /\ e.locals = <<pUndef, pUndef>> /\ e.pending = <<>> /\ e \in Frames
      /\ Len(e.pending) = 0
  BY DEF Frame, Frames
<1> HIDE DEF g, e, h, w
<1>5. /\ n \in Nat /\ up \in Seq(Frames) /\ Len(up) = n + 1
      /\ \A k \in 1..n : up[k] = lo[k]
      /\ up[n + 1] = g
      /\ \A k \in 1..n : \A c : Held(up, k, c) <=> Held(lo, k, c)
      /\ \A c : Held(up, n + 1, c) <=> Held(lo, n, c) \/ Has(g, c)
  BY <1>1, <1>3, AppendFrame
<1>6. /\ \A c : Has(g, c) <=> Has(f, c)
      /\ \A c : WaitsIn(g, c) <=> \E i \in 1..Len(p) : p[i] = c
      /\ \A c : WaitsIn(f, c) <=> WaitsIn(g, c) \/ \E i \in 1..Len(q) : q[i] = c
  <2>1. \A i \in 1..Len(p) + Len(q) : i \in 1..Len(p) \/ \E j \in 1..Len(q) : i = Len(p) + j
    <3> SUFFICES ASSUME NEW i \in 1..Len(p) + Len(q), i \notin 1..Len(p)
                 PROVE  i - Len(p) \in 1..Len(q) /\ i = Len(p) + (i - Len(p))
      OBVIOUS
    <3> QED BY <1>2
  <2>2. /\ \A i \in 1..Len(p) : i \in 1..Len(p) + Len(q)
        /\ \A j \in 1..Len(q) : Len(p) + j \in 1..Len(p) + Len(q)
    BY <1>2
  <2>3. \A c : Has(g, c) <=> Has(f, c)
    BY <1>3 DEF Has
  <2>4. \A c : WaitsIn(g, c) <=> \E i \in 1..Len(p) : p[i] = c
    BY <1>3 DEF WaitsIn
  <2>5. ASSUME NEW c, WaitsIn(f, c) PROVE WaitsIn(g, c) \/ \E i \in 1..Len(q) : q[i] = c
    <3>1. PICK i \in 1..Len(p) + Len(q) : f.pending[i] = c
      BY <1>2, <2>5 DEF WaitsIn
    <3>2. CASE i \in 1..Len(p)
      BY <1>2, <2>4, <3>1, <3>2
    <3>3. CASE \E j \in 1..Len(q) : i = Len(p) + j
      BY <1>2, <3>1, <3>3
    <3> QED BY <2>1, <3>1, <3>2, <3>3
  <2>6. ASSUME NEW c, WaitsIn(g, c) PROVE WaitsIn(f, c)
    BY <1>2, <2>2, <2>4, <2>6 DEF WaitsIn
  <2>7. ASSUME NEW c, NEW i \in 1..Len(q), q[i] = c PROVE WaitsIn(f, c)
    BY <1>2, <2>2, <2>7 DEF WaitsIn
  <2> QED BY <2>3, <2>4, <2>5, <2>6, <2>7
<1>7. \A c \in Cells : Has(e, c) <=> \E i \in 1..Len(q) : q[i] = c
  <2>1. pUndef \notin Cells
    BY Constants
  <2> QED BY <1>4, <2>1 DEF Has
<1>8. \A c : ~WaitsIn(e, c)
  BY <1>4 DEF WaitsIn
<1>9. \A c : WaitsBelow(up, c) <=> WaitsBelow(lo, c) \/ WaitsIn(g, c)
  <2>1. \A k : k \in 1..n + 1 <=> k \in 1..n \/ k = n + 1
    BY <1>5
  <2> QED BY <1>5, <2>1 DEF WaitsBelow
<1>10. LowerOK(up) /\ TopOK(e)
  <2>1. Len(p) < MaxPending /\ Len(q) <= MaxPending /\ MaxPending \in Nat /\ MaxCalls \in Nat
    BY <1>1, <1>2, Constants DEF TopOK
  <2>2. \A k : k \in 1..n + 1 <=> k \in 1..n \/ k = n + 1
    BY <1>5
  <2>3. TopOK(e)
    BY <1>4, <2>1 DEF TopOK
  <2>4. \A k \in 1..n + 1 : Len(up[k].params) <= MaxPending /\ Len(up[k].pending) < MaxPending
    BY <1>1, <1>3, <1>5, <2>1, <2>2 DEF LowerOK, TopOK
  <2>5. n + 1 \in 0..MaxCalls
    BY <1>5, <2>1
  <2> HIDE DEF up
  <2> QED BY <1>5, <2>3, <2>4, <2>5 DEF LowerOK
<1> HIDE DEF up, n
<1>11. TopPending(up, e)
  BY <1>4 DEF TopPending
<1>12. LowerPending(up, e)
  <2> SUFFICES ASSUME NEW k \in 1..n + 1, NEW i \in 1..Len(up[k].pending), NEW c,
                      c = up[k].pending[i], ~Held(up, k, c)
               PROVE  /\ ~Held(up, n + 1, c) /\ ~Has(e, c) /\ ~WaitsIn(e, c)
                      /\ \A l \in 1..n + 1 : \A j \in 1..Len(up[l].pending) :
                           up[l].pending[j] = c => l = k /\ j = i
    BY <1>5 DEF LowerPending
  <2>1. \A l : l \in 1..n + 1 <=> l \in 1..n \/ l = n + 1
    BY <1>5
  <2>2. c \in Cells
    <3>1. up[k] \in Frames
      BY <1>5
    <3> QED BY <3>1 DEF Frames
  <2>3. CASE k \in 1..n
    <3>1. up[k] = lo[k] /\ ~Held(lo, k, c)
      BY <1>5, <2>3
    <3>2. /\ ~Held(lo, n, c) /\ ~Has(f, c) /\ ~WaitsIn(f, c)
          /\ \A l \in 1..n : \A j \in 1..Len(lo[l].pending) :
               lo[l].pending[j] = c => l = k /\ j = i
      BY <1>1, <2>3, <3>1 DEF LowerPending, n
    <3>3. \A j \in 1..Len(g.pending) : g.pending[j] # c
      BY <1>6, <3>2 DEF WaitsIn
    <3>4. ~Held(up, n + 1, c)
      BY <1>5, <1>6, <3>2
    <3>5. ~Has(e, c) /\ ~WaitsIn(e, c)
      BY <1>6, <1>7, <1>8, <2>2, <3>2
    <3>6. ASSUME NEW l \in 1..n + 1, NEW j \in 1..Len(up[l].pending), up[l].pending[j] = c
          PROVE  l = k /\ j = i
      <4>1. l # n + 1
        BY <1>5, <3>3, <3>6
      <4>2. l \in 1..n /\ up[l] = lo[l]
        BY <1>5, <2>1, <4>1
      <4> QED BY <3>2, <3>6, <4>2
    <3> QED BY <3>4, <3>5, <3>6
  <2>4. CASE k = n + 1
    <3>1. up[k] = g /\ i \in 1..Len(p) /\ c = p[i]
      BY <1>3, <1>5, <2>4
    <3>2. i \in 1..Len(f.pending) /\ f.pending[i] = c
      BY <1>2, <3>1
    <3>3. ~Held(lo, n, c) /\ ~Has(f, c)
      BY <1>5, <1>6, <2>4
    <3>4. ~WaitsBelow(lo, c) /\ \A j \in 1..Len(f.pending) : f.pending[j] = c => j = i
      BY <1>1, <3>2, <3>3 DEF TopPending, n
    <3>5. \A j \in 1..Len(q) : q[j] # c
      <4> SUFFICES ASSUME NEW j \in 1..Len(q), q[j] = c PROVE FALSE
        OBVIOUS
      <4>1. Len(p) + j \in 1..Len(f.pending) /\ Len(p) + j # i
        BY <1>2, <3>1
      <4> QED BY <1>2, <3>4, <4>1
    <3>6. \A j \in 1..Len(p) : p[j] = c => j = i
      BY <1>2, <3>4
    <3>7. \A l \in 1..n : \A j \in 1..Len(lo[l].pending) : lo[l].pending[j] # c
      BY <3>4 DEF WaitsBelow, WaitsIn, n
    <3>8. ~Held(up, n + 1, c)
      BY <1>5, <1>6, <3>3
    <3>9. ~Has(e, c) /\ ~WaitsIn(e, c)
      BY <1>7, <1>8, <2>2, <3>5
    <3>10. ASSUME NEW l \in 1..n + 1, NEW j \in 1..Len(up[l].pending), up[l].pending[j] = c
           PROVE  l = k /\ j = i
      <4>1. l \notin 1..n
        BY <1>5, <3>7, <3>10
      <4>2. l = n + 1 /\ up[l] = g
        BY <1>5, <2>1, <4>1
      <4> QED BY <1>3, <2>4, <3>6, <3>10, <4>2
    <3> QED BY <3>8, <3>9, <3>10
  <2> QED BY <2>1, <2>3, <2>4
<1>13. \A c \in Cells : /\ h[c] \in Nat /\ h[c] = HoldersIn(up, c)
                        /\ h[c] + Occurs(q, c) < RefLimit
                        /\ Occurs(e.locals, c) = 0 /\ Occurs(e.params, c) = Occurs(q, c)
                        /\ Occurs(q, c) \in Nat
                        /\ Occurs(q, c) > 0 <=> \E i \in 1..Len(q) : q[i] = c
  <2> SUFFICES ASSUME NEW c \in Cells
               PROVE  /\ h[c] \in Nat /\ h[c] = HoldersIn(up, c)
                      /\ h[c] + Occurs(q, c) < RefLimit
                      /\ Occurs(e.locals, c) = 0 /\ Occurs(e.params, c) = Occurs(q, c)
                      /\ Occurs(q, c) \in Nat
                      /\ Occurs(q, c) > 0 <=> \E i \in 1..Len(q) : q[i] = c
    OBVIOUS
  <2>1. h[c] = HoldersIn(lo, c) + Occurs(f.locals, c) + Occurs(f.params, c)
    BY SoundFacts DEF h
  <2>2. HoldersIn(up, c) = HoldersIn(lo, c) + Occurs(g.locals, c) + Occurs(g.params, c)
    BY <1>1, <1>3, HoldersAppend DEF up, TopOK
  <2>3. /\ HoldersIn(up, c) \in Nat
        /\ HoldersIn(Append(up, e), c) = HoldersIn(up, c) + Occurs(e.locals, c) + Occurs(e.params, c)
    BY <1>4, <1>5, <1>10, HoldersAppend DEF TopOK
  <2>4. Bounded(Append(up, e))
    <3>1. FramesOK(Append(up, e))
      BY <1>4, <1>5, <1>10, AppendFrame
    <3> QED BY <3>1, FramesBounded
  <2>5. HoldersIn(Append(up, e), c) + 1 < RefLimit
    BY <2>4, HoldersBound
  <2>6. Occurs(e.locals, c) = 0
    <3>1. e.locals[1] # c /\ e.locals[2] # c /\ Len(e.locals) = 2
      BY <1>4, Constants
    <3> QED BY <3>1, OccursPair DEF Bit
  <2>7. /\ Occurs(q, c) \in Nat
        /\ Occurs(q, c) > 0 <=> \E i \in 1..Len(q) : q[i] = c
    BY OccursSome
  <2>8. RefLimit \in Nat
    BY Constants
  <2> QED BY <1>3, <1>4, <2>1, <2>2, <2>3, <2>5, <2>6, <2>7, <2>8
<1>14. \A c \in Cells : c \in w <=> WaitsBelow(lo, c) \/ WaitsIn(f, c)
  BY <1>1, AppendFrame DEF w
<1> DEFINE z == [c \in Cells |-> h[c] + Occurs(q, c)]
<1>15. StoreOK(Parm(s, q), z, w)
  <2>1. \A i \in 1..Len(q) : h[q[i]] > 0 \/ q[i] \in w
    BY <1>6, <1>14
  <2>2. \A c \in Cells : h[c] + Occurs(q, c) < RefLimit
    BY <1>13
  <2> QED BY <1>1, <2>1, <2>2, ParmOK
<1>16. \A c \in Cells : z[c] = HoldersIn(up, c) + Occurs(e.locals, c) + Occurs(e.params, c)
  BY <1>13
<1>17. \A c \in Cells : (c \in w <=> WaitsBelow(up, c) \/ WaitsIn(e, c)) \/ z[c] > 0
  <2> SUFFICES ASSUME NEW c \in Cells, z[c] = 0
               PROVE  c \in w <=> WaitsBelow(up, c) \/ WaitsIn(e, c)
    BY <1>13
  <2>1. Occurs(q, c) = 0
    BY <1>13
  <2>2. ~\E i \in 1..Len(q) : q[i] = c
    BY <1>13, <2>1
  <2> QED BY <1>6, <1>8, <1>9, <1>14, <2>2
<1> HIDE DEF z
<1>18. Sound(Parm(s, q), up, e)
  BY <1>10, <1>11, <1>12, <1>15, <1>16, <1>17, ToSound
<1> QED BY <1>18 DEF up, e, g

\* In g the cell c stands where old stood in f, among the variables or the
\* parameters, and q is what has been evaluated.
Assigned(f, g, c, old, q) ==
  /\ g \in Frames /\ Len(g.params) = Len(f.params) /\ g.pending = q
  /\ c \in Cells /\ old \in Cells \cup {pUndef}
  /\ \A d \in Cells :
       /\ Occurs(f.locals, d) \in Nat /\ Occurs(f.params, d) \in Nat
       /\ Occurs(g.locals, d) \in Nat /\ Occurs(g.params, d) \in Nat
       /\ Occurs(g.locals, d) + Occurs(g.params, d) + Bit(old = d)
            = Occurs(f.locals, d) + Occurs(f.params, d) + Bit(c = d)
       /\ Has(f, d) <=> Occurs(f.locals, d) + Occurs(f.params, d) > 0
       /\ Has(g, d) <=> Occurs(g.locals, d) + Occurs(g.params, d) > 0

LEMMA FrameCounts ==
  ASSUME NEW f \in Frames, NEW d
  PROVE  /\ Occurs(f.locals, d) \in Nat /\ Occurs(f.params, d) \in Nat
         /\ Has(f, d) <=> Occurs(f.locals, d) + Occurs(f.params, d) > 0
<1>1. /\ f.locals \in Seq(Cells \cup {pUndef}) /\ Len(f.locals) = 2
      /\ f.params \in Seq(Cells)
  BY DEF Frames
<1>2. /\ Occurs(f.locals, d) \in Nat /\ Occurs(f.params, d) \in Nat
      /\ Occurs(f.locals, d) > 0 <=> \E i \in 1..2 : f.locals[i] = d
      /\ Occurs(f.params, d) > 0 <=> \E i \in 1..Len(f.params) : f.params[i] = d
  BY <1>1, OccursSome
<1>3. Has(f, d) <=> Occurs(f.locals, d) > 0 \/ Occurs(f.params, d) > 0
  BY <1>2 DEF Has
<1> QED BY <1>2, <1>3

LEMMA Balanced ==
  ASSUME NEW x \in Nat, NEW y \in Nat, NEW z \in Nat, NEW k \in Nat, NEW m \in Nat,
         x + k = y + m
  PROVE  x + z + k = y + z + m /\ z + x + k = z + y + m
OBVIOUS

LEMMA LocalAssigned ==
  ASSUME NEW f \in Frames, NEW i \in 1..2, NEW c \in Cells, NEW q \in Seq(Cells),
         NEW g, g.params = f.params, g.locals = [f.locals EXCEPT ![i] = c], g.pending = q,
         g = [params |-> g.params, locals |-> g.locals, pending |-> g.pending]
  PROVE  Assigned(f, g, c, f.locals[i], q)
<1>1. /\ f.locals \in Seq(Cells \cup {pUndef}) /\ Len(f.locals) = 2
      /\ f.params \in Seq(Cells)
  BY DEF Frames
<1>2. /\ g.locals \in Seq(Cells \cup {pUndef}) /\ Len(g.locals) = 2
      /\ f.locals[i] \in Cells \cup {pUndef}
  <2> DEFINE S == Cells \cup {pUndef}
             l == f.locals
  <2>1. l \in Seq(S) /\ i \in 1..Len(l) /\ c \in S /\ Len(l) = 2
    BY <1>1
  <2>2. g.locals = [l EXCEPT ![i] = c]
    OBVIOUS
  <2> HIDE DEF S, l
  <2>3. l[i] \in S
    BY <2>1, ElementOfSeq
  <2>5. /\ [l EXCEPT ![i] = c] \in Seq(S)
        /\ Len([l EXCEPT ![i] = c]) = Len(l)
    BY <2>1, ExceptSeq
  <2>4. g.locals \in Seq(S) /\ Len(g.locals) = 2 /\ l[i] \in S
    BY <2>1, <2>2, <2>3, <2>5
  <2> QED BY <2>4 DEF S, l
<1>3. g \in Frames
  BY <1>1, <1>2 DEF Frames
<1>4. ASSUME NEW d \in Cells
      PROVE  Occurs(g.locals, d) + Bit(f.locals[i] = d) = Occurs(f.locals, d) + Bit(c = d)
  <2> DEFINE S == Cells \cup {pUndef}
             l == f.locals
  <2>1. l \in Seq(S) /\ i \in 1..Len(l) /\ c \in S
    BY <1>1
  <2>2. g.locals = [l EXCEPT ![i] = c]
    OBVIOUS
  <2> HIDE DEF S, l
  <2>3. Occurs([l EXCEPT ![i] = c], d) + Bit(l[i] = d) = Occurs(l, d) + Bit(c = d)
    BY <2>1, OccursExcept
  <2> QED BY <2>2, <2>3 DEF l
<1> SUFFICES ASSUME NEW d \in Cells
             PROVE  /\ Occurs(f.locals, d) \in Nat /\ Occurs(f.params, d) \in Nat
                    /\ Occurs(g.locals, d) \in Nat /\ Occurs(g.params, d) \in Nat
                    /\ Occurs(g.locals, d) + Occurs(g.params, d) + Bit(f.locals[i] = d)
                         = Occurs(f.locals, d) + Occurs(f.params, d) + Bit(c = d)
                    /\ Has(f, d) <=> Occurs(f.locals, d) + Occurs(f.params, d) > 0
                    /\ Has(g, d) <=> Occurs(g.locals, d) + Occurs(g.params, d) > 0
  BY <1>2, <1>3 DEF Assigned
<1>5. /\ Occurs(f.locals, d) \in Nat /\ Occurs(f.params, d) \in Nat
      /\ Occurs(g.locals, d) \in Nat /\ Occurs(g.params, d) \in Nat
      /\ Has(f, d) <=> Occurs(f.locals, d) + Occurs(f.params, d) > 0
      /\ Has(g, d) <=> Occurs(g.locals, d) + Occurs(g.params, d) > 0
  BY <1>3, FrameCounts
<1>6. Bit(f.locals[i] = d) \in Nat /\ Bit(c = d) \in Nat
  BY DEF Bit
<1> DEFINE x == Occurs(g.locals, d)
           y == Occurs(f.locals, d)
           z == Occurs(f.params, d)
           k == Bit(f.locals[i] = d)
           m == Bit(c = d)
<1>7. x \in Nat /\ y \in Nat /\ z \in Nat /\ k \in Nat /\ m \in Nat /\ x + k = y + m
  BY <1>4, <1>5, <1>6
<1>8. Occurs(g.params, d) = z
  OBVIOUS
<1> HIDE DEF x, y, z, k, m
<1>9. x + z + k = y + z + m
  BY <1>7, Balanced
<1> QED BY <1>5, <1>8, <1>9 DEF x, y, z, k, m

LEMMA ParamAssigned ==
  ASSUME NEW f \in Frames, NEW i \in 1..Len(f.params), NEW c \in Cells, NEW q \in Seq(Cells),
         NEW g, g.locals = f.locals, g.params = [f.params EXCEPT ![i] = c], g.pending = q,
         g = [params |-> g.params, locals |-> g.locals, pending |-> g.pending]
  PROVE  Assigned(f, g, c, f.params[i], q)
<1>1. /\ f.locals \in Seq(Cells \cup {pUndef}) /\ Len(f.locals) = 2
      /\ f.params \in Seq(Cells)
  BY DEF Frames
<1>2. g.params \in Seq(Cells) /\ Len(g.params) = Len(f.params) /\ f.params[i] \in Cells
  BY <1>1, ExceptSeq
<1>3. g \in Frames
  BY <1>1, <1>2 DEF Frames
<1>4. ASSUME NEW d \in Cells
      PROVE  Occurs(g.params, d) + Bit(f.params[i] = d) = Occurs(f.params, d) + Bit(c = d)
  BY <1>1, OccursExcept
<1> SUFFICES ASSUME NEW d \in Cells
             PROVE  /\ Occurs(f.locals, d) \in Nat /\ Occurs(f.params, d) \in Nat
                    /\ Occurs(g.locals, d) \in Nat /\ Occurs(g.params, d) \in Nat
                    /\ Occurs(g.locals, d) + Occurs(g.params, d) + Bit(f.params[i] = d)
                         = Occurs(f.locals, d) + Occurs(f.params, d) + Bit(c = d)
                    /\ Has(f, d) <=> Occurs(f.locals, d) + Occurs(f.params, d) > 0
                    /\ Has(g, d) <=> Occurs(g.locals, d) + Occurs(g.params, d) > 0
  BY <1>2, <1>3 DEF Assigned
<1>5. /\ Occurs(f.locals, d) \in Nat /\ Occurs(f.params, d) \in Nat
      /\ Occurs(g.locals, d) \in Nat /\ Occurs(g.params, d) \in Nat
      /\ Has(f, d) <=> Occurs(f.locals, d) + Occurs(f.params, d) > 0
      /\ Has(g, d) <=> Occurs(g.locals, d) + Occurs(g.params, d) > 0
  BY <1>3, FrameCounts
<1>6. Bit(f.params[i] = d) \in Nat /\ Bit(c = d) \in Nat
  BY DEF Bit
<1> DEFINE x == Occurs(g.params, d)
           y == Occurs(f.params, d)
           z == Occurs(f.locals, d)
           k == Bit(f.params[i] = d)
           m == Bit(c = d)
<1>7. x \in Nat /\ y \in Nat /\ z \in Nat /\ k \in Nat /\ m \in Nat /\ x + k = y + m
  BY <1>4, <1>5, <1>6
<1>8. Occurs(g.locals, d) = z
  OBVIOUS
<1> HIDE DEF x, y, z, k, m
<1>9. z + x + k = z + y + m
  BY <1>7, Balanced
<1> QED BY <1>5, <1>8, <1>9 DEF x, y, z, k, m

\* The frame has nothing that it had not but c, and keeps all but old.
LEMMA AssignedHas ==
  ASSUME NEW f, NEW g, NEW c, NEW old, NEW q, Assigned(f, g, c, old, q), NEW d \in Cells
  PROVE  /\ Has(g, d) => Has(f, d) \/ d = c
         /\ Has(f, d) => Has(g, d) \/ d = old
<1> DEFINE x == Occurs(g.locals, d)
           y == Occurs(g.params, d)
           u == Occurs(f.locals, d)
           v == Occurs(f.params, d)
           k == Bit(old = d)
           m == Bit(c = d)
<1>1. /\ x \in Nat /\ y \in Nat /\ u \in Nat /\ v \in Nat
      /\ x + y + k = u + v + m
      /\ Has(f, d) <=> u + v > 0
      /\ Has(g, d) <=> x + y > 0
  BY DEF Assigned
<1>2. /\ k \in Nat /\ (k = 0 \/ d = old)
      /\ m \in Nat /\ (m = 0 \/ d = c)
  BY DEF Bit
<1> HIDE DEF x, y, u, v, k, m
<1>3. m = 0 /\ x + y > 0 => u + v > 0
  BY <1>1, <1>2
<1>4. k = 0 /\ u + v > 0 => x + y > 0
  BY <1>1, <1>2
<1> QED BY <1>1, <1>2, <1>3, <1>4

LEMMA AssignedFrames ==
  ASSUME NEW lo, NEW f, LowerOK(lo), TopOK(f), LowerPending(lo, f),
         NEW g, NEW c, NEW old, Assigned(f, g, c, old, <<>>),
         WaitsBelow(lo, c) => Held(lo, Len(lo), c) \/ Has(f, c) \/ WaitsIn(f, c)
  PROVE  TopOK(g) /\ LowerPending(lo, g) /\ TopPending(lo, g) /\ \A d : ~WaitsIn(g, d)
<1>1. g \in Frames /\ Len(g.params) = Len(f.params) /\ g.pending = <<>> /\ Len(g.pending) = 0
  BY DEF Assigned
<1>2. TopOK(g)
  BY <1>1, Constants DEF TopOK
<1>3. TopPending(lo, g) /\ \A d : ~WaitsIn(g, d)
  BY <1>1 DEF TopPending, WaitsIn
<1>4. LowerPending(lo, g)
  <2> SUFFICES ASSUME NEW k \in 1..Len(lo), NEW i \in 1..Len(lo[k].pending), NEW d,
                      d = lo[k].pending[i], ~Held(lo, k, d)
               PROVE  /\ ~Held(lo, Len(lo), d) /\ ~Has(g, d)
                      /\ \A l \in 1..Len(lo) : \A j \in 1..Len(lo[l].pending) :
                           lo[l].pending[j] = d => l = k /\ j = i
    BY <1>3 DEF LowerPending
  <2>1. /\ ~Held(lo, Len(lo), d) /\ ~Has(f, d) /\ ~WaitsIn(f, d)
        /\ \A l \in 1..Len(lo) : \A j \in 1..Len(lo[l].pending) :
             lo[l].pending[j] = d => l = k /\ j = i
    BY DEF LowerPending
  <2>2. WaitsBelow(lo, d)
    BY DEF WaitsBelow, WaitsIn
  <2>3. d # c
    BY <2>1, <2>2
  <2>4. d \in Cells
    <3>1. lo[k] \in Frames
      BY DEF LowerOK
    <3> QED BY <3>1 DEF Frames
  <2>5. ~Has(g, d)
    BY <2>1, <2>3, <2>4, AssignedHas
  <2> QED BY <2>1, <2>5
<1> QED BY <1>2, <1>3, <1>4

\* Of the store s, the cell d is new in t, and of this size.
Taken(s, t, d, size) ==
  /\ t \in Stores /\ size \in Sizes /\ d \in Cells
  /\ t.ref = [s.ref EXCEPT ![d] = 1] /\ t.alloc = [s.alloc EXCEPT ![d] = size]
  /\ \/ s.alloc[d] = 0 /\ t.cache = s.cache
     \/ /\ s.cache[size] # <<>> /\ d = Head(s.cache[size])
        /\ t.cache = [s.cache EXCEPT ![size] = Tail(@)]

LEMMA TakenOK ==
  ASSUME NEW s, NEW h, NEW w, StoreOK(s, h, w), NEW t, NEW d, NEW size, Taken(s, t, d, size)
  PROVE  h[d] = 0 /\ d \notin w /\ StoreOK(t, [h EXCEPT ![d] = 1], w)
<1> DEFINE g == [h EXCEPT ![d] = 1]
<1>1. /\ s \in Stores /\ h \in [Cells -> Nat] /\ w \subseteq Cells
      /\ t \in Stores /\ size \in Sizes /\ d \in Cells
      /\ pzeroCell \in Cells /\ Sizes \subseteq Nat \ {0} /\ RefLimit \in Nat
  BY Constants DEF StoreOK, Taken
<1>2. \A z \in Sizes : /\ s.cache[z] \in Seq(Cells)
                       /\ Len(s.cache[z]) \in Nat
                       /\ \A i \in 1..Len(s.cache[z]) : s.cache[z][i] \in Cells
                       /\ Len(s.cache[z]) <= CacheLimit
                       /\ z >= CacheSize => s.cache[z] = <<>>
                       /\ \A i, j \in 1..Len(s.cache[z]) :
                            s.cache[z][i] = s.cache[z][j] => i = j
                       /\ \A i \in 1..Len(s.cache[z]) : s.alloc[s.cache[z][i]] = z
  BY <1>1, InCache DEF StoreOK, CacheOK
<1>3. \A x : x \in CachedIn(s) <=>
              \E z \in Sizes : \E i \in 1..Len(s.cache[z]) : s.cache[z][i] = x
  BY <1>1, InCache
<1>4. \A x : x \in CachedIn(t) <=>
              \E z \in Sizes : \E i \in 1..Len(t.cache[z]) : t.cache[z][i] = x
  BY <1>1, InCache
<1>5. ~AliveIn(s, d)
  <2>1. CASE s.alloc[d] = 0
    BY <2>1 DEF AliveIn
  <2>2. CASE s.cache[size] # <<>> /\ d = Head(s.cache[size])
    <3>1. 1 \in 1..Len(s.cache[size]) /\ s.cache[size][1] = d
      <4>1. s.cache[size] \in Seq(Cells) /\ s.cache[size] # <<>>
        BY <1>1, <1>2, <2>2
      <4>2. Len(s.cache[size]) # 0
        BY <4>1, EmptySeq
      <4> QED BY <1>1, <1>2, <2>2, <4>1, <4>2
    <3> QED BY <1>1, <1>3, <3>1 DEF AliveIn
  <2> QED BY <2>1, <2>2 DEF Taken
<1>6. h[d] = 0 /\ d \notin w /\ d # pzeroCell
  <2>1. h[d] \in Nat
    BY <1>1
  <2>2. h[d] = 0 /\ d \notin w
    BY <1>1, <1>5, <2>1 DEF StoreOK
  <2> QED BY <2>2 DEF StoreOK
<1>7. /\ t.ref[d] = 1 /\ t.alloc[d] = size
      /\ \A x \in Cells \ {d} : t.ref[x] = s.ref[x] /\ t.alloc[x] = s.alloc[x]
  BY <1>1 DEF Stores, Taken
\* The lists of t: those of s without d.
<1>8. \A z \in Sizes :
        /\ Len(t.cache[z]) <= CacheLimit
        /\ z >= CacheSize => t.cache[z] = <<>>
        /\ \A i, j \in 1..Len(t.cache[z]) : t.cache[z][i] = t.cache[z][j] => i = j
        /\ \A i \in 1..Len(t.cache[z]) :
             t.cache[z][i] # d /\ \E j \in 1..Len(s.cache[z]) : s.cache[z][j] = t.cache[z][i]
        /\ \A i \in 1..Len(s.cache[z]) :
             s.cache[z][i] # d => \E j \in 1..Len(t.cache[z]) : t.cache[z][j] = s.cache[z][i]
  <2>1. CASE s.alloc[d] = 0 /\ t.cache = s.cache
    <3>1. \A z \in Sizes : \A i \in 1..Len(s.cache[z]) : s.cache[z][i] # d
      BY <1>1, <1>2, <2>1
    <3> QED BY <1>2, <2>1, <3>1
  <2>2. CASE /\ s.cache[size] # <<>> /\ d = Head(s.cache[size])
             /\ t.cache = [s.cache EXCEPT ![size] = Tail(@)]
    <3> SUFFICES ASSUME NEW z \in Sizes
                 PROVE  /\ Len(t.cache[z]) <= CacheLimit
                        /\ z >= CacheSize => t.cache[z] = <<>>
                        /\ \A i, j \in 1..Len(t.cache[z]) : t.cache[z][i] = t.cache[z][j] => i = j
                        /\ \A i \in 1..Len(t.cache[z]) :
                             /\ t.cache[z][i] # d
                             /\ \E j \in 1..Len(s.cache[z]) : s.cache[z][j] = t.cache[z][i]
                        /\ \A i \in 1..Len(s.cache[z]) : s.cache[z][i] # d =>
                             \E j \in 1..Len(t.cache[z]) : t.cache[z][j] = s.cache[z][i]
      OBVIOUS
    <3>0. \A y \in Sizes : s.cache[y] \in Seq(Cells)
      BY <1>2
    <3>1. CASE z # size
      <4>1. t.cache[z] = s.cache[z]
        BY <1>1, <2>2, <3>1 DEF Stores
      <4>2. \A i \in 1..Len(s.cache[z]) : s.cache[z][i] # d
        <5>1. PICK j \in 1..Len(s.cache[size]) : s.cache[size][j] = d
          <6>1. s.cache[size] \in Seq(Cells) /\ s.cache[size] # <<>>
            BY <1>1, <1>2, <2>2
          <6>2. Len(s.cache[size]) # 0
            BY <6>1, EmptySeq
          <6>3. 1 \in 1..Len(s.cache[size]) /\ s.cache[size][1] = d
            BY <1>1, <1>2, <2>2, <6>1, <6>2
          <6> QED BY <6>3
        <5>2. s.alloc[d] = size
          BY <1>1, <1>2, <5>1
        <5> QED BY <1>2, <3>1, <5>2
      <4> QED BY <1>2, <4>1, <4>2
    <3>2. CASE z = size
      <4> DEFINE a == s.cache[z]
                 e == t.cache[z]
      <4>1. e = Tail(a) /\ a # <<>> /\ d = Head(a) /\ a \in Seq(Cells)
        BY <1>1, <1>2, <2>2, <3>2 DEF Stores
      <4>2. /\ Len(a) \in Nat /\ Len(a) <= CacheLimit /\ ~(z >= CacheSize)
            /\ \A i, j \in 1..Len(a) : a[i] = a[j] => i = j
        BY <1>2, <4>1
      <4>0. CacheLimit \in Nat
        BY Constants
      <4> HIDE DEF a, e
      <4>3. /\ Len(a) # 0 /\ Len(e) = Len(a) - 1 /\ d = a[1]
            /\ \A i \in 1..Len(e) : e[i] = a[i + 1]
        <5>1. Len(a) # 0
          BY <4>1, EmptySeq
        <5> QED BY <4>1, <4>2, <5>1
      <4>4. \A i \in 1..Len(e) : i + 1 \in 1..Len(a) /\ i + 1 # 1
        BY <4>2, <4>3
      <4>5. \A i \in 1..Len(a) : i # 1 => i - 1 \in 1..Len(e) /\ (i - 1) + 1 = i
        BY <4>2, <4>3
      <4>6. Len(e) <= CacheLimit
        BY <4>0, <4>2, <4>3
      <4>7. \A i, j \in 1..Len(e) : e[i] = e[j] => i = j
        <5> SUFFICES ASSUME NEW i \in 1..Len(e), NEW j \in 1..Len(e), e[i] = e[j] PROVE i = j
          OBVIOUS
        <5>1. i + 1 = j + 1
          BY <4>2, <4>3, <4>4
        <5> QED BY <5>1
      <4>8. \A i \in 1..Len(e) : e[i] # d /\ \E j \in 1..Len(a) : a[j] = e[i]
        <5> SUFFICES ASSUME NEW i \in 1..Len(e)
                     PROVE  e[i] # d /\ \E j \in 1..Len(a) : a[j] = e[i]
          OBVIOUS
        <5>1. i + 1 \in 1..Len(a) /\ a[i + 1] = e[i] /\ i + 1 # 1
          BY <4>3, <4>4
        <5>2. 1 \in 1..Len(a)
          BY <4>2, <4>3
        <5> QED BY <4>2, <4>3, <5>1, <5>2
      <4>9. \A i \in 1..Len(a) : a[i] # d => \E j \in 1..Len(e) : e[j] = a[i]
        <5> SUFFICES ASSUME NEW i \in 1..Len(a), a[i] # d PROVE \E j \in 1..Len(e) : e[j] = a[i]
          OBVIOUS
        <5>1. i - 1 \in 1..Len(e) /\ (i - 1) + 1 = i
          BY <4>3, <4>5
        <5>2. e[i - 1] = a[i]
          BY <4>3, <5>1
        <5> QED BY <5>1, <5>2
      <4> QED BY <4>2, <4>6, <4>7, <4>8, <4>9 DEF a, e
    <3> QED BY <3>1, <3>2
  <2> QED BY <2>1, <2>2 DEF Taken
<1>9. d \notin CachedIn(t) /\ \A x \in Cells \ {d} : x \in CachedIn(t) <=> x \in CachedIn(s)
  BY <1>3, <1>4, <1>8
<1>10. AliveIn(t, d) /\ \A x \in Cells \ {d} : AliveIn(t, x) <=> AliveIn(s, x)
  BY <1>1, <1>7, <1>9 DEF AliveIn
<1>11. CacheOK(t)
  <2>1. \A z \in Sizes : \A i \in 1..Len(t.cache[z]) : t.alloc[t.cache[z][i]] = z
    <3> SUFFICES ASSUME NEW z \in Sizes, NEW i \in 1..Len(t.cache[z])
                 PROVE  t.alloc[t.cache[z][i]] = z
      OBVIOUS
    <3>1. PICK j \in 1..Len(s.cache[z]) : s.cache[z][j] = t.cache[z][i] /\ t.cache[z][i] # d
      BY <1>8
    <3> QED BY <1>2, <1>7, <3>1
  <2> QED BY <1>8, <2>1 DEF CacheOK
<1>12. g \in [Cells -> Nat] /\ g[d] = 1 /\ \A x \in Cells \ {d} : g[x] = h[x]
  BY <1>1
<1> HIDE DEF g
<1>13. t.alloc[pzeroCell] = 1 /\ \A c \in Cells \ {pzeroCell} : t.alloc[c] \in Sizes \cup {0}
  BY <1>1, <1>6, <1>7 DEF StoreOK
<1>14. \A c \in Cells : AliveIn(t, c) => t.ref[c] = g[c] /\ (g[c] = 0 => c \in w)
  BY <1>7, <1>10, <1>12 DEF StoreOK
<1>15. \A c \in Cells : g[c] > 0 \/ c \in w => AliveIn(t, c)
  BY <1>10, <1>12 DEF StoreOK
<1>16. g[pzeroCell] > 0
  BY <1>1, <1>6, <1>12 DEF StoreOK
<1>17. StoreOK(t, g, w)
  BY <1>1, <1>11, <1>12, <1>13, <1>14, <1>15, <1>16 DEF StoreOK
<1> QED BY <1>6, <1>17 DEF g

\* A variable takes a new cell.
LEMMA AllocOK ==
  ASSUME NEW s, NEW lo, NEW f, Sound(s, lo, f), f.pending = <<>>,
         NEW t, NEW d, NEW size, Taken(s, t, d, size),
         NEW g, Assigned(f, g, d, pUndef, <<>>)
  PROVE  Sound(t, lo, g)
<1> DEFINE h == CountsOf(Append(lo, f))
           w == Waits(Append(lo, f))
           z == [h EXCEPT ![d] = 1]
<1>1. /\ LowerOK(lo) /\ TopOK(f) /\ LowerPending(lo, f) /\ StoreOK(s, h, w)
      /\ lo \in Seq(Frames) /\ f \in Frames /\ d \in Cells
  BY DEF Sound, LowerOK, TopOK, Taken
<1>2. h[d] = 0 /\ d \notin w /\ StoreOK(t, z, w)
  <2> HIDE DEF h, w
  <2> QED BY <1>1, TakenOK
<1>3. h \in [Cells -> Nat]
  BY <1>1 DEF StoreOK
<1>4. \A c \in Cells : /\ HoldersIn(lo, c) \in Nat
                       /\ Occurs(f.locals, c) \in Nat /\ Occurs(f.params, c) \in Nat
                       /\ h[c] = HoldersIn(lo, c) + Occurs(f.locals, c) + Occurs(f.params, c)
  BY SoundFacts
<1>5. \A c \in Cells : c \in w <=> WaitsBelow(lo, c)
  <2>1. \A c : ~WaitsIn(f, c)
    BY DEF WaitsIn
  <2> QED BY <1>1, <2>1, AppendFrame
<1>6. TopOK(g) /\ LowerPending(lo, g) /\ TopPending(lo, g) /\ \A c : ~WaitsIn(g, c)
  BY <1>1, <1>2, <1>5, AssignedFrames
<1> HIDE DEF h, w
<1>7. ASSUME NEW c \in Cells
      PROVE  z[c] = HoldersIn(lo, c) + Occurs(g.locals, c) + Occurs(g.params, c)
  <2> DEFINE x == Occurs(g.locals, c)
             y == Occurs(g.params, c)
             u == Occurs(f.locals, c)
             v == Occurs(f.params, c)
             a == HoldersIn(lo, c)
  <2>1. /\ x \in Nat /\ y \in Nat /\ u \in Nat /\ v \in Nat /\ a \in Nat /\ h[c] = a + u + v
        /\ x + y + Bit(pUndef = c) = u + v + Bit(d = c)
    BY <1>4 DEF Assigned
  <2>2. Bit(pUndef = c) = 0 /\ Bit(d = c) = IF d = c THEN 1 ELSE 0
    BY Constants DEF Bit
  <2>3. z[c] = IF d = c THEN 1 ELSE h[c]
    BY <1>3
  <2>4. d = c => h[c] = 0
    BY <1>2
  <2> HIDE DEF x, y, u, v, a, z
  <2>5. z[c] = a + x + y
    BY <2>1, <2>2, <2>3, <2>4
  <2> QED BY <2>5 DEF x, y, a
<1>8. \A c \in Cells : (c \in w <=> WaitsBelow(lo, c) \/ WaitsIn(g, c)) \/ z[c] > 0
  BY <1>5, <1>6
<1> HIDE DEF z
<1> QED BY <1>1, <1>2, <1>6, <1>7, <1>8, ToSound

\* A variable or a parameter is set to c, which is there already, or comes as
\* the only argument evaluated.
LEMMA SetOK ==
  ASSUME NEW s, NEW lo, NEW f, Sound(s, lo, f),
         NEW g, NEW c, NEW old, Assigned(f, g, c, old, <<>>),
         \/ f.pending = <<>> /\ Has(f, c)
         \/ Len(f.pending) = 1 /\ f.pending[1] = c,
         old # pUndef => Has(f, old)
  PROVE  Sound(Set(s, c, old), lo, g)
<1> DEFINE h == CountsOf(Append(lo, f))
           w == Waits(Append(lo, f))
           v == {d \in Cells : WaitsBelow(lo, d)}
           y == [h EXCEPT ![c] = @ + 1]
           H(d) == HoldersIn(lo, d)
           F(d) == Occurs(f.locals, d) + Occurs(f.params, d)
           G(d) == Occurs(g.locals, d) + Occurs(g.params, d)
<1>1. /\ LowerOK(lo) /\ TopOK(f) /\ LowerPending(lo, f) /\ StoreOK(s, h, w)
      /\ lo \in Seq(Frames) /\ f \in Frames /\ c \in Cells /\ old \in Cells \cup {pUndef}
  BY DEF Sound, LowerOK, TopOK, Assigned
<1>2. h \in [Cells -> Nat] /\ w \subseteq Cells
  BY <1>1 DEF StoreOK
<1>3. \A d \in Cells : /\ H(d) \in Nat /\ F(d) \in Nat /\ G(d) \in Nat
                       /\ h[d] = H(d) + F(d) /\ h[d] + 1 < RefLimit
                       /\ G(d) + Bit(old = d) = F(d) + Bit(c = d)
                       /\ Has(f, d) <=> F(d) > 0
                       /\ WaitsBelow(lo, d) /\ Has(f, d) => H(d) > 0
  <2> SUFFICES ASSUME NEW d \in Cells
               PROVE  /\ H(d) \in Nat /\ F(d) \in Nat /\ G(d) \in Nat
                      /\ h[d] = H(d) + F(d) /\ h[d] + 1 < RefLimit
                      /\ G(d) + Bit(old = d) = F(d) + Bit(c = d)
                      /\ Has(f, d) <=> F(d) > 0
                      /\ WaitsBelow(lo, d) /\ Has(f, d) => H(d) > 0
    OBVIOUS
  <2> DEFINE l == Occurs(f.locals, d)
             p == Occurs(f.params, d)
             l1 == Occurs(g.locals, d)
             p1 == Occurs(g.params, d)
             a == HoldersIn(lo, d)
  <2>1. /\ a \in Nat /\ l \in Nat /\ p \in Nat /\ h[d] = a + l + p /\ h[d] + 1 < RefLimit
        /\ WaitsBelow(lo, d) /\ Has(f, d) => a > 0
    BY SoundFacts
  <2>2. /\ l1 \in Nat /\ p1 \in Nat
        /\ l1 + p1 + Bit(old = d) = l + p + Bit(c = d)
        /\ Has(f, d) <=> l + p > 0
    BY DEF Assigned
  <2> HIDE DEF l, p, l1, p1, a, h
  <2>3. a + l + p = a + (l + p)
    BY <2>1
  <2> QED BY <2>1, <2>2, <2>3 DEF a, l, p, l1, p1
<1>4. H(pzeroCell) > 0 /\ pzeroCell \in Cells /\ pUndef \notin Cells
  BY SoundFacts, Constants
<1>5. \A d : WaitsIn(f, d) => d = c
  BY DEF WaitsIn
<1>6. \A d \in Cells : d \in w <=> WaitsBelow(lo, d) \/ WaitsIn(f, d)
  BY <1>1, AppendFrame
<1>7. Has(f, c) \/ WaitsIn(f, c)
  BY DEF WaitsIn
<1>8. TopOK(g) /\ LowerPending(lo, g) /\ TopPending(lo, g) /\ \A d : ~WaitsIn(g, d)
  BY <1>1, <1>7, AssignedFrames
<1> HIDE DEF h, w, H, F, G
<1>9. StoreOK(Up(s, c), y, w)
  <2>1. h[c] > 0 \/ c \in w
    BY <1>1, <1>3, <1>6, <1>7
  <2>2. h[c] + 1 < RefLimit
    BY <1>1, <1>3
  <2> QED BY <1>1, <2>1, <2>2, UpOK
<1>10. \A d \in Cells : y[d] = H(d) + F(d) + Bit(c = d)
  <2> SUFFICES ASSUME NEW d \in Cells PROVE y[d] = H(d) + F(d) + Bit(c = d)
    OBVIOUS
  <2>1. y[d] = IF d = c THEN h[d] + 1 ELSE h[d]
    BY <1>2
  <2>2. H(d) \in Nat /\ F(d) \in Nat /\ h[d] = H(d) + F(d)
    BY <1>3
  <2> HIDE DEF y
  <2>3. CASE d = c
    BY <2>1, <2>2, <2>3 DEF Bit
  <2>4. CASE d # c
    BY <2>1, <2>2, <2>4 DEF Bit
  <2> QED BY <2>3, <2>4
<1>11. StoreOK(Up(s, c), y, v)
  <2>1. v \subseteq Cells /\ v \ w = {}
    BY <1>6
  <2>2. \A d \in w \ v : d = c
    BY <1>2, <1>5, <1>6
  <2>3. y[c] > 0
    <3>1. Bit(c = c) = 1 /\ H(c) \in Nat /\ F(c) \in Nat
      BY <1>1, <1>3 DEF Bit
    <3> QED BY <1>1, <1>10, <3>1
  <2>4. (\A d \in v \ w : y[d] > 0) /\ (\A d \in w \ v : y[d] > 0)
    BY <2>1, <2>2, <2>3
  <2> HIDE DEF v, y
  <2> QED BY <1>9, <2>1, <2>4, OtherResults
<1> DEFINE z == [d \in Cells |-> H(d) + G(d)]
<1>12. StoreOK(Set(s, c, old), z, v)
  <2>1. CASE old = pUndef
    <3>1. \A d \in Cells : Bit(old = d) = 0
      BY <1>4, <2>1 DEF Bit
    <3>2. \A d \in Cells : H(d) + G(d) = H(d) + F(d) + Bit(c = d)
      <4> SUFFICES ASSUME NEW d \in Cells PROVE H(d) + G(d) = H(d) + F(d) + Bit(c = d)
        OBVIOUS
      <4>1. Bit(c = d) \in Nat
        BY DEF Bit
      <4> QED BY <1>3, <3>1, <4>1
    <3>3. y \in [Cells -> Nat]
      BY <1>9 DEF StoreOK
    <3> HIDE DEF y
    <3>4. z = y
      BY <1>10, <3>2, <3>3
    <3>5. Set(s, c, old) = Up(s, c)
      BY <2>1 DEF Set, pdestroy
    <3> QED BY <1>11, <3>4, <3>5
  <2>2. CASE old \in Cells
    <3>1. F(old) > 0 /\ Has(f, old) /\ F(old) \in Nat /\ H(old) \in Nat
      BY <1>3, <1>4, <2>2
    <3>2. y[old] = H(old) + F(old) + Bit(c = old) /\ Bit(c = old) \in Nat
      BY <1>10, <2>2 DEF Bit
    <3>3. y[old] > 0
      BY <3>1, <3>2
    <3>4. old = pzeroCell => y[old] > 1
      BY <1>4, <3>1, <3>2
    <3>5. y[old] = 1 => old \notin v
      <4>1. WaitsBelow(lo, old) => H(old) > 0
        BY <1>3, <2>2, <3>1
      <4> QED BY <3>1, <3>2, <4>1
    <3>6. StoreOK(pdestroy(Up(s, c), old), [y EXCEPT ![old] = @ - 1], v)
      <4> HIDE DEF y, v
      <4> QED BY <1>11, <2>2, <3>3, <3>4, <3>5, DestroyOK
    <3>7. y \in [Cells -> Nat]
      BY <1>9 DEF StoreOK
    <3> HIDE DEF y
    <3>8. \A d \in Cells : H(d) + G(d) = IF d = old THEN y[d] - 1 ELSE y[d]
      <4> SUFFICES ASSUME NEW d \in Cells
                   PROVE  H(d) + G(d) = IF d = old THEN y[d] - 1 ELSE y[d]
        OBVIOUS
      <4>1. /\ H(d) \in Nat /\ F(d) \in Nat /\ G(d) \in Nat /\ Bit(c = d) \in Nat
            /\ G(d) + Bit(old = d) = F(d) + Bit(c = d) /\ y[d] = H(d) + F(d) + Bit(c = d)
        BY <1>3, <1>10 DEF Bit
      <4>2. Bit(old = d) = IF d = old THEN 1 ELSE 0
        BY DEF Bit
      <4> QED BY <4>1, <4>2
    <3>9. z = [y EXCEPT ![old] = @ - 1]
      BY <2>2, <3>7, <3>8
    <3> QED BY <3>6, <3>9 DEF Set
  <2> QED BY <1>1, <2>1, <2>2
<1>13. \A d \in Cells : z[d] = HoldersIn(lo, d) + Occurs(g.locals, d) + Occurs(g.params, d)
  <2> SUFFICES ASSUME NEW d \in Cells
               PROVE  H(d) + G(d) = HoldersIn(lo, d) + Occurs(g.locals, d) + Occurs(g.params, d)
    OBVIOUS
  <2>1. /\ HoldersIn(lo, d) \in Nat
        /\ Occurs(g.locals, d) \in Nat /\ Occurs(g.params, d) \in Nat
    BY SoundFacts DEF Assigned
  <2> QED BY <2>1 DEF H, G
<1>14. \A d \in Cells : (d \in v <=> WaitsBelow(lo, d) \/ WaitsIn(g, d)) \/ z[d] > 0
  BY <1>8
<1> HIDE DEF z, v
<1> QED BY <1>1, <1>8, <1>12, <1>13, <1>14, ToSound

\* The frame below is the last one again.
LEMMA LowerSplit ==
  ASSUME NEW lw \in Seq(Frames), NEW e \in Frames, NEW f,
         LowerOK(Append(lw, e)), LowerPending(Append(lw, e), f)
  PROVE  /\ LowerOK(lw) /\ TopOK(e) /\ LowerPending(lw, e) /\ TopPending(lw, e)
         /\ Len(e.pending) < MaxPending
<1> DEFINE lo == Append(lw, e)
           n == Len(lw)
<1>1. /\ n \in Nat /\ Len(lo) = n + 1 /\ lo \in Seq(Frames) /\ lo[n + 1] = e
      /\ FramesOK(lo) <=> LowerOK(lw) /\ TopOK(e)
      /\ PendingOK(lo) <=> LowerPending(lw, e) /\ TopPending(lw, e)
  BY AppendFrame, PendingSplit
<1>2. LowerOK(lo) /\ LowerPending(lo, f)
  OBVIOUS
<1> HIDE DEF lo, n
<1>3. PendingOK(lo)
  BY <1>2 DEF PendingOK, LowerPending
<1>4. FramesOK(lo)
  <2>1. n + 1 \in 1..MaxCalls + 1
    BY <1>1, <1>2, Constants DEF LowerOK
  <2> SUFFICES ASSUME NEW k \in 1..Len(lo)
               PROVE  Len(lo[k].params) <= MaxPending /\ Len(lo[k].pending) < MaxPending
                      /\ Len(lo[k].pending) <= MaxPending
    BY <1>1, <1>2, <2>1 DEF FramesOK
  <2>2. Len(lo[k].params) <= MaxPending /\ Len(lo[k].pending) < MaxPending
    BY <1>2 DEF LowerOK
  <2>3. Len(lo[k].pending) \in Nat
    <3>1. lo[k] \in Frames
      BY <1>1
    <3> QED BY <3>1 DEF Frames
  <2> QED BY <2>2, <2>3, Constants
<1>5. Len(e.pending) < MaxPending
  <2>1. n + 1 \in 1..Len(lo)
    BY <1>1
  <2> QED BY <1>1, <1>2, <2>1 DEF LowerOK
<1> QED BY <1>1, <1>3, <1>4, <1>5

\* Destroying what the last frame has, or a part of it.
LEMMA DestroyHeld ==
  ASSUME NEW s, NEW lo, NEW f, Sound(s, lo, f), f.pending = <<>>,
         NEW seq \in Seq(Cells \cup {pUndef}),
         \A c \in Cells : Occurs(seq, c) <= Occurs(f.locals, c) + Occurs(f.params, c)
  PROVE  LET h == CountsOf(Append(lo, f))
         IN StoreOK(DestroyAll(s, seq), [c \in Cells |-> h[c] - Occurs(seq, c)],
                    Waits(Append(lo, f)))
<1> DEFINE h == CountsOf(Append(lo, f))
           w == Waits(Append(lo, f))
<1>1. StoreOK(s, h, w) /\ lo \in Seq(Frames) /\ f \in Frames
  BY DEF Sound, LowerOK, TopOK
<1>2. \A c \in Cells : c \in w <=> WaitsBelow(lo, c)
  <2>1. \A c : ~WaitsIn(f, c)
    BY DEF WaitsIn
  <2> QED BY <1>1, <2>1, AppendFrame
<1>3. ASSUME NEW c \in Cells
      PROVE  /\ Occurs(seq, c) <= h[c]
             /\ Occurs(seq, c) = h[c] /\ h[c] > 0 => c \notin w /\ c # pzeroCell
  <2> DEFINE x == Occurs(f.locals, c)
             y == Occurs(f.params, c)
             a == HoldersIn(lo, c)
             o == Occurs(seq, c)
  <2>1. /\ a \in Nat /\ x \in Nat /\ y \in Nat /\ h[c] = a + x + y
        /\ Has(f, c) <=> x > 0 \/ y > 0
        /\ WaitsBelow(lo, c) /\ Has(f, c) => a > 0
    BY SoundFacts
  <2>2. o \in Nat /\ o <= x + y
    BY OccursSome
  <2>3. c = pzeroCell => a > 0
    BY SoundFacts
  <2> HIDE DEF x, y, a, o, h, w
  <2>4. o <= h[c]
    BY <2>1, <2>2
  <2>5. ASSUME o = h[c], h[c] > 0 PROVE c \notin w /\ c # pzeroCell
    <3>1. a = 0
      BY <2>1, <2>2, <2>5
    <3>2. x > 0 \/ y > 0
      BY <2>1, <2>5, <3>1
    <3> QED BY <1>2, <2>1, <2>3, <3>1, <3>2
  <2> QED BY <2>4, <2>5 DEF o
<1>4. StoreOK(DestroyAll(s, seq), [c \in Cells |-> h[c] - Occurs(seq, c)], w)
  <2> HIDE DEF h, w
  <2> QED BY <1>1, <1>3, DestroyAllOK
<1> QED BY <1>4

LEMMA ReturnNothingOK ==
  ASSUME NEW s, NEW lw \in Seq(Frames), NEW e \in Frames, NEW f,
         Sound(s, Append(lw, e), f), f.pending = <<>>
  PROVE  Sound(DestroyAll(s, f.params \o f.locals), lw, e)
<1> DEFINE lo == Append(lw, e)
           h == CountsOf(Append(lo, f))
           w == Waits(Append(lo, f))
           seq == f.params \o f.locals
           z == [c \in Cells |-> h[c] - Occurs(seq, c)]
<1>1. /\ f \in Frames /\ lo \in Seq(Frames) /\ LowerOK(lo) /\ LowerPending(lo, f)
  BY DEF Sound, LowerOK, TopOK
<1>2. LowerOK(lw) /\ TopOK(e) /\ LowerPending(lw, e) /\ TopPending(lw, e)
  BY <1>1, LowerSplit
<1>3. /\ f.locals \in Seq(Cells \cup {pUndef}) /\ Len(f.locals) = 2
      /\ f.params \in Seq(Cells) /\ f.params \in Seq(Cells \cup {pUndef})
  BY <1>1 DEF Frames
<1>4. seq \in Seq(Cells \cup {pUndef})
  BY <1>3, ConcatProperties
<1>5. \A c : Occurs(seq, c) = Occurs(f.params, c) + Occurs(f.locals, c)
  <2> DEFINE S == Cells \cup {pUndef}
  <2>1. f.locals \in Seq(S) /\ f.params \in Seq(S) /\ Len(f.locals) = 2
    BY <1>3
  <2> HIDE DEF S
  <2> QED BY <2>1, OccursConcat
<1>6. \A c \in Cells : Occurs(f.locals, c) \in Nat /\ Occurs(f.params, c) \in Nat
  BY <1>1, FrameCounts
<1>7. StoreOK(DestroyAll(s, seq), z, w)
  <2>1. \A c \in Cells : Occurs(seq, c) <= Occurs(f.locals, c) + Occurs(f.params, c)
    BY <1>5, <1>6
  <2> HIDE DEF lo, seq
  <2> QED BY <1>4, <2>1, DestroyHeld DEF lo
<1>8. \A c \in Cells : z[c] = HoldersIn(lw, c) + Occurs(e.locals, c) + Occurs(e.params, c)
  <2> SUFFICES ASSUME NEW c \in Cells
               PROVE  z[c] = HoldersIn(lw, c) + Occurs(e.locals, c) + Occurs(e.params, c)
    OBVIOUS
  <2>1. /\ HoldersIn(lo, c) \in Nat
        /\ h[c] = HoldersIn(lo, c) + Occurs(f.locals, c) + Occurs(f.params, c)
    BY SoundFacts
  <2>2. HoldersIn(lo, c) = HoldersIn(lw, c) + Occurs(e.locals, c) + Occurs(e.params, c)
    BY <1>2, HoldersAppend DEF TopOK
  <2>3. z[c] = h[c] - Occurs(seq, c)
    OBVIOUS
  <2> HIDE DEF h, seq, lo, z
  <2>4. z[c] = HoldersIn(lo, c)
    BY <1>5, <1>6, <2>1, <2>3
  <2> QED BY <2>2, <2>4
<1>9. \A c \in Cells : c \in w <=> WaitsBelow(lw, c) \/ WaitsIn(e, c)
  <2>1. \A c \in Cells : c \in w <=> WaitsBelow(lo, c)
    <3>1. \A c : ~WaitsIn(f, c)
      BY DEF WaitsIn
    <3> HIDE DEF lo
    <3> QED BY <1>1, <3>1, AppendFrame
  <2>2. \A c : WaitsBelow(lo, c) <=> WaitsBelow(lw, c) \/ WaitsIn(e, c)
    <3>1. /\ Len(lw) \in Nat /\ Len(lo) = Len(lw) + 1
          /\ \A k \in 1..Len(lw) : lo[k] = lw[k]
          /\ lo[Len(lw) + 1] = e
      BY AppendFrame
    <3>2. \A k : k \in 1..Len(lo) <=> k \in 1..Len(lw) \/ k = Len(lw) + 1
      BY <3>1
    <3> HIDE DEF lo
    <3> QED BY <3>1, <3>2 DEF WaitsBelow
  <2> QED BY <2>1, <2>2
<1> HIDE DEF z, w, seq
<1>10. Sound(DestroyAll(s, seq), lw, e)
  BY <1>2, <1>7, <1>8, <1>9, ToSound
<1> QED BY <1>10 DEF seq

LEMMA WaitsAppend ==
  ASSUME NEW lw \in Seq(Frames), NEW e \in Frames, NEW c
  PROVE  WaitsBelow(Append(lw, e), c) <=> WaitsBelow(lw, c) \/ WaitsIn(e, c)
<1> DEFINE lo == Append(lw, e)
<1>1. /\ Len(lw) \in Nat /\ Len(lo) = Len(lw) + 1
      /\ \A k \in 1..Len(lw) : lo[k] = lw[k]
      /\ lo[Len(lw) + 1] = e
  BY AppendFrame
<1>2. \A k : k \in 1..Len(lo) <=> k \in 1..Len(lw) \/ k = Len(lw) + 1
  BY <1>1
<1> HIDE DEF lo
<1>3. WaitsBelow(lo, c) <=> WaitsBelow(lw, c) \/ WaitsIn(e, c)
  BY <1>1, <1>2 DEF WaitsBelow
<1> QED BY <1>3 DEF lo

\* The result joins the arguments of the caller, its count already lower.
LEMMA ReturnResultOK ==
  ASSUME NEW s, NEW lw \in Seq(Frames), NEW e \in Frames, NEW f,
         Sound(s, Append(lw, e), f), f.pending = <<>>,
         NEW i \in 1..2, NEW c, c = f.locals[i], c # pUndef
  PROVE  Sound(Down(DestroyAll(s, Append(f.params, f.locals[3 - i])), c),
               lw, [e EXCEPT !.pending = Append(@, c)])
<1> DEFINE lo == Append(lw, e)
           h == CountsOf(Append(lo, f))
           w == Waits(Append(lo, f))
           other == f.locals[3 - i]
           seq == Append(f.params, other)
           y == [d \in Cells |-> h[d] - Occurs(seq, d)]
           z == [y EXCEPT ![c] = @ - 1]
           g == [e EXCEPT !.pending = Append(@, c)]
           m == Len(e.pending)
<1>1. /\ f \in Frames /\ lo \in Seq(Frames) /\ LowerOK(lo) /\ LowerPending(lo, f)
  BY DEF Sound, LowerOK, TopOK
<1>2. /\ LowerOK(lw) /\ TopOK(e) /\ LowerPending(lw, e) /\ TopPending(lw, e)
      /\ m < MaxPending
  BY <1>1, LowerSplit
<1>3. /\ f.locals \in Seq(Cells \cup {pUndef}) /\ Len(f.locals) = 2
      /\ f.params \in Seq(Cells) /\ f.params \in Seq(Cells \cup {pUndef})
  BY <1>1 DEF Frames
<1>4. c \in Cells /\ other \in Cells \cup {pUndef}
  <2>1. i \in 1..Len(f.locals) /\ 3 - i \in 1..Len(f.locals)
    BY <1>3
  <2>2. f.locals[i] \in Cells \cup {pUndef} /\ f.locals[3 - i] \in Cells \cup {pUndef}
    BY <1>3, <2>1, ElementOfSeq
  <2> QED BY <2>2
<1>5. Has(f, c)
  BY DEF Has
<1>6. ASSUME NEW d
      PROVE  /\ Occurs(seq, d) = Occurs(f.params, d) + Bit(other = d)
             /\ Occurs(f.locals, d) = Bit(c = d) + Bit(other = d)
  <2>1. Occurs(seq, d) = Occurs(f.params, d) + Bit(other = d)
    <3> DEFINE S == Cells \cup {pUndef}
    <3>1. f.params \in Seq(S) /\ other \in S
      BY <1>3, <1>4
    <3> HIDE DEF S, other
    <3> QED BY <3>1, OccursAppend
  <2>2. Occurs(f.locals, d) = Bit(f.locals[1] = d) + Bit(f.locals[2] = d)
    BY <1>3, OccursPair
  <2>3. Bit(f.locals[1] = d) \in Nat /\ Bit(f.locals[2] = d) \in Nat
    BY DEF Bit
  <2>4. CASE i = 1
    <3>1. other = f.locals[2]
      BY <2>4
    <3> QED BY <2>1, <2>2, <2>4, <3>1
  <2>5. CASE i = 2
    <3>1. other = f.locals[1]
      BY <2>5
    <3>2. Occurs(f.locals, d) = Bit(f.locals[2] = d) + Bit(f.locals[1] = d)
      BY <2>2, <2>3
    <3> QED BY <2>1, <2>5, <3>1, <3>2
  <2> QED BY <2>4, <2>5
<1>7. \A d \in Cells : /\ HoldersIn(lo, d) \in Nat
                       /\ Occurs(f.locals, d) \in Nat /\ Occurs(f.params, d) \in Nat
                       /\ h[d] = HoldersIn(lo, d) + Occurs(f.locals, d) + Occurs(f.params, d)
                       /\ HoldersIn(lo, d) > 0 <=> Held(lo, Len(lo), d)
                       /\ WaitsBelow(lo, d) /\ Has(f, d) => HoldersIn(lo, d) > 0
                       /\ d = pzeroCell => HoldersIn(lo, d) > 0
  <2>1. Sound(s, lo, f)
    OBVIOUS
  <2> HIDE DEF lo
  <2> QED BY <2>1, SoundFacts
<1>8. seq \in Seq(Cells \cup {pUndef})
  <2> DEFINE S == Cells \cup {pUndef}
  <2>1. f.params \in Seq(S) /\ other \in S
    BY <1>3, <1>4
  <2> HIDE DEF S, other
  <2>2. seq \in Seq(S)
    BY <2>1, AppendProperties
  <2> QED BY <2>2 DEF S
<1>9. StoreOK(DestroyAll(s, seq), y, w)
  <2>1. \A d \in Cells : Occurs(seq, d) <= Occurs(f.locals, d) + Occurs(f.params, d)
    <3> SUFFICES ASSUME NEW d \in Cells
                 PROVE  Occurs(seq, d) <= Occurs(f.locals, d) + Occurs(f.params, d)
      OBVIOUS
    <3>1. Bit(c = d) \in Nat /\ Bit(other = d) \in Nat
      BY DEF Bit
    <3>2. Occurs(f.params, d) \in Nat
      BY <1>7
    <3> HIDE DEF seq, other
    <3> QED BY <1>6, <3>1, <3>2
  <2> HIDE DEF lo, seq
  <2> QED BY <1>8, <2>1, DestroyHeld DEF lo
<1>10. \A d \in Cells : y[d] = HoldersIn(lo, d) + Bit(c = d)
  <2> SUFFICES ASSUME NEW d \in Cells PROVE y[d] = HoldersIn(lo, d) + Bit(c = d)
    OBVIOUS
  <2>1. y[d] = h[d] - Occurs(seq, d)
    OBVIOUS
  <2>2. Bit(c = d) \in Nat /\ Bit(other = d) \in Nat
    BY DEF Bit
  <2>3. HoldersIn(lo, d) \in Nat /\ Occurs(f.params, d) \in Nat
        /\ h[d] = HoldersIn(lo, d) + Occurs(f.locals, d) + Occurs(f.params, d)
    BY <1>7
  <2> HIDE DEF y, h, seq, other, lo
  <2> QED BY <1>6, <2>1, <2>2, <2>3
<1>11. y \in [Cells -> Nat]
  BY <1>9 DEF StoreOK
<1> HIDE DEF y, h, w, seq, other, lo
<1>12. y[c] > 0 /\ (c = pzeroCell => y[c] > 1)
  <2>1. Bit(c = c) = 1 /\ HoldersIn(lo, c) \in Nat
    BY <1>4, <1>7 DEF Bit
  <2> QED BY <1>4, <1>7, <1>10, <2>1
<1>13. StoreOK(Down(DestroyAll(s, seq), c), z, w \cup {c})
  BY <1>4, <1>9, <1>12, DownOK
<1>14. \A d \in Cells : z[d] = HoldersIn(lo, d)
  <2> SUFFICES ASSUME NEW d \in Cells PROVE z[d] = HoldersIn(lo, d)
    OBVIOUS
  <2>1. z[d] = IF d = c THEN y[d] - 1 ELSE y[d]
    BY <1>4, <1>11
  <2>2. HoldersIn(lo, d) \in Nat /\ y[d] = HoldersIn(lo, d) + Bit(c = d)
    BY <1>7, <1>10
  <2>3. Bit(c = d) = IF d = c THEN 1 ELSE 0
    BY DEF Bit
  <2> HIDE DEF z
  <2> QED BY <2>1, <2>2, <2>3
\* The frames: the caller has one argument more.
<1>15. e.pending \in Seq(Cells) /\ m \in Nat
  BY DEF Frames
<1>16. /\ g \in Frames /\ g.params = e.params /\ g.locals = e.locals
       /\ g.pending = Append(e.pending, c)
  <2> DEFINE q == Append(e.pending, c)
  <2>1. q \in Seq(Cells) /\ g = [e EXCEPT !.pending = q]
    BY <1>4, <1>15, AppendProperties
  <2> HIDE DEF q, g
  <2> QED BY <2>1, NewPending DEF q
<1>17. /\ Len(g.pending) = m + 1 /\ g.pending[m + 1] = c
       /\ \A j \in 1..m : g.pending[j] = e.pending[j]
  BY <1>4, <1>15, <1>16, AppendProperties
<1> HIDE DEF g, m
<1>18. TopOK(g)
  BY <1>2, <1>15, <1>16, <1>17, Constants DEF TopOK
<1>19. /\ \A d : Has(g, d) <=> Has(e, d)
       /\ \A d : WaitsIn(g, d) <=> WaitsIn(e, d) \/ d = c
  <2>1. \A j : j \in 1..m + 1 <=> j \in 1..m \/ j = m + 1
    BY <1>15
  <2> QED BY <1>16, <1>17, <2>1 DEF Has, WaitsIn, m
\* Where the result waits already, somebody below has it.
<1>20. WaitsBelow(lw, c) \/ WaitsIn(e, c) => Held(lw, Len(lw), c) \/ Has(e, c)
  <2>1. WaitsBelow(lo, c) <=> WaitsBelow(lw, c) \/ WaitsIn(e, c)
    BY WaitsAppend DEF lo
  <2>2. Held(lo, Len(lo), c) <=> Held(lw, Len(lw), c) \/ Has(e, c)
    BY AppendFrame DEF lo
  <2> QED BY <1>4, <1>5, <1>7, <2>1, <2>2
<1>21. LowerPending(lw, g)
  <2> SUFFICES ASSUME NEW k \in 1..Len(lw), NEW j \in 1..Len(lw[k].pending), NEW d,
                      d = lw[k].pending[j], ~Held(lw, k, d)
               PROVE  ~WaitsIn(g, d)
    BY <1>2, <1>19 DEF LowerPending
  <2>1. ~Held(lw, Len(lw), d) /\ ~Has(e, d) /\ ~WaitsIn(e, d)
    BY <1>2 DEF LowerPending
  <2>2. WaitsBelow(lw, d)
    BY DEF WaitsBelow, WaitsIn
  <2> QED BY <1>19, <1>20, <2>1, <2>2
<1>22. TopPending(lw, g)
  <2> SUFFICES ASSUME NEW j \in 1..m + 1, NEW d, d = g.pending[j],
                      ~Held(lw, Len(lw), d), ~Has(e, d)
               PROVE  /\ ~WaitsBelow(lw, d)
                      /\ \A l \in 1..m + 1 : g.pending[l] = d => l = j
    BY <1>17, <1>19 DEF TopPending
  <2>1. \A l : l \in 1..m + 1 <=> l \in 1..m \/ l = m + 1
    BY <1>15
  <2>2. CASE d = c
    <3>1. ~WaitsBelow(lw, c) /\ ~WaitsIn(e, c)
      BY <1>20, <2>2
    <3>2. \A l \in 1..m : g.pending[l] # c
      BY <1>17, <3>1 DEF WaitsIn, m
    <3> QED BY <2>1, <2>2, <3>1, <3>2
  <2>3. CASE d # c
    <3>1. j \in 1..m /\ e.pending[j] = d
      BY <1>17, <2>1, <2>3
    <3>2. ~WaitsBelow(lw, d) /\ \A l \in 1..m : e.pending[l] = d => l = j
      BY <1>2, <3>1 DEF TopPending, m
    <3> QED BY <1>17, <2>1, <2>3, <3>2
  <2> QED BY <2>2, <2>3
<1>23. \A d \in Cells : z[d] = HoldersIn(lw, d) + Occurs(g.locals, d) + Occurs(g.params, d)
  <2>1. \A d : HoldersIn(lo, d) = HoldersIn(lw, d) + Occurs(e.locals, d) + Occurs(e.params, d)
    BY <1>2, HoldersAppend DEF TopOK, lo
  <2> QED BY <1>14, <1>16, <2>1
<1>24. \A d \in Cells : d \in w \cup {c} <=> WaitsBelow(lw, d) \/ WaitsIn(g, d)
  <2>1. \A d \in Cells : d \in w <=> WaitsBelow(lo, d)
    <3>1. \A d : ~WaitsIn(f, d)
      BY DEF WaitsIn
    <3> QED BY <1>1, <3>1, AppendFrame DEF w
  <2>2. \A d : WaitsBelow(lo, d) <=> WaitsBelow(lw, d) \/ WaitsIn(e, d)
    BY WaitsAppend DEF lo
  <2> QED BY <1>19, <2>1, <2>2
<1> HIDE DEF z
<1>25. Sound(Down(DestroyAll(s, seq), c), lw, g)
  BY <1>2, <1>13, <1>18, <1>21, <1>22, <1>23, <1>24, ToSound
<1> QED BY <1>25 DEF seq, other, g

\* What waits below the caller, and the caller or the function has, is held
\* below the caller.
LEMMA WaitsLower ==
  ASSUME NEW lw \in Seq(Frames), NEW e \in Frames, NEW f,
         LowerOK(Append(lw, e)), LowerPending(Append(lw, e), f),
         NEW d, WaitsBelow(lw, d), Has(f, d) \/ Has(e, d)
  PROVE  Held(lw, Len(lw), d)
<1>1. /\ Len(lw) \in Nat /\ Len(Append(lw, e)) = Len(lw) + 1
      /\ \A k \in 1..Len(lw) : Append(lw, e)[k] = lw[k]
      /\ \A k \in 1..Len(lw) : \A c : Held(Append(lw, e), k, c) <=> Held(lw, k, c)
      /\ \A c : Held(Append(lw, e), Len(lw) + 1, c) <=> Held(lw, Len(lw), c) \/ Has(e, c)
  BY AppendFrame
<1> DEFINE lo == Append(lw, e)
<1> HIDE DEF lo
<1>2. PICK k \in 1..Len(lw) : WaitsIn(lw[k], d)
  BY DEF WaitsBelow
<1>3. PICK i \in 1..Len(lw[k].pending) : lw[k].pending[i] = d
  BY <1>2 DEF WaitsIn
<1>4. k \in 1..Len(lo) /\ lo[k] = lw[k]
  BY <1>1 DEF lo
<1>5. LowerPending(lo, f)
  BY DEF lo
<1>6. Held(lo, k, d) \/ (~Held(lo, Len(lo), d) /\ ~Has(f, d))
  BY <1>3, <1>4, <1>5 DEF LowerPending
<1>7. Held(lo, k, d)
  BY <1>1, <1>6 DEF lo
<1>8. Held(lw, k, d)
  BY <1>1, <1>7 DEF lo
<1> QED BY <1>1, <1>8 DEF Held

\* A variable of the caller is set to c; old was there, and g is the caller
\* then.
LEMMA ReturnIntoOK ==
  ASSUME NEW s, NEW lw \in Seq(Frames), NEW e \in Frames, NEW f,
         Sound(s, Append(lw, e), f), f.pending = <<>>, e.pending = <<>>,
         NEW i \in 1..2, NEW c, c = f.locals[i],
         NEW g, NEW old, Assigned(e, g, c, old, <<>>), old # pUndef => Has(e, old)
  PROVE  Sound(DestroyAll(Set(DestroyAll(s, f.params), c, old), f.locals), lw, g)
<1> DEFINE lo == Append(lw, e)
           h == CountsOf(Append(lo, f))
           w == Waits(Append(lo, f))
           W(d) == HoldersIn(lw, d)
           E(d) == Occurs(e.locals, d) + Occurs(e.params, d)
           G(d) == Occurs(g.locals, d) + Occurs(g.params, d)
           O(d) == Occurs(f.locals, d)
<1>1. /\ f \in Frames /\ lo \in Seq(Frames) /\ LowerOK(lo) /\ LowerPending(lo, f)
      /\ Sound(s, lo, f)
  BY DEF Sound, LowerOK, TopOK
<1>2. LowerOK(lw) /\ TopOK(e) /\ LowerPending(lw, e) /\ TopPending(lw, e)
  BY <1>1, LowerSplit
<1>3. /\ f.locals \in Seq(Cells \cup {pUndef}) /\ Len(f.locals) = 2
      /\ f.params \in Seq(Cells) /\ f.params \in Seq(Cells \cup {pUndef})
  BY <1>1 DEF Frames
<1>4. c \in Cells /\ old \in Cells \cup {pUndef} /\ pUndef \notin Cells /\ pzeroCell \in Cells
  BY Constants DEF Assigned
<1>5. Bounded(lw)
  BY <1>2, Constants DEF LowerOK, Bounded
<1>6. \A d \in Cells : /\ W(d) \in Nat /\ E(d) \in Nat /\ G(d) \in Nat /\ O(d) \in Nat
                       /\ W(d) > 0 <=> Held(lw, Len(lw), d)
                       /\ G(d) + Bit(old = d) = E(d) + Bit(c = d)
                       /\ Has(e, d) <=> E(d) > 0
                       /\ O(d) > 0 => Has(f, d)
                       /\ d = pzeroCell => W(d) > 0
  <2> SUFFICES ASSUME NEW d \in Cells
               PROVE  /\ W(d) \in Nat /\ E(d) \in Nat /\ G(d) \in Nat /\ O(d) \in Nat
                      /\ W(d) > 0 <=> Held(lw, Len(lw), d)
                      /\ G(d) + Bit(old = d) = E(d) + Bit(c = d)
                      /\ Has(e, d) <=> E(d) > 0
                      /\ O(d) > 0 => Has(f, d)
                      /\ d = pzeroCell => W(d) > 0
    OBVIOUS
  <2>1. W(d) \in Nat /\ (W(d) > 0 <=> Held(lw, Len(lw), d)) /\ (d = pzeroCell => W(d) > 0)
    BY <1>5, HoldersBound DEF Held
  <2>2. /\ E(d) \in Nat /\ G(d) \in Nat
        /\ G(d) + Bit(old = d) = E(d) + Bit(c = d)
        /\ Has(e, d) <=> E(d) > 0
    BY DEF Assigned
  <2>3. O(d) \in Nat /\ (O(d) > 0 => Has(f, d))
    <3>1. /\ Occurs(f.locals, d) \in Nat /\ Occurs(f.params, d) \in Nat
          /\ Has(f, d) <=> Occurs(f.locals, d) + Occurs(f.params, d) > 0
      BY <1>1, FrameCounts
    <3> QED BY <3>1
  <2> HIDE DEF W, E, G, O
  <2> QED BY <2>1, <2>2, <2>3
<1>7. \A d \in Cells : /\ h[d] = W(d) + E(d) + O(d) + Occurs(f.params, d)
                       /\ h[d] + 1 < RefLimit /\ Occurs(f.params, d) \in Nat
  <2> SUFFICES ASSUME NEW d \in Cells
               PROVE  /\ h[d] = W(d) + E(d) + O(d) + Occurs(f.params, d)
                      /\ h[d] + 1 < RefLimit /\ Occurs(f.params, d) \in Nat
    OBVIOUS
  <2>1. HoldersIn(lo, d) = HoldersIn(lw, d) + Occurs(e.locals, d) + Occurs(e.params, d)
        /\ HoldersIn(lw, d) \in Nat
    BY <1>2, HoldersAppend DEF TopOK
  <2>2. Occurs(e.locals, d) \in Nat /\ Occurs(e.params, d) \in Nat
    BY FrameCounts
  <2>3. /\ h[d] = HoldersIn(lo, d) + Occurs(f.locals, d) + Occurs(f.params, d)
        /\ h[d] + 1 < RefLimit /\ Occurs(f.params, d) \in Nat /\ Occurs(f.locals, d) \in Nat
    <3> HIDE DEF lo
    <3> QED BY <1>1, SoundFacts
  <2>4. HoldersIn(lo, d) = W(d) + E(d)
    <3> HIDE DEF lo
    <3> QED BY <2>1, <2>2
  <2> QED BY <2>3, <2>4
<1>8. \A d \in Cells : d \in w <=> WaitsBelow(lw, d)
  <2>1. \A d : ~WaitsIn(f, d) /\ ~WaitsIn(e, d)
    BY DEF WaitsIn
  <2>2. \A d : WaitsBelow(lo, d) <=> WaitsBelow(lw, d) \/ WaitsIn(e, d)
    BY WaitsAppend
  <2> HIDE DEF lo
  <2>3. \A d \in Cells : d \in w <=> WaitsBelow(lo, d) \/ WaitsIn(f, d)
    BY <1>1, AppendFrame
  <2> QED BY <2>1, <2>2, <2>3
<1>9. \A d \in Cells : WaitsBelow(lw, d) /\ (Has(f, d) \/ Has(e, d)) => W(d) > 0
  <2>1. \A d : WaitsBelow(lw, d) /\ (Has(f, d) \/ Has(e, d)) => Held(lw, Len(lw), d)
    BY <1>1, WaitsLower
  <2> QED BY <1>6, <2>1
<1>10. Has(f, c)
  BY DEF Has
<1>11. TopOK(g) /\ LowerPending(lw, g) /\ TopPending(lw, g) /\ \A d : ~WaitsIn(g, d)
  <2>1. WaitsBelow(lw, c) => Held(lw, Len(lw), c)
    BY <1>4, <1>6, <1>9, <1>10
  <2> QED BY <1>2, <2>1, AssignedFrames
\* The parameters are destroyed.
<1> DEFINE r == DestroyAll(s, f.params)
           x == [d \in Cells |-> h[d] - Occurs(f.params, d)]
<1>12. StoreOK(r, x, w)
  <2>1. \A d \in Cells : Occurs(f.params, d) <= Occurs(f.locals, d) + Occurs(f.params, d)
    <3> SUFFICES ASSUME NEW d \in Cells
                 PROVE  Occurs(f.params, d) <= Occurs(f.locals, d) + Occurs(f.params, d)
      OBVIOUS
    <3>1. Occurs(f.locals, d) \in Nat /\ Occurs(f.params, d) \in Nat
      BY <1>1, FrameCounts
    <3> QED BY <3>1
  <2> HIDE DEF lo
  <2> QED BY <1>1, <1>3, <2>1, DestroyHeld
<1> HIDE DEF h, w, W, E, G, O, lo
<1>13. \A d \in Cells : x[d] = W(d) + E(d) + O(d)
  <2> SUFFICES ASSUME NEW d \in Cells PROVE x[d] = W(d) + E(d) + O(d)
    OBVIOUS
  <2>1. x[d] = h[d] - Occurs(f.params, d)
    OBVIOUS
  <2> HIDE DEF x
  <2> QED BY <1>6, <1>7, <2>1
<1>14. x \in [Cells -> Nat]
  BY <1>12 DEF StoreOK
<1> HIDE DEF x, r
\* The variable is set.
<1> DEFINE y == [x EXCEPT ![c] = @ + 1]
<1>15. StoreOK(Up(r, c), y, w)
  <2>1. O(c) > 0
    <3>1. f.locals \in Seq(Cells \cup {pUndef}) /\ \E j \in 1..Len(f.locals) : f.locals[j] = c
      BY <1>3
    <3> QED BY <3>1, OccursSome DEF O
  <2>2. /\ W(c) \in Nat /\ E(c) \in Nat /\ O(c) \in Nat /\ Occurs(f.params, c) \in Nat
        /\ h[c] = W(c) + E(c) + O(c) + Occurs(f.params, c) /\ h[c] + 1 < RefLimit
        /\ x[c] = W(c) + E(c) + O(c)
    BY <1>4, <1>6, <1>7, <1>13
  <2>3. RefLimit \in Nat
    BY Constants
  <2>4. x[c] > 0 /\ x[c] + 1 < RefLimit
    BY <2>1, <2>2, <2>3
  <2> QED BY <1>4, <1>12, <2>4, UpOK
<1>16. \A d \in Cells : y[d] = W(d) + E(d) + O(d) + Bit(c = d)
  <2> SUFFICES ASSUME NEW d \in Cells PROVE y[d] = W(d) + E(d) + O(d) + Bit(c = d)
    OBVIOUS
  <2>1. y[d] = IF d = c THEN x[d] + 1 ELSE x[d]
    BY <1>14
  <2>2. W(d) \in Nat /\ E(d) \in Nat /\ O(d) \in Nat /\ x[d] = W(d) + E(d) + O(d)
    BY <1>6, <1>13
  <2>3. Bit(c = d) = IF d = c THEN 1 ELSE 0
    BY DEF Bit
  <2> HIDE DEF y
  <2> QED BY <2>1, <2>2, <2>3
<1>17. y \in [Cells -> Nat]
  BY <1>15 DEF StoreOK
<1> HIDE DEF y
<1> DEFINE z == [d \in Cells |-> W(d) + G(d) + O(d)]
<1>18. StoreOK(Set(r, c, old), z, w)
  <2>1. CASE old = pUndef
    <3>1. \A d \in Cells : W(d) + G(d) + O(d) = y[d]
      <4> SUFFICES ASSUME NEW d \in Cells PROVE W(d) + G(d) + O(d) = y[d]
        OBVIOUS
      <4>1. Bit(old = d) = 0 /\ Bit(c = d) \in Nat
        BY <1>4, <2>1 DEF Bit
      <4> QED BY <1>6, <1>16, <4>1
    <3>2. z = y
      BY <1>17, <3>1
    <3>3. Set(r, c, old) = Up(r, c)
      BY <2>1 DEF Set, pdestroy
    <3> QED BY <1>15, <3>2, <3>3
  <2>2. CASE old \in Cells
    <3>1. /\ E(old) > 0 /\ W(old) \in Nat /\ E(old) \in Nat /\ O(old) \in Nat
          /\ Bit(c = old) \in Nat /\ y[old] = W(old) + E(old) + O(old) + Bit(c = old)
          /\ Has(e, old)
      BY <1>4, <1>6, <1>16, <2>2 DEF Bit
    <3>2. y[old] > 0
      BY <3>1
    <3>3. old = pzeroCell => y[old] > 1
      BY <1>6, <2>2, <3>1
    <3>4. y[old] = 1 => old \notin w
      <4>1. old \in w => W(old) > 0
        BY <1>8, <1>9, <2>2, <3>1
      <4> QED BY <3>1, <4>1
    <3>5. StoreOK(pdestroy(Up(r, c), old), [y EXCEPT ![old] = @ - 1], w)
      BY <1>15, <2>2, <3>2, <3>3, <3>4, DestroyOK
    <3>6. \A d \in Cells : W(d) + G(d) + O(d) = IF d = old THEN y[d] - 1 ELSE y[d]
      <4> SUFFICES ASSUME NEW d \in Cells
                   PROVE  W(d) + G(d) + O(d) = IF d = old THEN y[d] - 1 ELSE y[d]
        OBVIOUS
      <4>1. /\ W(d) \in Nat /\ E(d) \in Nat /\ G(d) \in Nat /\ O(d) \in Nat /\ Bit(c = d) \in Nat
            /\ G(d) + Bit(old = d) = E(d) + Bit(c = d)
            /\ y[d] = W(d) + E(d) + O(d) + Bit(c = d)
        BY <1>6, <1>16 DEF Bit
      <4>2. Bit(old = d) = IF d = old THEN 1 ELSE 0
        BY DEF Bit
      <4>3. CASE d = old
        BY <4>1, <4>2, <4>3
      <4>4. CASE d # old
        BY <4>1, <4>2, <4>4
      <4> QED BY <4>3, <4>4
    <3>7. z = [y EXCEPT ![old] = @ - 1]
      BY <1>17, <2>2, <3>6
    <3> QED BY <3>5, <3>7 DEF Set
  <2> QED BY <1>4, <2>1, <2>2
<1>19. \A d \in Cells : z[d] = W(d) + G(d) + O(d)
  OBVIOUS
<1> HIDE DEF z
\* The variables are destroyed.
<1> DEFINE u == [d \in Cells |-> z[d] - Occurs(f.locals, d)]
<1>20. StoreOK(DestroyAll(Set(r, c, old), f.locals), u, w)
  <2>1. ASSUME NEW d \in Cells
        PROVE  /\ Occurs(f.locals, d) <= z[d]
               /\ Occurs(f.locals, d) = z[d] /\ z[d] > 0 => d \notin w /\ d # pzeroCell
    <3>1. /\ W(d) \in Nat /\ G(d) \in Nat /\ O(d) \in Nat /\ z[d] = W(d) + G(d) + O(d)
          /\ Occurs(f.locals, d) = O(d)
      BY <1>6, <1>19 DEF O
    <3>2. ASSUME O(d) = z[d], z[d] > 0 PROVE d \notin w /\ d # pzeroCell
      <4>1. W(d) = 0 /\ O(d) > 0
        BY <3>1, <3>2
      <4>2. Has(f, d) /\ d # pzeroCell
        BY <1>6, <4>1
      <4> QED BY <1>8, <1>9, <4>1, <4>2
    <3> QED BY <3>1, <3>2
  <2> QED BY <1>3, <1>18, <2>1, DestroyAllOK
<1>21. \A d \in Cells : u[d] = HoldersIn(lw, d) + Occurs(g.locals, d) + Occurs(g.params, d)
  <2> SUFFICES ASSUME NEW d \in Cells
               PROVE  u[d] = HoldersIn(lw, d) + Occurs(g.locals, d) + Occurs(g.params, d)
    OBVIOUS
  <2>1. u[d] = z[d] - O(d)
    BY DEF O
  <2> HIDE DEF u
  <2>2. u[d] = W(d) + G(d)
    BY <1>6, <1>19, <2>1
  <2>3. W(d) \in Nat /\ Occurs(g.locals, d) \in Nat /\ Occurs(g.params, d) \in Nat
    BY <1>6 DEF Assigned
  <2>4. u[d] = W(d) + (Occurs(g.locals, d) + Occurs(g.params, d))
    BY <2>2 DEF G
  <2>5. u[d] = W(d) + Occurs(g.locals, d) + Occurs(g.params, d)
    BY <2>3, <2>4
  <2> QED BY <2>5 DEF W
<1>22. \A d \in Cells : d \in w <=> WaitsBelow(lw, d) \/ WaitsIn(g, d)
  BY <1>8, <1>11
<1> HIDE DEF u
<1> QED BY <1>2, <1>11, <1>20, <1>21, <1>22, ToSound DEF r

-----------------------------------------------------------------------------
(* The steps. *)
LEMMA TopSplit ==
  ASSUME NEW fr \in Seq(Frames), Len(fr) > 0
  PROVE  /\ Front(fr) \in Seq(Frames) /\ Last(fr) \in Frames
         /\ fr = Append(Front(fr), Last(fr)) /\ Len(fr) = Len(Front(fr)) + 1
<1> DEFINE n == Len(fr)
           m == n - 1
           lo == SubSeq(fr, 1, m)
<1>1. n \in Nat /\ m \in Nat /\ m + 1 = n /\ n \in 1..n /\ \A i \in 1..m : i \in 1..n
  OBVIOUS
<1>2. lo \in Seq(Frames) /\ Len(lo) = m /\ \A i \in 1..m : lo[i] = fr[i]
  BY <1>1
<1>3. fr[n] \in Frames
  BY <1>1, ElementOfSeq
<1>4. Front(fr) = lo /\ Last(fr) = fr[n]
  BY DEF Front, Last
<1>5. fr = Append(lo, fr[n])
  <2> DEFINE t == Append(lo, fr[n])
  <2>1. t \in Seq(Frames) /\ Len(t) = m + 1 /\ t[m + 1] = fr[n]
        /\ \A i \in 1..m : t[i] = lo[i]
    <3> HIDE DEF lo, m
    <3> QED BY <1>2, <1>3, AppendProperties
  <2>2. \A i \in 1..n : t[i] = fr[i]
    <3> SUFFICES ASSUME NEW i \in 1..n PROVE t[i] = fr[i]
      OBVIOUS
    <3>1. CASE i = n
      BY <1>1, <2>1, <3>1
    <3>2. CASE i # n
      <4>1. i \in 1..m
        <5> HIDE DEF n, m
        <5> QED BY <1>1, <3>2
      <4> HIDE DEF t, lo, m
      <4> QED BY <1>2, <2>1, <4>1
    <3> QED BY <3>1, <3>2
  <2>3. Len(t) = Len(fr)
    BY <1>1, <2>1
  <2> HIDE DEF t
  <2>4. t = fr
    BY <2>1, <2>2, <2>3, SeqEqual
  <2> QED BY <2>4 DEF t
<1> HIDE DEF lo, m
<1> QED BY <1>1, <1>2, <1>3, <1>4, <1>5 DEF n

LEMMA InvIsSound ==
  ASSUME MemoryInv
  PROVE  /\ Front(frames) \in Seq(Frames) /\ Top \in Frames
         /\ frames = Append(Front(frames), Top) /\ Len(frames) = Len(Front(frames)) + 1
         /\ Len(Front(frames)) \in Nat
         /\ Sound(Store, Front(frames), Top)
<1>1. frames \in Seq(Frames) /\ Len(frames) > 0
  BY DEF MemoryInv, FramesOK
<1>2. /\ Front(frames) \in Seq(Frames) /\ Top \in Frames
      /\ frames = Append(Front(frames), Top) /\ Len(frames) = Len(Front(frames)) + 1
  BY <1>1, TopSplit DEF Top
<1> DEFINE lo == Front(frames)
<1> HIDE DEF lo
<1>3. lo \in Seq(Frames) /\ frames = Append(lo, Top) /\ Top \in Frames
  BY <1>2 DEF lo
<1>4. Sound(Store, lo, Top)
  BY <1>3, SoundIs DEF MemoryInv
<1>5. Len(lo) \in Nat
  BY <1>3
<1> QED BY <1>2, <1>4, <1>5 DEF lo

LEMMA SoundIsNext ==
  ASSUME NEW t, NEW lo, NEW f, Sound(t, lo, f), frames' = Append(lo, f), Becomes(t)
  PROVE  MemoryInv'
<1>1. lo \in Seq(Frames) /\ f \in Frames /\ t \in Stores
  BY DEF Sound, LowerOK, TopOK, StoreOK
<1>2. /\ FramesOK(Append(lo, f)) /\ PendingOK(Append(lo, f))
      /\ StoreOK(t, CountsOf(Append(lo, f)), Waits(Append(lo, f)))
  BY <1>1, SoundIs
<1>3. t = [ref |-> t.ref, alloc |-> t.alloc, cache |-> t.cache]
  BY <1>1 DEF Stores
<1>4. Store' = t
  BY <1>3 DEF Store, Becomes
<1>5. FramesOK(frames') /\ PendingOK(frames') /\ StoreOK(Store', CountsOf(frames'), Waits(frames'))
  BY <1>2, <1>4
<1> QED BY <1>5 DEF MemoryInv

LEMMA EvaluateStep ==
  ASSUME MemoryInv, Evaluate
  PROVE  MemoryInv'
<1>1. Sound(Store, Front(frames), Top) /\ Top \in Frames
  BY InvIsSound
<1>2. PICK c \in (ToSet(Top.params) \cup ToSet(Top.locals) \cup {pzeroCell}) \ {pUndef} :
        frames' = Append(Front(frames), [Top EXCEPT !.pending = Append(@, c)])
  BY DEF Evaluate, WithTop
<1>3. Len(Top.pending) < MaxPending /\ Becomes(Store)
  BY DEF Evaluate, Becomes, Store
<1>4. /\ Top.params \in Seq(Cells)
      /\ Top.locals \in Seq(Cells \cup {pUndef}) /\ Len(Top.locals) = 2
  BY <1>1 DEF Frames
<1>5. c \in Cells /\ (Has(Top, c) \/ c = pzeroCell)
  <2>1. CASE c = pzeroCell
    BY <2>1, Constants
  <2>2. CASE c \in ToSet(Top.params)
    <3>1. PICK i \in 1..Len(Top.params) : Top.params[i] = c
      BY <1>4, <2>2 DEF ToSet
    <3> QED BY <1>4, <3>1 DEF Has
  <2>3. CASE c \in ToSet(Top.locals)
    <3>1. PICK i \in 1..2 : Top.locals[i] = c
      BY <1>4, <2>3 DEF ToSet
    <3>2. c \in Cells \cup {pUndef}
      BY <1>4, <3>1
    <3> QED BY <1>2, <3>1, <3>2 DEF Has
  <2> QED BY <1>2, <2>1, <2>2, <2>3
<1> DEFINE g == [Top EXCEPT !.pending = Append(@, c)]
<1>6. Sound(Store, Front(frames), g)
  BY <1>1, <1>3, <1>5, EvaluateOK
<1> HIDE DEF g
<1>7. frames' = Append(Front(frames), g)
  BY <1>2 DEF g
<1> QED BY <1>3, <1>6, <1>7, SoundIsNext

LEMMA EnterStep ==
  ASSUME MemoryInv, Enter
  PROVE  MemoryInv'
<1> DEFINE lo == Front(frames)
           q == Top.pending
           p == <<>>
<1>1. Sound(Store, lo, Top) /\ Top \in Frames /\ Len(frames) = Len(lo) + 1 /\ Len(lo) \in Nat
  BY InvIsSound
<1>2. q \in Seq(Cells) /\ q # <<>> /\ p \in Seq(Cells)
  BY <1>1 DEF Enter, Frames
<1>3. q = p \o q /\ Len(q) > 0
  <2> HIDE DEF q
  <2> QED BY <1>2, ConcatEmptySeq, EmptySeq
<1>4. Len(lo) < MaxCalls
  BY <1>1, Constants DEF Enter
<1>5. /\ frames' = Append(Append(lo, [Top EXCEPT !.pending = p]), Frame(q))
      /\ Becomes(Parm(Store, q))
  BY DEF Enter, WithTop
<1> HIDE DEF lo, p
<1>6. Sound(Parm(Store, q), Append(lo, [Top EXCEPT !.pending = p]), Frame(q))
  BY <1>1, <1>2, <1>3, <1>4, CallOK
<1> QED BY <1>5, <1>6, SoundIsNext

LEMMA EnterNestedStep ==
  ASSUME MemoryInv, EnterNested
  PROVE  MemoryInv'
<1> DEFINE lo == Front(frames)
           r == Top.pending
           p == Front(Top.pending)
           q == <<Last(Top.pending)>>
<1>1. Sound(Store, lo, Top) /\ Top \in Frames /\ Len(frames) = Len(lo) + 1 /\ Len(lo) \in Nat
  BY InvIsSound
<1>2. r \in Seq(Cells) /\ Len(r) = 2
  BY <1>1 DEF EnterNested, Frames
<1>3. p \in Seq(Cells) /\ q \in Seq(Cells) /\ r = p \o q /\ Len(q) > 0
  <2>1. r[1] \in Cells /\ r[2] \in Cells
    <3> HIDE DEF r
    <3> QED BY <1>2
  <2>2. p = SubSeq(r, 1, 1) /\ q = <<r[2]>>
    <3>1. Len(r) - 1 = 1
      BY <1>2
    <3> QED BY <1>2, <3>1 DEF Front, Last
  <2> HIDE DEF r, p, q
  <2>3. p \in Seq(Cells) /\ Len(p) = 1 /\ p[1] = r[1]
    BY <1>2, <2>2
  <2>4. q \in Seq(Cells) /\ Len(q) = 1 /\ q[1] = r[2]
    BY <2>1, <2>2
  <2> DEFINE t == p \o q
  <2>5. t \in Seq(Cells) /\ Len(t) = 2 /\ t[1] = r[1] /\ t[2] = r[2]
    <3>1. /\ t \in Seq(Cells) /\ Len(t) = Len(p) + Len(q)
          /\ \A k \in 1..Len(p) + Len(q) : t[k] = IF k <= Len(p) THEN p[k] ELSE q[k - Len(p)]
      BY <2>3, <2>4, ConcatProperties
    <3> HIDE DEF t
    <3> QED BY <2>3, <2>4, <3>1
  <2> HIDE DEF t
  <2>6. t = r
    <3>1. \A k \in 1..2 : k = 1 \/ k = 2
      OBVIOUS
    <3>2. \A k \in 1..Len(t) : t[k] = r[k]
      BY <2>5, <3>1
    <3> QED BY <1>2, <2>5, <3>2, SeqEqual
  <2> QED BY <2>3, <2>4, <2>6 DEF t
<1>4. Len(lo) < MaxCalls
  BY <1>1, Constants DEF EnterNested
<1>5. /\ frames' = Append(Append(lo, [Top EXCEPT !.pending = p]), Frame(q))
      /\ Becomes(Parm(Store, q))
  BY DEF EnterNested, WithTop
<1> HIDE DEF lo, p, q
<1>6. Sound(Parm(Store, q), Append(lo, [Top EXCEPT !.pending = p]), Frame(q))
  BY <1>1, <1>3, <1>4, CallOK
<1> QED BY <1>5, <1>6, SoundIsNext

LEMMA StoresAre ==
  ASSUME MemoryInv
  PROVE  /\ refcount \in [Cells -> 0..RefLimit - 1] /\ alloc \in [Cells -> Nat]
         /\ pcache \in [Sizes -> Seq(Cells)]
BY DEF MemoryInv, StoreOK, Stores, Store

\* A frame is a record of its three parts.
LEMMA FrameRecord ==
  ASSUME NEW f \in Frames
  PROVE  f = [params |-> f.params, locals |-> f.locals, pending |-> f.pending]
<1> DEFINE L == {l \in Seq(Cells \cup {pUndef}) : Len(l) = 2}
<1>1. f \in [params : Seq(Cells), locals : L, pending : Seq(Cells)]
  BY DEF Frames
<1> HIDE DEF L
<1> QED BY <1>1

LEMMA pallocStep ==
  ASSUME MemoryInv, palloc
  PROVE  MemoryInv'
<1>1. /\ Sound(Store, Front(frames), Top) /\ Top \in Frames
      /\ refcount \in [Cells -> 0..RefLimit - 1] /\ alloc \in [Cells -> Nat]
      /\ pcache \in [Sizes -> Seq(Cells)]
  BY InvIsSound, StoresAre
<1>2. PICK i \in 1..2, size \in Sizes :
        /\ Top.locals[i] = pUndef /\ Top.pending = <<>>
        /\ \E s \in
             IF size < CacheSize /\ pcache[size] # <<>>
             THEN {[cell |-> Head(pcache[size]), cache |-> [pcache EXCEPT ![size] = Tail(@)]]}
             ELSE {[cell |-> c, cache |-> pcache] :
                     c \in {d \in Cells : alloc[d] = 0 /\ \A e \in 1..d - 1 : alloc[e] # 0}} :
             /\ refcount' = [refcount EXCEPT ![s.cell] = 1]
             /\ alloc' = [alloc EXCEPT ![s.cell] = size]
             /\ pcache' = s.cache
             /\ frames' = Append(Front(frames), [Top EXCEPT !.locals[i] = s.cell])
  BY DEF palloc, WithTop
<1>3. \E d, k : /\ \/ /\ pcache[size] # <<>> /\ d = Head(pcache[size])
                      /\ k = [pcache EXCEPT ![size] = Tail(@)]
                   \/ d \in Cells /\ alloc[d] = 0 /\ k = pcache
                /\ refcount' = [refcount EXCEPT ![d] = 1]
                /\ alloc' = [alloc EXCEPT ![d] = size]
                /\ pcache' = k
                /\ frames' = Append(Front(frames), [Top EXCEPT !.locals[i] = d])
  <2> DEFINE FromCache == {[cell |-> Head(pcache[size]), cache |-> [pcache EXCEPT ![size] = Tail(@)]]}
             Fresh == {[cell |-> c, cache |-> pcache] :
                         c \in {d \in Cells : alloc[d] = 0 /\ \A e \in 1..d - 1 : alloc[e] # 0}}
  <2>1. PICK s \in IF size < CacheSize /\ pcache[size] # <<>> THEN FromCache ELSE Fresh :
          /\ refcount' = [refcount EXCEPT ![s.cell] = 1]
          /\ alloc' = [alloc EXCEPT ![s.cell] = size]
          /\ pcache' = s.cache
          /\ frames' = Append(Front(frames), [Top EXCEPT !.locals[i] = s.cell])
    BY <1>2
  <2>2. \/ /\ pcache[size] # <<>> /\ s.cell = Head(pcache[size])
           /\ s.cache = [pcache EXCEPT ![size] = Tail(@)]
        \/ s.cell \in Cells /\ alloc[s.cell] = 0 /\ s.cache = pcache
    <3>1. CASE size < CacheSize /\ pcache[size] # <<>>
      <4>1. s \in FromCache
        BY <3>1
      <4> QED BY <3>1, <4>1
    <3>2. CASE ~(size < CacheSize /\ pcache[size] # <<>>)
      <4>1. s \in Fresh
        BY <3>2
      <4>2. PICK c \in {d \in Cells : alloc[d] = 0 /\ \A e \in 1..d - 1 : alloc[e] # 0} :
              s = [cell |-> c, cache |-> pcache]
        BY <4>1
      <4> QED BY <4>2
    <3> QED BY <3>1, <3>2
  <2> QED BY <2>1, <2>2
<1>4. PICK d, k : /\ \/ /\ pcache[size] # <<>> /\ d = Head(pcache[size])
                        /\ k = [pcache EXCEPT ![size] = Tail(@)]
                     \/ d \in Cells /\ alloc[d] = 0 /\ k = pcache
                  /\ refcount' = [refcount EXCEPT ![d] = 1]
                  /\ alloc' = [alloc EXCEPT ![d] = size]
                  /\ pcache' = k
                  /\ frames' = Append(Front(frames), [Top EXCEPT !.locals[i] = d])
  BY <1>3
<1> DEFINE t == [ref |-> refcount', alloc |-> alloc', cache |-> pcache']
           g == [Top EXCEPT !.locals[i] = d]
<1>5. d \in Cells /\ k \in [Sizes -> Seq(Cells)]
  <2> DEFINE a == pcache[size]
  <2>1. a \in Seq(Cells)
    BY <1>1
  <2>2. CASE a # <<>> /\ d = Head(a) /\ k = [pcache EXCEPT ![size] = Tail(@)]
    <3>1. Head(a) \in Cells /\ Tail(a) \in Seq(Cells)
      <4> HIDE DEF a
      <4> QED BY <2>1, <2>2, HeadTailProperties
    <3>2. k = [pcache EXCEPT ![size] = Tail(a)]
      BY <2>2
    <3> HIDE DEF a
    <3> QED BY <1>1, <2>2, <3>1, <3>2
  <2>3. CASE d \in Cells /\ k = pcache
    BY <1>1, <2>3
  <2> QED BY <1>4, <2>2, <2>3
<1>6. Taken(Store, t, d, size)
  <2>1. size \in Nat /\ 1 \in 0..RefLimit - 1
    <3>1. (MaxCalls + 1) * (MaxPending + 2) \in Nat
      BY Constants
    <3> QED BY <3>1, PrecisionMemoryAssumption
  <2>2. t \in Stores
    BY <1>1, <1>4, <1>5, <2>1 DEF Stores
  <2> QED BY <1>4, <1>5, <2>2 DEF Taken, Store
<1>7. /\ g.params = Top.params /\ g.locals = [Top.locals EXCEPT ![i] = d] /\ g.pending = <<>>
      /\ g = [params |-> g.params, locals |-> g.locals, pending |-> g.pending]
      /\ <<>> \in Seq(Cells)
  <2> DEFINE l == [Top.locals EXCEPT ![i] = d]
  <2>1. g = [Top EXCEPT !.locals = l]
    OBVIOUS
  <2>2. Top = [params |-> Top.params, locals |-> Top.locals, pending |-> Top.pending]
    BY <1>1, FrameRecord
  <2> HIDE DEF l, g
  <2>3. g = [params |-> Top.params, locals |-> l, pending |-> Top.pending]
    BY <2>1, <2>2
  <2>4. /\ g.params = Top.params /\ g.locals = l /\ g.pending = <<>>
        /\ g = [params |-> g.params, locals |-> g.locals, pending |-> g.pending]
    BY <1>2, <2>3
  <2> QED BY <2>4 DEF l
<1> HIDE DEF g, t
<1>8. Assigned(Top, g, d, pUndef, <<>>)
  BY <1>1, <1>2, <1>5, <1>7, LocalAssigned
<1>9. Sound(t, Front(frames), g)
  BY <1>1, <1>2, <1>6, <1>8, AllocOK
<1>10. Becomes(t) /\ frames' = Append(Front(frames), g)
  BY <1>4 DEF Becomes, t, g
<1> QED BY <1>9, <1>10, SoundIsNext

LEMMA psetLocalStep ==
  ASSUME MemoryInv, psetLocal
  PROVE  MemoryInv'
<1>1. Sound(Store, Front(frames), Top) /\ Top \in Frames
  BY InvIsSound
<1>2. PICK i \in 1..2 :
        /\ Becomes(Set(Store, Top.pending[1], Top.locals[i]))
        /\ frames' = Append(Front(frames),
                            [Top EXCEPT !.locals[i] = Top.pending[1], !.pending = <<>>])
  BY DEF psetLocal, WithTop
<1> DEFINE c == Top.pending[1]
           old == Top.locals[i]
           g == [Top EXCEPT !.locals[i] = c, !.pending = <<>>]
<1>3. Len(Top.pending) = 1 /\ c \in Cells
  <2>1. Top.pending \in Seq(Cells) /\ Len(Top.pending) = 1
    BY <1>1 DEF psetLocal, Frames
  <2> QED BY <2>1
<1>4. /\ g.params = Top.params /\ g.locals = [Top.locals EXCEPT ![i] = c] /\ g.pending = <<>>
      /\ g = [params |-> g.params, locals |-> g.locals, pending |-> g.pending]
      /\ <<>> \in Seq(Cells)
  <2> DEFINE l == [Top.locals EXCEPT ![i] = c]
  <2>1. g = [Top EXCEPT !.locals = l, !.pending = <<>>]
    OBVIOUS
  <2>2. Top = [params |-> Top.params, locals |-> Top.locals, pending |-> Top.pending]
    BY <1>1, FrameRecord
  <2> HIDE DEF l, g
  <2>3. g = [params |-> Top.params, locals |-> l, pending |-> <<>>]
    BY <2>1, <2>2
  <2>4. /\ g.params = Top.params /\ g.locals = l /\ g.pending = <<>>
        /\ g = [params |-> g.params, locals |-> g.locals, pending |-> g.pending]
    BY <2>3
  <2> QED BY <2>4 DEF l
<1> HIDE DEF g
<1>5. Assigned(Top, g, c, old, <<>>)
  BY <1>1, <1>3, <1>4, LocalAssigned
<1>6. Has(Top, old)
  BY DEF Has
<1>7. Sound(Set(Store, c, old), Front(frames), g)
  BY <1>1, <1>3, <1>5, <1>6, SetOK
<1>8. frames' = Append(Front(frames), g) /\ Becomes(Set(Store, c, old))
  BY <1>2 DEF g
<1> QED BY <1>7, <1>8, SoundIsNext

LEMMA psetParamStep ==
  ASSUME MemoryInv, psetParam
  PROVE  MemoryInv'
<1>1. Sound(Store, Front(frames), Top) /\ Top \in Frames /\ Top.pending = <<>>
  BY InvIsSound DEF psetParam
<1>2. /\ Top.params \in Seq(Cells)
      /\ Top.locals \in Seq(Cells \cup {pUndef}) /\ Len(Top.locals) = 2
  BY <1>1 DEF Frames
<1>3. PICK i \in 1..2, j \in DOMAIN Top.params :
        /\ Top.locals[i] # pUndef
        /\ Becomes(Set(Store, Top.locals[i], Top.params[j]))
        /\ frames' = Append(Front(frames), [Top EXCEPT !.params[j] = Top.locals[i]])
  BY DEF psetParam, WithTop
<1> DEFINE c == Top.locals[i]
           old == Top.params[j]
           g == [Top EXCEPT !.params[j] = c]
<1>4. j \in 1..Len(Top.params) /\ c \in Cells
  <2>1. Top.locals[i] \in Cells \cup {pUndef}
    BY <1>2
  <2> QED BY <1>2, <1>3, <2>1
<1>5. /\ g.locals = Top.locals /\ g.params = [Top.params EXCEPT ![j] = c] /\ g.pending = <<>>
      /\ g = [params |-> g.params, locals |-> g.locals, pending |-> g.pending]
      /\ <<>> \in Seq(Cells)
  BY <1>1, FrameRecord
<1> HIDE DEF g
<1>6. Assigned(Top, g, c, old, <<>>)
  BY <1>1, <1>4, <1>5, ParamAssigned
<1>7. Has(Top, old) /\ Has(Top, c)
  BY <1>4 DEF Has
<1>8. Sound(Set(Store, c, old), Front(frames), g)
  BY <1>1, <1>6, <1>7, SetOK
<1>9. frames' = Append(Front(frames), g) /\ Becomes(Set(Store, c, old))
  BY <1>3 DEF g
<1> QED BY <1>8, <1>9, SoundIsNext

\* The frames a function returns to.
LEMMA ReturnSplit ==
  ASSUME MemoryInv, Len(frames) > 1
  PROVE  LET rest == Front(frames)
         IN  /\ Front(rest) \in Seq(Frames) /\ Last(rest) \in Frames
             /\ rest = Append(Front(rest), Last(rest))
             /\ Sound(Store, Append(Front(rest), Last(rest)), Top)
             /\ Top \in Frames
<1> DEFINE rest == Front(frames)
<1>1. rest \in Seq(Frames) /\ Len(rest) > 0 /\ Sound(Store, rest, Top) /\ Top \in Frames
  BY InvIsSound
<1> HIDE DEF rest
<1>2. Front(rest) \in Seq(Frames) /\ Last(rest) \in Frames /\ rest = Append(Front(rest), Last(rest))
  BY <1>1, TopSplit
<1>3. Sound(Store, Append(Front(rest), Last(rest)), Top)
  BY <1>1, <1>2
<1> QED BY <1>1, <1>2, <1>3 DEF rest

LEMMA ReturnNothingStep ==
  ASSUME MemoryInv, ReturnNothing
  PROVE  MemoryInv'
<1> DEFINE lw == Front(Front(frames))
           e == Last(Front(frames))
<1>1. /\ lw \in Seq(Frames) /\ e \in Frames /\ Front(frames) = Append(lw, e)
      /\ Sound(Store, Append(lw, e), Top)
  BY ReturnSplit DEF ReturnNothing
<1>2. /\ Top.pending = <<>> /\ frames' = Front(frames)
      /\ Becomes(DestroyAll(Store, Top.params \o Top.locals))
  BY DEF ReturnNothing
<1> HIDE DEF lw, e
<1>3. Sound(DestroyAll(Store, Top.params \o Top.locals), lw, e)
  BY <1>1, <1>2, ReturnNothingOK
<1>4. frames' = Append(lw, e)
  BY <1>1, <1>2
<1> QED BY <1>2, <1>3, <1>4, SoundIsNext

LEMMA ReturnResultStep ==
  ASSUME MemoryInv, ReturnResult
  PROVE  MemoryInv'
<1> DEFINE lw == Front(Front(frames))
           e == Last(Front(frames))
<1>1. /\ lw \in Seq(Frames) /\ e \in Frames
      /\ Sound(Store, Append(lw, e), Top)
  BY ReturnSplit DEF ReturnResult
<1>2. PICK i \in 1..2 :
        /\ Top.locals[i] # pUndef
        /\ Becomes(Down(DestroyAll(Store, Append(Top.params, Top.locals[3 - i])), Top.locals[i]))
        /\ frames' = Append(lw, [e EXCEPT !.pending = Append(@, Top.locals[i])])
  BY DEF ReturnResult
<1>3. Top.pending = <<>>
  BY DEF ReturnResult
<1> HIDE DEF lw, e
<1>4. Sound(Down(DestroyAll(Store, Append(Top.params, Top.locals[3 - i])), Top.locals[i]),
            lw, [e EXCEPT !.pending = Append(@, Top.locals[i])])
  BY <1>1, <1>2, <1>3, ReturnResultOK
<1> QED BY <1>2, <1>4, SoundIsNext

LEMMA ReturnIntoStep ==
  ASSUME MemoryInv, ReturnInto
  PROVE  MemoryInv'
<1> DEFINE lw == Front(Front(frames))
           e == Last(Front(frames))
<1>1. /\ lw \in Seq(Frames) /\ e \in Frames /\ Top \in Frames
      /\ Sound(Store, Append(lw, e), Top)
  BY ReturnSplit DEF ReturnInto
<1>2. PICK i \in 1..2, a \in 1..2 :
        /\ Top.locals[i] # pUndef
        /\ Becomes(DestroyAll(Set(DestroyAll(Store, Top.params), Top.locals[i], e.locals[a]),
                              Top.locals))
        /\ frames' = Append(lw, [e EXCEPT !.locals[a] = Top.locals[i]])
  BY DEF ReturnInto
<1>3. Top.pending = <<>> /\ e.pending = <<>>
  BY DEF ReturnInto
<1> HIDE DEF lw, e
<1> DEFINE c == Top.locals[i]
           g == [e EXCEPT !.locals[a] = c]
<1>4. c \in Cells
  <2>1. Top.locals \in Seq(Cells \cup {pUndef}) /\ Len(Top.locals) = 2
    BY <1>1 DEF Frames
  <2>2. c \in Cells \cup {pUndef}
    BY <2>1
  <2> QED BY <1>2, <2>2
<1>5. /\ g.params = e.params /\ g.locals = [e.locals EXCEPT ![a] = c] /\ g.pending = <<>>
      /\ g = [params |-> g.params, locals |-> g.locals, pending |-> g.pending]
      /\ <<>> \in Seq(Cells)
  <2> DEFINE l == [e.locals EXCEPT ![a] = c]
  <2>1. g = [e EXCEPT !.locals = l]
    OBVIOUS
  <2>2. e = [params |-> e.params, locals |-> e.locals, pending |-> e.pending]
    BY <1>1, FrameRecord
  <2> HIDE DEF l, g
  <2>3. g = [params |-> e.params, locals |-> l, pending |-> e.pending]
    BY <2>1, <2>2
  <2>4. /\ g.params = e.params /\ g.locals = l /\ g.pending = <<>>
        /\ g = [params |-> g.params, locals |-> g.locals, pending |-> g.pending]
    BY <1>3, <2>3
  <2> QED BY <2>4 DEF l
<1> HIDE DEF g
<1>6. Assigned(e, g, c, e.locals[a], <<>>)
  BY <1>1, <1>4, <1>5, LocalAssigned
<1>7. Has(e, e.locals[a])
  BY DEF Has
<1>8. Sound(DestroyAll(Set(DestroyAll(Store, Top.params), c, e.locals[a]), Top.locals), lw, g)
  BY <1>1, <1>3, <1>6, <1>7, ReturnIntoOK
<1>9. /\ frames' = Append(lw, g)
      /\ Becomes(DestroyAll(Set(DestroyAll(Store, Top.params), c, e.locals[a]), Top.locals))
  BY <1>2 DEF g
<1> QED BY <1>8, <1>9, SoundIsNext

LEMMA MemoryStart ==
  ASSUME MemoryInit
  PROVE  MemoryInv
<1> DEFINE f == Frame(<<>>)
           lo == <<>>
           h == [c \in Cells |-> IF c = pzeroCell THEN 1 ELSE 0]
<1>1. /\ f \in Frames /\ f.params = <<>> /\ f.pending = <<>> /\ f.locals = <<pUndef, pUndef>>
      /\ Len(f.params) = 0 /\ Len(f.pending) = 0
  BY DEF Frame, Frames
<1>2. frames = Append(lo, f) /\ lo \in Seq(Frames) /\ Len(lo) = 0
  BY <1>1 DEF MemoryInit
<1>3. LowerOK(lo) /\ TopOK(f) /\ LowerPending(lo, f) /\ TopPending(lo, f)
  <2>1. 0 \in 0..MaxCalls /\ MaxPending \in Nat
    BY Constants
  <2> QED BY <1>1, <1>2, <2>1 DEF LowerOK, TopOK, LowerPending, TopPending
<1>4. /\ refcount = h /\ alloc = h /\ pcache = [s \in Sizes |-> <<>>]
  BY DEF MemoryInit
<1>5. /\ h \in [Cells -> Nat] /\ h \in [Cells -> 0..RefLimit - 1]
      /\ pcache \in [Sizes -> Seq(Cells)]
  <2>1. (MaxCalls + 1) * (MaxPending + 2) \in Nat
    BY Constants
  <2>2. 0 \in 0..RefLimit - 1 /\ 1 \in 0..RefLimit - 1
    BY <2>1, PrecisionMemoryAssumption
  <2> QED BY <1>4, <2>2
<1>6. Store \in Stores
  BY <1>4, <1>5 DEF Store, Stores
<1>7. \A size \in Sizes : Store.cache[size] = <<>> /\ Len(Store.cache[size]) = 0
  BY <1>4 DEF Store
<1>8. CacheOK(Store)
  BY <1>7, Constants DEF CacheOK
<1>9. \A c : c \notin CachedIn(Store)
  BY <1>6, <1>7, InCache
<1>10. \A c \in Cells : AliveIn(Store, c) <=> c = pzeroCell
  BY <1>4, <1>9 DEF AliveIn, Store
<1>11. pzeroCell \in Cells
  BY Constants
<1>12. StoreOK(Store, h, {})
  <2>1. Store.ref = h /\ Store.alloc = h
    BY <1>4 DEF Store
  <2> QED BY <1>5, <1>6, <1>8, <1>10, <1>11, <2>1 DEF StoreOK
<1>13. \A c \in Cells : h[c] = HoldersIn(lo, c) + Occurs(f.locals, c) + Occurs(f.params, c)
  <2> SUFFICES ASSUME NEW c \in Cells
               PROVE  h[c] = HoldersIn(lo, c) + Occurs(f.locals, c) + Occurs(f.params, c)
    OBVIOUS
  <2>1. Occurs(f.locals, c) = 0 /\ Occurs(f.params, c) = 0
    <3>1. Occurs(f.locals, c) \in Nat /\ Occurs(f.params, c) \in Nat
      BY <1>1, FrameCounts
    <3>2. ~Has(f, c)
      BY <1>1, Constants DEF Has
    <3> QED BY <1>1, <3>1, <3>2, FrameCounts
  <2>2. HoldersIn(lo, c) = IF c = pzeroCell THEN 1 ELSE 0
    <3>1. LocalPlaces(lo, c) = {} /\ ParamPlaces(lo, c) = {}
      BY <1>2 DEF LocalPlaces, ParamPlaces
    <3>2. HoldersIn(lo, c) = (IF c = pzeroCell THEN 1 ELSE 0)
            + Cardinality(LocalPlaces(lo, c)) + Cardinality(ParamPlaces(lo, c))
      BY DEF HoldersIn, LocalPlaces, ParamPlaces
    <3>3. Cardinality({}) = 0
      BY FS_EmptySet
    <3>4. Cardinality(LocalPlaces(lo, c)) = 0 /\ Cardinality(ParamPlaces(lo, c)) = 0
      BY <3>1, <3>3, Zenon
    <3> QED BY <3>2, <3>4
  <2> QED BY <2>1, <2>2
<1>14. \A c \in Cells : ~WaitsBelow(lo, c) /\ ~WaitsIn(f, c)
  BY <1>1, <1>2 DEF WaitsBelow, WaitsIn
<1> HIDE DEF h, f, lo
<1>15. Sound(Store, lo, f)
  BY <1>3, <1>12, <1>13, <1>14, ToSound
<1> QED BY <1>1, <1>2, <1>15, SoundIs DEF MemoryInv

-----------------------------------------------------------------------------
(* What the invariant says of the properties that the runs check. *)
LEMMA InvCells ==
  ASSUME MemoryInv
  PROVE  /\ \A c : Alive(c) <=> AliveIn(Store, c)
         /\ \A c \in Cells : AliveIn(Store, c) =>
              refcount[c] = HoldersIn(frames, c)
              /\ (HoldersIn(frames, c) = 0 => c \in Waits(frames))
         /\ \A c \in Cells : Held(frames, Len(frames), c) \/ c \in Waits(frames) =>
              AliveIn(Store, c)
         /\ frames \in Seq(Frames)
<1>1. \A c : Alive(c) <=> AliveIn(Store, c)
  BY DEF Alive, AliveIn, Cached, CachedIn, Store
<1>2. Bounded(frames) /\ frames \in Seq(Frames)
  BY FramesBounded DEF MemoryInv, FramesOK
<1>3. \A c \in Cells : CountsOf(frames)[c] = HoldersIn(frames, c)
  BY DEF CountsOf
<1>4. \A c \in Cells : HoldersIn(frames, c) > 0 <=> Held(frames, Len(frames), c)
  BY <1>2, HoldersBound
<1>5. StoreOK(Store, CountsOf(frames), Waits(frames)) /\ Store.ref = refcount
  BY DEF MemoryInv, Store
<1> QED BY <1>1, <1>2, <1>3, <1>4, <1>5 DEF StoreOK

LEMMA CountsAreExact ==
  ASSUME MemoryInv
  PROVE  CountsExact
<1>1. \A c : Holders(c) = HoldersIn(frames, c)
  BY DEF Holders, HoldersIn
<1>2. ASSUME NEW c \in Waits(frames) PROVE Waiting(c)
  <2>1. PICK k \in 1..Len(frames) : \E i \in 1..Len(frames[k].pending) : frames[k].pending[i] = c
    BY <1>2 DEF Waits
  <2>2. PICK i \in 1..Len(frames[k].pending) : frames[k].pending[i] = c
    BY <2>1
  <2>3. frames \in Seq(Frames)
    BY InvCells
  <2>4. k \in DOMAIN frames /\ frames[k] \in Frames
    BY <2>3
  <2>5. frames[k].pending \in Seq(Cells)
    BY <2>4 DEF Frames
  <2>6. c \in ToSet(frames[k].pending)
    BY <2>2, <2>5 DEF ToSet
  <2> QED BY <2>4, <2>6 DEF Waiting
<1> QED BY <1>1, <1>2, InvCells DEF CountsExact

LEMMA NothingIsDangling ==
  ASSUME MemoryInv
  PROVE  NothingDangles
<1> SUFFICES ASSUME NEW k \in DOMAIN frames,
                    NEW c \in (ToSet(frames[k].params) \cup ToSet(frames[k].locals)
                               \cup ToSet(frames[k].pending)) \ {pUndef}
             PROVE  Alive(c)
  BY DEF NothingDangles
<1> DEFINE f == frames[k]
<1>1. frames \in Seq(Frames) /\ k \in 1..Len(frames) /\ f \in Frames
  BY InvCells
<1> HIDE DEF f
<1>2. /\ f.locals \in Seq(Cells \cup {pUndef}) /\ Len(f.locals) = 2
      /\ f.params \in Seq(Cells) /\ f.pending \in Seq(Cells)
  BY <1>1 DEF Frames
<1>3. c \in (ToSet(f.params) \cup ToSet(f.locals) \cup ToSet(f.pending)) \ {pUndef}
  BY DEF f
<1>4. CASE c \in ToSet(f.params)
  <2>1. PICK i \in 1..Len(f.params) : f.params[i] = c
    BY <1>2, <1>4 DEF ToSet
  <2>2. c \in Cells /\ Held(frames, Len(frames), c)
    BY <1>1, <1>2, <2>1 DEF Held, Has, f
  <2> QED BY <2>2, InvCells
<1>5. CASE c \in ToSet(f.locals)
  <2>1. PICK i \in 1..2 : f.locals[i] = c
    BY <1>2, <1>5 DEF ToSet
  <2>2. c \in Cells \cup {pUndef}
    BY <1>2, <2>1
  <2>3. c \in Cells /\ Held(frames, Len(frames), c)
    BY <1>1, <1>3, <2>1, <2>2 DEF Held, Has, f
  <2> QED BY <2>3, InvCells
<1>6. CASE c \in ToSet(f.pending)
  <2>1. PICK i \in 1..Len(f.pending) : f.pending[i] = c
    BY <1>2, <1>6 DEF ToSet
  <2>2. c \in Cells /\ c \in Waits(frames)
    BY <1>1, <1>2, <2>1 DEF Waits, f
  <2> QED BY <2>2, InvCells
<1> QED BY <1>3, <1>4, <1>5, <1>6

LEMMA CacheIsSound ==
  ASSUME MemoryInv
  PROVE  CacheSound
<1>1. /\ Store \in Stores /\ CacheOK(Store)
      /\ Store.cache = pcache /\ Store.alloc = alloc
  BY DEF MemoryInv, StoreOK, Store
<1>2. \A size \in Sizes : pcache[size] \in Seq(Cells) /\ DOMAIN pcache[size] = 1..Len(pcache[size])
  BY <1>1, InCache
<1>3. \A size \in Sizes : \A c \in ToSet(pcache[size]) :
        \E i \in 1..Len(pcache[size]) : pcache[size][i] = c
  BY <1>2 DEF ToSet
<1> SUFFICES ASSUME NEW size \in Sizes
             PROVE  /\ Len(pcache[size]) <= CacheLimit
                    /\ size >= CacheSize => pcache[size] = <<>>
                    /\ \A i, j \in DOMAIN pcache[size] : pcache[size][i] = pcache[size][j] => i = j
                    /\ \A c \in ToSet(pcache[size]) : alloc[c] = size
  BY DEF CacheSound
<1>4. /\ Len(pcache[size]) <= CacheLimit
      /\ size >= CacheSize => pcache[size] = <<>>
      /\ \A i, j \in 1..Len(pcache[size]) : pcache[size][i] = pcache[size][j] => i = j
      /\ \A i \in 1..Len(pcache[size]) : alloc[pcache[size][i]] = size
  BY <1>1 DEF CacheOK
<1>5. ASSUME NEW c \in ToSet(pcache[size]) PROVE alloc[c] = size
  <2>1. PICK i \in 1..Len(pcache[size]) : pcache[size][i] = c
    BY <1>3
  <2> QED BY <1>4, <2>1
<1> QED BY <1>2, <1>4, <1>5

-----------------------------------------------------------------------------
(* The invariant of the numbers' storage, whatever functions are called: the
   count of a cell is the number of variables and parameters that have it, a
   result on its way is held by a function that waits or occurs once, and the
   lists of the cache have dead cells of their size (pops.c, all of it).     *)
THEOREM MemoryInvariance == Spec => []MemoryInv
<1>1. Init => MemoryInv
  BY MemoryStart DEF Init
<1>2. ASSUME MemoryInv, [Next]_vars PROVE MemoryInv'
  <2>1. CASE MemoryStep
    <3>1. MemoryNext
      BY <2>1 DEF MemoryStep
    <3> QED BY <3>1, <1>2, EvaluateStep, EnterStep, EnterNestedStep, pallocStep, psetLocalStep,
               psetParamStep, ReturnResultStep, ReturnNothingStep, ReturnIntoStep
            DEF MemoryNext
  <2>2. CASE UNCHANGED memoryVars
    BY <1>2, <2>2 DEF memoryVars, MemoryInv, FramesOK, PendingOK, CountsOf, Waits, Store
  <2>3. CASE CalculatorStep
    BY <2>2, <2>3 DEF CalculatorStep
  <2>4. CASE PcfracStep
    BY <2>2, <2>4 DEF PcfracStep
  <2>5. CASE UNCHANGED vars
    BY <2>2, <2>5 DEF vars
  <2> QED BY <1>2, <2>1, <2>3, <2>4, <2>5 DEF Next
<1> QED BY <1>1, <1>2, PTL DEF Spec

(* Every number lives as long as somebody has it, and no longer, for any
   cells, sizes and limits of the cache, and any depth of calls (pops.c).    *)
THEOREM MemoryStaysSound == Spec => []MemorySound
<1>1. MemoryInv => MemorySound
  BY CountsAreExact, NothingIsDangling, CacheIsSound DEF MemorySound
<1> QED BY <1>1, MemoryInvariance, PTL
====
