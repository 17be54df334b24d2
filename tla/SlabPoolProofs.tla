--------------------------- MODULE SlabPoolProofs ---------------------------
(***************************************************************************)
(* The properties of SlabPool, for every set of pages, buffer size and     *)
(* setting of the heuristic: the invariants, and that a pool implements    *)
(* BlockAllocator.                                                         *)
(***************************************************************************)
EXTENDS SlabPool, SlabListProofs

\* A pool that has not been created has nothing.
NothingCreated ==
  balance = 0 /\ ~wild =>
    /\ Mapped = {}
    /\ live = {}
    /\ list = [start |-> NULL, end |-> NULL, next |-> [p \in {} |-> 0],
               prev |-> [p \in {} |-> 0]]

\* The slabs of a pool are one list, as long as the heuristic's data say;
\* each is in order and has buffers of the pool's size; and the program holds
\* those that are in use.
PoolOK(l, all, count, held) ==
  /\ all = [p \in DOMAIN all |-> all[p]]
  /\ DOMAIN all \subseteq Pages
  /\ count \in Nat \ {0}
  /\ IsList(l, DOMAIN all, DOMAIN all, count)
  /\ SlabsOK(all)
  /\ \A p \in DOMAIN all : all[p].size = AllocationSize
  /\ held = BusyOf(all)

PoolSound == Usable => PoolOK(list, slabs, balance, live)

\* What makes a pool wild: that mmap fails, or buffers so large that a page
\* has no room for two.
WildOnlyForAReason == wild => list.start = NULL \/ NumBuffers(AllocationSize) < 2

\* The inductive invariant.
PoolInv ==
  /\ PoolTypeOK
  /\ NothingCreated
  /\ PoolSound
  /\ AllocateNeverNull
  /\ WildOnlyForAReason

-----------------------------------------------------------------------------
\* What the assumptions say of a page.
LEMMA PageFacts ==
  /\ PageSize = PageMask
  /\ AllocationSize \in Nat \ {0}
  /\ StartSize \in Nat \ {0} /\ heuristic_decision_grow_count \in Nat \ {0}
  /\ NULL \notin Pages
  /\ \A p \in Pages : PageAligned(p) /\ p \in Nat \ {NULL}
BY PoolAssumption, HeuristicAssumption
DEF PageAligned, heuristic_decision_grow_count

\* A slab has room for the buffers that fit into a page, and the same number
\* as any other.
LEMMA BuffersInAPage ==
  ASSUME NEW page \in Pages
  PROVE  LET s == PreparedSlab(page, AllocationSize) IN
         s.max_refs = NumBuffers(AllocationSize) /\ s.max_refs \in Nat
<1>1. AllocationSize \in Nat \ {0} /\ PageAligned(page)
  BY PageFacts
<1>2. PreparedSlab(page, AllocationSize).max_refs = NumBuffers(AllocationSize)
      /\ SlabTypeOK(PreparedSlab(page, AllocationSize))
  BY <1>1, PreparedTypeOK, ZenonT(30)
<1> QED BY <1>2, NonExistantNat DEF SlabTypeOK

LEMMA InitInv == Init => PoolInv
<1> SUFFICES ASSUME Init PROVE PoolInv
  OBVIOUS
<1>1. Mapped = {} /\ balance = 0 /\ live = {} /\ ret = VOID /\ wild = FALSE
  BY DEF Init, Mapped
<1>2. PoolTypeOK
  <2>1. \A p \in Mapped : SlabTypeOK(slabs[p])
    BY <1>1
  <2>2. /\ [p \in {} |-> 0] \in [Mapped -> Mapped \cup {NULL}]
        /\ list = [start |-> NULL, end |-> NULL, next |-> [p \in {} |-> 0],
                   prev |-> [p \in {} |-> 0]]
    BY <1>1 DEF Init
  <2>3. LET Link == Mapped \cup {NULL} IN
          list \in [start : Link, end : Link, next : [Mapped -> Link], prev : [Mapped -> Link]]
    BY <2>2
  <2> QED BY <1>1, <2>1, <2>3 DEF PoolTypeOK
<1> QED BY <1>1, <1>2 DEF Init, PoolInv, NothingCreated, PoolSound, Usable,
                AllocateNeverNull, WildOnlyForAReason, VOID, NULL

\* A usable pool with a list and slabs in order has the types it should.
LEMMA SoundTypes ==
  ASSUME NEW l, NEW all, NEW count, NEW held, PoolOK(l, all, count, held)
  PROVE  LET Link == DOMAIN all \cup {NULL} IN
         /\ DOMAIN all \subseteq Pages
         /\ \A p \in DOMAIN all : SlabTypeOK(all[p])
         /\ l \in [start : Link, end : Link,
                   next : [DOMAIN all -> Link], prev : [DOMAIN all -> Link]]
         /\ count \in Nat
         /\ held \subseteq Nat
         /\ l.start \in DOMAIN all
<1>1. \A p \in DOMAIN all : SlabTypeOK(all[p])
  BY DEF PoolOK, SlabsOK, WellFormed
<1>2. held \subseteq Nat
  BY BusyFacts DEF PoolOK
<1>3. l.start \in DOMAIN all
  <2>1. NULL \notin DOMAIN all
    BY PageFacts DEF PoolOK
  <2>2. IsList(l, DOMAIN all, DOMAIN all, count)
    BY DEF PoolOK
  <2> QED BY <2>1, <2>2, ListShape DEF Shape
<1> QED BY <1>1, <1>2, <1>3 DEF PoolOK, IsList, ListTypeOK

\* A step after which the pool is in order keeps the invariant, and so does
\* one after which it is wild for a reason.
LEMMA SoundInv ==
  ASSUME PoolOK(list', slabs', balance', live'), wild' = FALSE,
         ret' \in Nat \cup {VOID}, ret' # NULL
  PROVE  PoolInv'
<1>1. PoolTypeOK'
  <2>1. Mapped' = DOMAIN slabs'
    BY DEF Mapped
  <2> QED BY <2>1, SoundTypes DEF PoolTypeOK
<1>2. balance' # 0
  BY DEF PoolOK
<1>3. NothingCreated' /\ PoolSound' /\ AllocateNeverNull' /\ WildOnlyForAReason'
  BY <1>2 DEF NothingCreated, PoolSound, AllocateNeverNull, WildOnlyForAReason
<1> QED BY <1>1, <1>3 DEF PoolInv

LEMMA WildInv ==
  ASSUME PoolTypeOK', wild' = TRUE, ret' # NULL,
         list'.start = NULL \/ NumBuffers(AllocationSize) < 2
  PROVE  PoolInv'
BY DEF PoolInv, NothingCreated, PoolSound, Usable, AllocateNeverNull, WildOnlyForAReason

\* mem_slab_alloc on the first slab of the list l, which is not full: it
\* returns a buffer that overlaps none the program holds.
LEMMA AllocFromFirstOK ==
  ASSUME PoolInv, NEW l, NEW all, PoolOK(l, all, balance', live),
         ~IsFull(all[l.start]), AllocFromFirst(l, all)
  PROVE  PoolInv' /\ Blocks!Alloc
<1> DEFINE s   == all[l.start]
           t   == SlabAlloc(s)
           now == [all EXCEPT ![l.start] = t]
<1>1. /\ all = [p \in DOMAIN all |-> all[p]] /\ SlabsOK(all)
      /\ DOMAIN all \subseteq Pages
      /\ live = BusyOf(all) /\ l.start \in DOMAIN all
      /\ balance' \in Nat \ {0}
      /\ \A p \in DOMAIN all : all[p].size = AllocationSize
      /\ IsList(l, DOMAIN all, DOMAIN all, balance')
  BY SoundTypes DEF PoolOK
<1>2. WellFormed(l.start, s) /\ HasFreeSlot(s)
  BY <1>1, NoFreeSlotOK DEF SlabsOK, IsFull
<1>3. /\ list' = l /\ slabs' = now
      /\ ret' = AllocatedPtr(s)
      /\ live' = live \cup ({ret'} \ {NULL})
      /\ wild' = ~(AllocTouches(s) \subseteq Slots(s))
  BY <1>2 DEF AllocFromFirst, AfterAlloc, AllocReturns
<1>4. /\ ret' \in Nat /\ ret' # NULL
      /\ ret' \notin BusyOf(all)
      /\ \A q \in BusyOf(all) :
           ret' + s.size <= q \/ q + all[PagePointer(q)].size <= ret'
      /\ SlabTypeOK(SlabAlloc(s)) /\ SlabAlloc(s).size = s.size
      /\ DOMAIN now = DOMAIN all
      /\ s.max_refs >= 2 => /\ SlabsOK(now)
                            /\ BusyOf(now) = BusyOf(all) \cup {ret'}
                            /\ AllocTouches(s) \subseteq Slots(s)
      /\ s.max_refs < 2 => ~(AllocTouches(s) \subseteq Slots(s))
  <2>1. l.start \in DOMAIN all /\ HasFreeSlot(all[l.start])
    BY <1>1, <1>2
  <2>2. LET ptr == AllocatedPtr(s) IN
          /\ ptr \in Nat /\ ptr # NULL
          /\ ptr \notin BusyOf(all)
          /\ \A q \in BusyOf(all) :
               ptr + s.size <= q \/ q + all[PagePointer(q)].size <= ptr
          /\ SlabTypeOK(t) /\ t.size = s.size
          /\ DOMAIN now = DOMAIN all
          /\ s.max_refs >= 2 => /\ SlabsOK(now)
                                /\ BusyOf(now) = BusyOf(all) \cup {ptr}
                                /\ AllocTouches(s) \subseteq Slots(s)
          /\ s.max_refs < 2 => ~(AllocTouches(s) \subseteq Slots(s))
    <3> HIDE DEF now, s, t
    <3> QED BY <1>1, <2>1, AllocOfOne DEF now, s, t
  <2> HIDE DEF now, s
  <2> QED BY <1>3, <2>2
<1>5. live' = live \cup {ret'}
  BY <1>3, <1>4
<1>6. s.size = AllocationSize /\ s.max_refs = NumBuffers(AllocationSize)
      /\ s.max_refs \in Nat
  BY <1>1, <1>2, NonExistantNat DEF WellFormed, SlabTypeOK
<1>7. Blocks!Alloc
  <2>1. ASSUME NEW q \in live PROVE ret' + AllocationSize <= q \/ q + AllocationSize <= ret'
    <3>1. PagePointer(q) \in DOMAIN all
      BY <1>1, BusyFacts
    <3> QED BY <1>1, <1>4, <1>6, <3>1
  <2> QED BY <1>4, <1>5, <2>1 DEF Blocks!Alloc, Blocks!Apart
<1>8. \A p \in DOMAIN all : now[p].size = AllocationSize /\ SlabTypeOK(now[p])
  <2>1. \A p \in DOMAIN all : SlabTypeOK(all[p])
    BY <1>1 DEF SlabsOK, WellFormed
  <2> QED BY <1>1, <1>4, <2>1
<1>9. PoolTypeOK'
  <2>1. /\ DOMAIN slabs' = DOMAIN all /\ Mapped' = DOMAIN all
        /\ \A p \in Mapped' : SlabTypeOK(slabs'[p])
    BY <1>3, <1>4, <1>8 DEF Mapped
  <2>2. LET Link == DOMAIN all \cup {NULL} IN
          list' \in [start : Link, end : Link,
                     next : [DOMAIN all -> Link], prev : [DOMAIN all -> Link]]
    BY <1>3, SoundTypes
  <2>3. live' \subseteq Nat /\ ret' \in Nat \cup {VOID} /\ wild' \in BOOLEAN
    BY <1>3, <1>4, <1>5, SoundTypes
  <2> QED BY <1>1, <2>1, <2>2, <2>3 DEF PoolTypeOK
<1>10. NothingCreated' /\ AllocateNeverNull'
  BY <1>1, <1>4 DEF NothingCreated, AllocateNeverNull
<1>11. CASE s.max_refs >= 2
  <2>1. wild' = FALSE
    BY <1>3, <1>4, <1>11
  <2>2. PoolOK(list', slabs', balance', live')
    <3>1. now = [p \in DOMAIN now |-> now[p]]
      OBVIOUS
    <3> HIDE DEF now, s
    <3> QED BY <1>1, <1>3, <1>4, <1>5, <1>8, <1>11, <3>1 DEF PoolOK
  <2>3. PoolSound' /\ WildOnlyForAReason'
    BY <2>1, <2>2 DEF PoolSound, WildOnlyForAReason
  <2> QED BY <1>7, <1>9, <1>10, <2>3 DEF PoolInv
<1>12. CASE ~(s.max_refs >= 2)
  <2>1. s.max_refs < 2 /\ NumBuffers(AllocationSize) < 2
    BY <1>6, <1>12
  <2>2. wild' = TRUE
    BY <1>3, <1>4, <2>1, Zenon
  <2>3. PoolSound' /\ WildOnlyForAReason'
    BY <2>1, <2>2 DEF PoolSound, WildOnlyForAReason, Usable
  <2> QED BY <1>7, <1>9, <1>10, <2>3 DEF PoolInv
<1> QED BY <1>7, <1>11, <1>12

-----------------------------------------------------------------------------
\* New slabs among those of a pool (or of one that has none yet): the slabs
\* and the buffers in use.
LEMMA GrownOK ==
  ASSUME NEW all, all = [p \in DOMAIN all |-> all[p]], DOMAIN all \subseteq Pages,
         SlabsOK(all), \A p \in DOMAIN all : all[p].size = AllocationSize,
         NumBuffers(AllocationSize) >= 1,
         NEW count \in Nat \ {0}, NEW base \in MappableIn(Pages \ DOMAIN all, count),
         NEW l, NEW n \in Nat \ {0},
         IsList(l, DOMAIN all \cup Region(base, count), DOMAIN all \cup Region(base, count), n)
  PROVE  PoolOK(l, SeveralCreated(all, base, count, AllocationSize), n, BusyOf(all))
<1> DEFINE new == Region(base, count)
           now == SeveralCreated(all, base, count, AllocationSize)
<1>1. /\ new \subseteq Pages \ DOMAIN all
      /\ \A p \in new : PageAligned(p)
      /\ new \cap DOMAIN all = {}
  BY PageFacts DEF MappableIn
<1>2. /\ DOMAIN now = DOMAIN all \cup new
      /\ now = [p \in DOMAIN now |-> now[p]]
      /\ \A p \in DOMAIN all : now[p] = all[p]
      /\ \A p \in new : now[p].size = AllocationSize
      /\ SlabsOK(now) /\ BusyOf(now) = BusyOf(all)
  <2>1. AllocationSize \in Nat \ {0}
    BY PageFacts
  <2>2. Created(all, now, new, AllocationSize)
    <3> HIDE DEF now, new
    <3> QED BY <1>1, <2>1, CreatedOK DEF now, new
  <2> HIDE DEF now, new
  <2> QED BY <2>2 DEF Created
<1> HIDE DEF now, new
<1>3. \A p \in DOMAIN now : now[p].size = AllocationSize
  BY <1>2
<1>4. IsList(l, DOMAIN now, DOMAIN now, n)
  BY <1>2 DEF new
<1>5. DOMAIN now \subseteq Pages
  BY <1>1, <1>2
<1> QED BY <1>2, <1>3, <1>4, <1>5 DEF PoolOK, now

LEMMA CreateInv ==
  ASSUME PoolInv, NEW base \in Pages, slab_pool_create(base)
  PROVE  PoolInv' /\ UNCHANGED <<live, ret>>
<1> DEFINE new == Region(base, StartSize)
           now == SeveralCreated(slabs, base, StartSize, AllocationSize)
<1>1. /\ Mapped = {} /\ live = {}
      /\ list.next = [p \in {} |-> 0]
      /\ ListTypeOK(list, {}, {})
  <2>1. /\ Mapped = {} /\ live = {}
        /\ list = [start |-> NULL, end |-> NULL, next |-> [p \in {} |-> 0],
                   prev |-> [p \in {} |-> 0]]
    BY DEF PoolInv, NothingCreated, slab_pool_create
  <2>2. [p \in {} |-> 0] \in [{} -> {NULL}]
    OBVIOUS
  <2> QED BY <2>1, <2>2 DEF ListTypeOK
<1>2. /\ StartSize \in Nat \ {0} /\ base \in Nat \ {NULL} /\ PageSize = PageMask
      /\ base \in MappableIn(Pages \ DOMAIN slabs, StartSize)
      /\ new \cap DOMAIN slabs = {} /\ new \subseteq Pages
      /\ balance' = StartSize /\ ~wild
      /\ slabs' = now
      /\ wild' = ~(PreparedTouches(slabs'[base]) \subseteq Slots(slabs'[base]))
  BY PageFacts DEF slab_pool_create, MappableIn, Mappable, Mapped
<1>3. /\ list' = [start |-> base, end |-> list'.end, next |-> list'.next, prev |-> list'.prev]
      /\ list'.start = base
      /\ IsList(list', new, new, StartSize)
  <2> DEFINE s == SeveralLinked(list, base, StartSize, NULL)
             m == [s EXCEPT !.end = LastFromList(s, base)]
  <2>1. Lasts(list.next, {}, list.next)
    BY <1>1 DEF Lasts
  <2>2. /\ IsList(m, {} \cup new, new, StartSize)
        /\ m.start = base
        /\ m = [start |-> base, end |-> m.end, next |-> m.next, prev |-> m.prev]
    <3>1. new \cap {} = {} /\ NULL \notin {}
      OBVIOUS
    <3> HIDE DEF m, new, s
    <3> QED BY <1>1, <1>2, <2>1, <3>1, NewListOK DEF m, new, s
  <2>3. list' = m
    BY DEF slab_pool_create
  <2> HIDE DEF m
  <2> QED BY <2>2, <2>3
<1>4. UNCHANGED <<live, ret>> /\ ret' \in Nat \cup {VOID} /\ ret' # NULL /\ live = {}
  BY <1>1 DEF slab_pool_create, PoolInv, PoolTypeOK, AllocateNeverNull
<1>5. AllocationSize \in Nat \ {0} /\ \A p \in new : PageAligned(p)
  BY <1>2, PageFacts
<1>6. Created(slabs, now, new, AllocationSize)
  <2> HIDE DEF now, new
  <2> QED BY <1>2, <1>5, CreatedOK DEF now, new
<1>7. /\ DOMAIN slabs = {} /\ slabs = [p \in DOMAIN slabs |-> slabs[p]]
      /\ SlabsOK(slabs) /\ BusyOf(slabs) = {}
  BY <1>1 DEF Mapped, SlabsOK, BusyOf, PoolInv, PoolTypeOK
<1> HIDE DEF now, new
<1>8. /\ base \in new /\ PageAligned(base)
      /\ now[base] = PreparedSlab(base, AllocationSize)
  BY <1>2, <1>3, <1>5, <1>6, ListShape, PageFacts DEF Created, Shape
<1>9. CASE NumBuffers(AllocationSize) >= 1
  <2>1. wild' = FALSE
    BY <1>2, <1>5, <1>8, <1>9, PreparedOK
  <2>2. DOMAIN slabs \cup new = new
    BY <1>7
  <2>3. PoolOK(list', now, StartSize, BusyOf(slabs))
    BY <1>2, <1>3, <1>5, <1>7, <1>9, <2>2, GrownOK DEF now, new
  <2> QED BY <1>2, <1>4, <1>7, <2>1, <2>3, SoundInv
<1>10. CASE ~(NumBuffers(AllocationSize) >= 1)
  <2>1. Slots(now[base]) = {}
    <3>1. now[base].max_refs = NumBuffers(AllocationSize) /\ now[base].max_refs \in Nat
      BY <1>8, BuffersInAPage
    <3>2. ~(now[base].max_refs >= 1)
      BY <1>10, <3>1, Zenon
    <3> QED BY <3>1, <3>2 DEF Slots
  <2>2. ~(PreparedTouches(slabs'[base]) \subseteq Slots(slabs'[base]))
    <3>1. slabs'[base] = now[base]
      BY <1>2
    <3>2. now[base].freelist_start_index \in PreparedTouches(now[base])
      BY DEF PreparedTouches
    <3> QED BY <2>1, <3>1, <3>2
  <2>3. wild' = TRUE /\ NumBuffers(AllocationSize) < 2
    <3>1. now[base].max_refs = NumBuffers(AllocationSize) /\ now[base].max_refs \in Nat
      BY <1>8, BuffersInAPage
    <3>2. ~(now[base].max_refs >= 1)
      BY <1>10, <3>1, Zenon
    <3>3. now[base].max_refs < 2
      BY <3>1, <3>2
    <3> QED BY <1>2, <2>2, <3>1, <3>3, Zenon
  <2>4. PoolTypeOK'
    <3>1. Mapped' = new /\ new \subseteq Pages /\ \A p \in Mapped' : SlabTypeOK(slabs'[p])
      BY <1>2, <1>6, <1>7 DEF Mapped, Created
    <3> QED BY <1>2, <1>3, <1>4, <2>3, <3>1 DEF PoolTypeOK, IsList, ListTypeOK
  <2> QED BY <1>4, <1>5, <1>10, <2>3, <2>4, WildInv
<1> QED BY <1>4, <1>9, <1>10

-----------------------------------------------------------------------------
\* What a usable pool starts a call from.
LEMMA UsableFacts ==
  ASSUME PoolInv, Usable
  PROVE  /\ PoolOK(list, slabs, balance, live)
         /\ balance \in Nat \ {0}
         /\ NumBuffers(AllocationSize) >= 1
<1>1. PoolOK(list, slabs, balance, live)
  BY DEF PoolInv, PoolSound
<1>2. list.start \in DOMAIN slabs
  BY <1>1, SoundTypes
<1>3. slabs[list.start].max_refs >= 1
      /\ slabs[list.start].max_refs = NumBuffers(slabs[list.start].size)
      /\ slabs[list.start].size = AllocationSize
  BY <1>1, <1>2 DEF PoolOK, SlabsOK, WellFormed
<1>4. NumBuffers(AllocationSize) >= 1
  BY <1>3, Zenon
<1> QED BY <1>1, <1>4 DEF PoolOK

\* A full slab moves to the end.
LEMMA MovedOK ==
  ASSUME NEW l, NEW all, NEW count, NEW held, PoolOK(l, all, count, held)
  PROVE  PoolOK(SecondFirst(l), all, count, held)
<1>1. NULL \notin DOMAIN all /\ IsList(l, DOMAIN all, DOMAIN all, count)
  BY PageFacts DEF PoolOK
<1>2. IsList(SecondFirst(l), DOMAIN all, DOMAIN all, count)
  BY <1>1, MoveToEndOK
<1> QED BY <1>2 DEF PoolOK

LEMMA AllocateInv ==
  ASSUME PoolInv, slab_pool_allocate
  PROVE  PoolInv' /\ Blocks!Alloc
<1>1. PoolOK(list, slabs, balance', live)
  BY UsableFacts DEF slab_pool_allocate
<1> QED BY <1>1, AllocFromFirstOK DEF slab_pool_allocate

LEMMA AllocateSecondInv ==
  ASSUME PoolInv, slab_pool_allocate_second
  PROVE  PoolInv' /\ Blocks!Alloc
<1>1. PoolOK(SecondFirst(list), slabs, balance', live)
  BY UsableFacts, MovedOK DEF slab_pool_allocate_second
<1> QED BY <1>1, AllocFromFirstOK DEF slab_pool_allocate_second

LEMMA AllocateGrowInv ==
  ASSUME PoolInv, NEW base \in Pages, slab_pool_allocate_grow(base)
  PROVE  PoolInv' /\ Blocks!Alloc
<1> DEFINE count == heuristic_decision_grow_count
           new   == Region(base, count)
           third == ThirdFirst(list)
           l     == SeveralLinked(third, base, count, third.start)
           all   == SeveralCreated(slabs, base, count, AllocationSize)
<1>1. /\ count \in Nat \ {0} /\ base \in Nat \ {NULL} /\ PageSize = PageMask
      /\ base \in MappableIn(Pages \ DOMAIN slabs, count)
      /\ new \cap DOMAIN slabs = {} /\ NULL \notin DOMAIN slabs
      /\ balance' = balance + count /\ balance \in Nat \ {0}
      /\ NumBuffers(AllocationSize) >= 1
      /\ PoolOK(list, slabs, balance, live)
  <2>1. Usable /\ PoolOK(list, slabs, balance, live)
    BY UsableFacts DEF slab_pool_allocate_grow
  <2>2. NULL \notin DOMAIN slabs
    BY <2>1, PageFacts DEF PoolOK
  <2> QED BY <2>1, <2>2, UsableFacts, PageFacts
          DEF slab_pool_allocate_grow, MappableIn, Mappable, Mapped
<1> HIDE DEF count
<1>2. PoolOK(third, slabs, balance, live)
  BY <1>1, MovedOK DEF ThirdFirst, SecondFirst
<1> HIDE DEF third
<1>3. IsList(l, DOMAIN slabs \cup new, DOMAIN slabs \cup new, count + balance) /\ l.start = base
  <2>1. IsList(third, DOMAIN slabs, DOMAIN slabs, balance)
    BY <1>2 DEF PoolOK
  <2> QED BY <1>1, <2>1, SeveralLinkedOK
<1> HIDE DEF l
<1>4. PoolOK(l, all, balance', live)
  <2>1. /\ slabs = [p \in DOMAIN slabs |-> slabs[p]] /\ DOMAIN slabs \subseteq Pages
        /\ SlabsOK(slabs) /\ \A p \in DOMAIN slabs : slabs[p].size = AllocationSize
        /\ live = BusyOf(slabs)
    BY <1>2 DEF PoolOK
  <2>2. balance' = count + balance /\ balance' \in Nat \ {0}
    BY <1>1
  <2>3. PoolOK(l, all, count + balance, BusyOf(slabs))
    <3> HIDE DEF new, all
    <3> QED BY <1>1, <1>3, <2>1, <2>2, GrownOK DEF new, all
  <2> QED BY <2>1, <2>2, <2>3
<1>5. ~IsFull(all[l.start])
  <2>1. base \in new /\ new \subseteq Pages
    <3>1. NewPage(base, 1) \in new /\ NewPage(base, 1) = base
      BY <1>1, RegionPages
    <3> QED BY <1>1, <3>1 DEF MappableIn
  <2>2. all[base] = PreparedSlab(base, AllocationSize)
    BY <1>1, <2>1 DEF SeveralCreated
  <2>3. /\ all[base].max_refs = NumBuffers(AllocationSize) /\ all[base].max_refs \in Nat
        /\ all[base].ref_count = 0
    BY <2>1, <2>2, BuffersInAPage DEF PreparedSlab
  <2>4. all[base].max_refs >= 1
    BY <1>1, <2>3, Zenon
  <2> QED BY <1>3, <2>3, <2>4 DEF IsFull
<1>6. AllocFromFirst(l, all)
  BY DEF slab_pool_allocate_grow, l, third, count
<1> HIDE DEF all
<1> QED BY <1>4, <1>5, <1>6, AllocFromFirstOK

LEMMA AllocateFailsInv ==
  ASSUME PoolInv, slab_pool_allocate_fails
  PROVE  PoolInv' /\ UNCHANGED <<live, ret>>
<1> DEFINE third == ThirdFirst(list)
<1>1. /\ PoolOK(list, slabs, balance, live) /\ balance \in Nat
      /\ heuristic_decision_grow_count \in Nat
  BY UsableFacts, PageFacts DEF slab_pool_allocate_fails
<1>2. PoolOK(third, slabs, balance, live)
  BY <1>1, MovedOK DEF ThirdFirst, SecondFirst
<1>3. LET Link == Mapped \cup {NULL} IN
      third \in [start : Link, end : Link, next : [Mapped -> Link], prev : [Mapped -> Link]]
  BY <1>2, SoundTypes DEF Mapped
<1> HIDE DEF third
<1>4. LET Link == Mapped \cup {NULL} IN
      /\ list' \in [start : Link, end : Link, next : [Mapped -> Link], prev : [Mapped -> Link]]
      /\ list'.start = NULL
  BY <1>3 DEF slab_pool_allocate_fails, third
<1>5. PoolTypeOK'
  BY <1>1, <1>4 DEF PoolInv, PoolTypeOK, slab_pool_allocate_fails, Mapped
<1> QED BY <1>4, <1>5, WildInv DEF slab_pool_allocate_fails, PoolInv, AllocateNeverNull

-----------------------------------------------------------------------------
\* What slab_pool_deallocate does before the heuristic is asked.
LEMMA GivenBackOK ==
  ASSUME PoolInv, NEW ptr \in live, GiveBack(ptr)
  PROVE  LET page == SlabOf(ptr)
             l    == MoveToStart(list, page)
             now  == [slabs EXCEPT ![page] = Given(ptr)]
             rest == [p \in Mapped \ {page} |-> slabs[p]]
         IN
         /\ page \in DOMAIN slabs
         /\ PoolOK(l, now, balance, live')
         /\ l.start = page /\ (IsLonely(l, page) <=> balance = 1)
         /\ wild' = FALSE
         /\ Given(ptr).ref_count = 0 => SlabsOK(rest) /\ live' = BusyOf(rest)
<1> DEFINE page == SlabOf(ptr)
           s    == slabs[page]
           slot == SlotOf(s, ptr)
           l    == MoveToStart(list, page)
           now  == [slabs EXCEPT ![page] = Given(ptr)]
           rest == [p \in Mapped \ {page} |-> slabs[p]]
<1>1. PoolOK(list, slabs, balance, live)
  BY UsableFacts DEF GiveBack
<1>2. /\ slabs = [p \in DOMAIN slabs |-> slabs[p]] /\ SlabsOK(slabs)
      /\ DOMAIN slabs \subseteq Pages /\ NULL \notin DOMAIN slabs
      /\ live = BusyOf(slabs) /\ ptr \in BusyOf(slabs)
      /\ balance \in Nat \ {0} /\ IsList(list, DOMAIN slabs, DOMAIN slabs, balance)
      /\ \A p \in DOMAIN slabs : slabs[p].size = AllocationSize
  BY <1>1, PageFacts DEF PoolOK
<1>3. /\ page \in DOMAIN slabs
      /\ Given(ptr).size = s.size
      /\ SlabsOK(now) /\ BusyOf(now) = BusyOf(slabs) \ {ptr}
      /\ DeallocTouches(s, slot) \subseteq Slots(s)
      /\ Given(ptr).ref_count = 0 => SlabsOK(rest) /\ BusyOf(rest) = BusyOf(slabs) \ {ptr}
  BY <1>2, DeallocOfOne DEF SlabOf, Given, Mapped
<1>4. /\ IsList(l, DOMAIN slabs, DOMAIN slabs, balance)
      /\ l.start = page /\ (IsLonely(l, page) <=> balance = 1)
  <2> HIDE DEF page
  <2> QED BY <1>2, <1>3, MoveToStartOK
<1>5. live' = live \ {ptr} /\ wild' = FALSE
  BY <1>3 DEF GiveBack
<1> HIDE DEF page, l, s, slot
<1>6. /\ DOMAIN now = DOMAIN slabs
      /\ now = [p \in DOMAIN now |-> now[p]]
      /\ \A p \in DOMAIN now : now[p].size = AllocationSize
  BY <1>2, <1>3 DEF s
<1> HIDE DEF now, rest
<1>7. PoolOK(l, now, balance, live')
  BY <1>2, <1>3, <1>4, <1>5, <1>6 DEF PoolOK
<1> QED BY <1>2, <1>3, <1>4, <1>5, <1>7 DEF page, l, now, rest

LEMMA DeallocateInv ==
  ASSUME PoolInv, NEW ptr \in live, slab_pool_deallocate(ptr)
  PROVE  PoolInv' /\ Blocks!Dealloc
<1>1. /\ GiveBack(ptr) /\ balance' = balance
      /\ list' = MoveToStart(list, SlabOf(ptr))
      /\ slabs' = [slabs EXCEPT ![SlabOf(ptr)] = Given(ptr)]
  BY DEF slab_pool_deallocate
<1>2. PoolOK(list', slabs', balance', live') /\ wild' = FALSE
  BY <1>1, GivenBackOK
<1>3. ret' = VOID /\ live' = live \ {ptr} /\ VOID # NULL
  BY <1>1 DEF GiveBack, VOID, NULL
<1> QED BY <1>2, <1>3, SoundInv DEF Blocks!Dealloc

LEMMA DeallocateUnmapInv ==
  ASSUME PoolInv, NEW ptr \in live, slab_pool_deallocate_unmap(ptr)
  PROVE  PoolInv' /\ Blocks!Dealloc
<1> DEFINE page == SlabOf(ptr)
           l    == MoveToStart(list, page)
           now  == [slabs EXCEPT ![page] = Given(ptr)]
           rest == [p \in Mapped \ {page} |-> slabs[p]]
<1>1. /\ GiveBack(ptr) /\ balance' = balance - 1
      /\ list' = Unlinked(l, page) /\ slabs' = rest
      /\ Given(ptr).ref_count = 0 /\ ~IsLonely(l, page)
  BY DEF slab_pool_deallocate_unmap, Unmaps, BalanceWithout
<1>2. /\ page \in DOMAIN slabs
      /\ PoolOK(l, now, balance, live')
      /\ l.start = page /\ balance # 1
      /\ wild' = FALSE
      /\ SlabsOK(rest) /\ live' = BusyOf(rest)
  BY <1>1, GivenBackOK
<1>3. /\ DOMAIN now = DOMAIN slabs /\ DOMAIN slabs \subseteq Pages
      /\ NULL \notin DOMAIN slabs
      /\ balance \in Nat \ {0} /\ balance - 1 \in Nat \ {0}
      /\ IsList(l, DOMAIN slabs, DOMAIN slabs, balance)
      /\ \A p \in DOMAIN slabs : slabs[p].size = AllocationSize
  <2>1. PoolOK(list, slabs, balance, live)
    BY <1>1, UsableFacts DEF GiveBack
  <2>2. DOMAIN now = DOMAIN slabs
    BY <2>1 DEF PoolOK
  <2>3. IsList(l, DOMAIN slabs, DOMAIN slabs, balance)
    BY <1>2, <2>2 DEF PoolOK
  <2> QED BY <1>2, <2>1, <2>2, <2>3, PageFacts DEF PoolOK
<1>4. IsList(Unlinked(l, page), DOMAIN slabs \ {page}, DOMAIN slabs \ {page}, balance - 1)
  <2> HIDE DEF l, page
  <2> QED BY <1>2, <1>3, UnlinkedOK
<1>5. PoolOK(list', slabs', balance', live')
  <2>1. /\ DOMAIN rest = DOMAIN slabs \ {page} /\ rest = [p \in DOMAIN rest |-> rest[p]]
        /\ \A p \in DOMAIN rest : rest[p].size = AllocationSize
    BY <1>3 DEF Mapped
  <2> HIDE DEF l, page, rest, now
  <2> QED BY <1>1, <1>2, <1>3, <1>4, <2>1 DEF PoolOK
<1>6. ret' = VOID /\ live' = live \ {ptr} /\ VOID # NULL
  BY <1>1 DEF GiveBack, VOID, NULL
<1> QED BY <1>2, <1>5, <1>6, SoundInv DEF Blocks!Dealloc

-----------------------------------------------------------------------------
LEMMA CreateFailsInv ==
  ASSUME PoolInv, slab_pool_create_fails
  PROVE  PoolInv' /\ UNCHANGED <<live, ret>>
<1>1. /\ UNCHANGED <<slabs, list, balance, live, ret>> /\ wild' = TRUE
      /\ list.start = NULL /\ PoolTypeOK /\ ret # NULL
  BY DEF slab_pool_create_fails, PoolInv, NothingCreated, AllocateNeverNull
<1>2. PoolTypeOK' /\ ret' # NULL /\ list'.start = NULL
  BY <1>1 DEF PoolTypeOK, Mapped
<1> QED BY <1>1, <1>2, WildInv

\* Every step keeps the invariant, and is one of an allocator or changes
\* nothing the caller sees.
LEMMA NextInv ==
  ASSUME PoolInv, [Next]_vars
  PROVE  PoolInv' /\ [Blocks!Next]_Blocks!vars
<1>1. ASSUME NEW base \in Pages, slab_pool_create(base)
      PROVE  PoolInv' /\ UNCHANGED <<live, ret>>
  BY <1>1, CreateInv
<1>2. CASE slab_pool_create_fails
  BY <1>2, CreateFailsInv DEF Blocks!vars
<1>3. CASE slab_pool_allocate
  BY <1>3, AllocateInv DEF Blocks!Next
<1>4. CASE slab_pool_allocate_second
  BY <1>4, AllocateSecondInv DEF Blocks!Next
<1>5. ASSUME NEW base \in Pages, slab_pool_allocate_grow(base)
      PROVE  PoolInv' /\ Blocks!Alloc
  BY <1>5, AllocateGrowInv
<1>6. CASE slab_pool_allocate_fails
  BY <1>6, AllocateFailsInv DEF Blocks!vars
<1>7. ASSUME NEW ptr \in live, slab_pool_deallocate(ptr)
      PROVE  PoolInv' /\ Blocks!Dealloc
  BY <1>7, DeallocateInv
<1>8. ASSUME NEW ptr \in live, slab_pool_deallocate_unmap(ptr)
      PROVE  PoolInv' /\ Blocks!Dealloc
  BY <1>8, DeallocateUnmapInv
<1>9. CASE UNCHANGED vars
  BY <1>9 DEF vars, Blocks!vars, PoolInv, PoolTypeOK, NothingCreated, PoolSound,
              AllocateNeverNull, WildOnlyForAReason, Usable, Mapped, PoolOK
<1> QED BY <1>1, <1>2, <1>3, <1>4, <1>5, <1>6, <1>7, <1>8, <1>9
        DEF Next, Blocks!Next, Blocks!vars

\* However a program uses a pool, and whatever mmap and the heuristic decide
\* (slab_pool.c, heuristic.c): the slabs are one list, their buffers in use
\* are the program's.
THEOREM PoolInvariance == Spec => []PoolInv
<1>1. PoolInv /\ [Next]_vars => PoolInv'
  BY NextInv
<1> QED BY InitInv, <1>1, PTL DEF Spec

THEOREM PoolTypeCorrect == Spec => []PoolTypeOK
<1>1. PoolInv => PoolTypeOK
  BY DEF PoolInv
<1> QED BY PoolInvariance, <1>1, PTL

\* move_slab_to_start_of_the_list, move_slab_to_end_of_the_list, the grown
\* and the unlinked list (slab_pool.c:22-118): there is always one doubly
\* linked list of all slabs from list_start to list_end.
THEOREM PoolListIntact == Spec => []ListIntact
<1>1. ASSUME PoolInv PROVE ListIntact
  <2>1. ASSUME Usable
        PROVE  LET n == Cardinality(Mapped) IN
               /\ n > 0
               /\ \E order \in [1..n -> Mapped] :
                    /\ Linked(order, n, Mapped, list.next, list.prev, NULL)
                    /\ order[1] = list.start
                    /\ order[n] = list.end
    <3>1. IsList(list, Mapped, Mapped, balance)
      BY <1>1, <2>1, UsableFacts DEF PoolOK, Mapped
    <3>2. Cardinality(Mapped) = balance
      BY <3>1, ListCardinality
    <3> QED BY <3>1, <3>2 DEF IsList, ListOrder
  <2> QED BY <2>1 DEF ListIntact
<1> QED BY PoolInvariance, <1>1, PTL

\* slab_pool_deallocate unmaps only slabs without a buffer in use, and finds
\* the slab of every buffer; slab_pool_allocate hands out none twice.
THEOREM PoolLiveBusy == Spec => []PoolLiveAreBusy
<1>1. ASSUME PoolInv PROVE PoolLiveAreBusy
  <2>1. ASSUME Usable
        PROVE  /\ \A p \in Mapped : WellFormed(p, slabs[p])
               /\ live = UNION {BusyPtrs(slabs[p]) : p \in Mapped}
               /\ \A ptr \in live : ptr \in BusyPtrs(slabs[PagePointer(ptr)])
    <3>1. SlabsOK(slabs) /\ live = BusyOf(slabs)
      BY <1>1, <2>1, UsableFacts DEF PoolOK
    <3> QED BY <3>1, BusyFacts DEF SlabsOK, BusyOf, Mapped
  <2> QED BY <2>1 DEF PoolLiveAreBusy
<1> QED BY PoolInvariance, <1>1, PTL

\* The counts of the heuristic (heuristic.c) say how many slabs are mapped.
THEOREM PoolBalance == Spec => []BalanceCountsSlabs
<1>1. ASSUME PoolInv PROVE BalanceCountsSlabs
  <2>1. ASSUME Usable PROVE balance = Cardinality(Mapped)
    <3>1. IsList(list, Mapped, Mapped, balance)
      BY <1>1, <2>1, UsableFacts DEF PoolOK, Mapped
    <3> QED BY <3>1, ListCardinality
  <2> QED BY <2>1 DEF BalanceCountsSlabs
<1> QED BY PoolInvariance, <1>1, PTL

\* The assertion result != NULL in slab_pool_allocate.
THEOREM PoolNeverNull == Spec => []AllocateNeverNull
<1>1. PoolInv => AllocateNeverNull
  BY DEF PoolInv
<1> QED BY PoolInvariance, <1>1, PTL

\* When a page has room for two buffers, as it has for those of every pool
\* smalloc makes, only a failing mmap makes a pool wild.
THEOREM PoolFollowsNoNull ==
  ASSUME NumBuffers(AllocationSize) >= 2
  PROVE  Spec => []WildOnlyWithoutMemory
<1>1. ~(NumBuffers(AllocationSize) < 2)
  <2> DEFINE n == NumBuffers(AllocationSize)
  <2>1. /\ n \in 0..4032 /\ AllocationSize * n \in Nat /\ n <= AllocationSize * n
        /\ 5 * (AllocationSize * n) <= PageSize - HeaderSize
    BY PageFacts, NumBuffersFit
  <2>2. n >= 2
    OBVIOUS
  <2> HIDE DEF n
  <2>3. ~(n < 2)
    BY <2>1, <2>2
  <2> QED BY <2>3, Zenon DEF n
<1>2. PoolInv => WildOnlyWithoutMemory
  BY <1>1 DEF PoolInv, WildOnlyForAReason, WildOnlyWithoutMemory
<1> QED BY PoolInvariance, <1>2, PTL

\* A pool is an allocator of blocks: what slab_pool_allocate returns overlaps
\* no buffer in use and is not NULL, and slab_pool_deallocate takes back the
\* one buffer it is given; growing, shrinking and reordering do not show.
THEOREM PoolImplementsBlockAllocator == Spec => ImplementsBlockAllocator
<1>1. Init => Blocks!Init
  BY DEF Init, Blocks!Init
<1>2. PoolInv /\ [Next]_vars => [Blocks!Next]_Blocks!vars
  BY NextInv
<1> QED BY PoolInvariance, <1>1, <1>2, PTL DEF Spec, ImplementsBlockAllocator, Blocks!Spec
=============================================================================
