----------------------------- MODULE SlabProofs -----------------------------
(***************************************************************************)
(* The properties of Slab, for every page size, page address and set of    *)
(* buffer sizes: the invariants, and that a slab implements SlotAllocator. *)
(***************************************************************************)
EXTENDS Slab, SlabListProofs

\* The header agrees with the page and the program holds only addresses of
\* buffers, also on a slab that has gone wild.
Placed ==
  mapped => /\ slab.size \in Nat \ {0}
            /\ slab.max_refs = NumBuffers(slab.size)
            /\ slab.allocable_buffer = AllocableBuffer(Page, slab.size)
            /\ live \subseteq PtrsOf(slab, Slots(slab))

NothingUnmapped == ~mapped => slab = Unmapped /\ live = {}

Consistent ==
  Usable => /\ WellFormed(Page, slab)
            /\ live = BusyPtrs(slab)
            /\ IsFiniteSet(live)
            /\ Cardinality(live) = slab.ref_count

NullWithoutFreeSlot == ret = NULL => Usable /\ ~HasFreeSlot(slab)

\* The inductive invariant.
IInv ==
  /\ TypeOK
  /\ Placed
  /\ NothingUnmapped
  /\ Consistent
  /\ NullWithoutFreeSlot
  /\ WildOnlyBelowTwoBuffers

-----------------------------------------------------------------------------
\* In the typed slab every slot is busy or free.
LEMMA FreeSlots ==
  ASSUME NEW s, SlabTypeOK(s)
  PROVE  FreePtrs(s) = PtrsOf(s, Slots(s) \ BusySlots(s))
<1>1. s.is_free \in [Slots(s) -> {SLOT_FREE, SLOT_BUSY}]
  BY DEF SlabTypeOK
<1>2. {i \in Slots(s) : s.is_free[i] = SLOT_FREE} = Slots(s) \ BusySlots(s)
  BY <1>1 DEF BusySlots, SLOT_FREE, SLOT_BUSY
<1> QED BY <1>2 DEF FreePtrs
-----------------------------------------------------------------------------
LEMMA InitInv == Init => IInv
<1> SUFFICES ASSUME Init PROVE IInv
  OBVIOUS
<1>1. SlabTypeOK(Unmapped)
  <2>1. Slots(Unmapped) = {}
    BY DEF Slots, Unmapped
  <2>2. 0 \in 0..NonExistant
    BY NonExistantNat
  <2> QED BY <2>1, <2>2 DEF SlabTypeOK, Unmapped, NULL
<1>2. TypeOK
  BY <1>1 DEF Init, TypeOK
<1>3. Placed /\ NothingUnmapped /\ Consistent
  BY DEF Init, Placed, NothingUnmapped, Consistent, Usable
<1>4. NullWithoutFreeSlot /\ WildOnlyBelowTwoBuffers
  BY DEF Init, NullWithoutFreeSlot, WildOnlyBelowTwoBuffers, VOID, NULL
<1> QED BY <1>2, <1>3, <1>4 DEF IInv

\* A new slab is well formed, or wild when its size leaves no room for a
\* buffer.
LEMMA CreateInv ==
  ASSUME IInv, NEW size \in Sizes, mem_slab_create(size)
  PROVE  IInv'
<1>1. /\ ~mapped /\ ~wild /\ mapped' = TRUE /\ slab' = PreparedSlab(Page, size)
      /\ wild' = ~(PreparedTouches(slab') \subseteq Slots(slab'))
      /\ ret' = VOID /\ live' = {}
  BY DEF IInv, NothingUnmapped, mem_slab_create
<1>2. size \in Nat \ {0} /\ PageAligned(Page)
  BY SizesAssumption, PageAssumption
<1>3. /\ SlabTypeOK(slab') /\ slab'.size = size
      /\ slab'.max_refs = NumBuffers(size) /\ NumBuffers(size) \in Nat
      /\ slab'.allocable_buffer = AllocableBuffer(Page, size)
      /\ slab'.ref_count = 0
  BY <1>1, <1>2, PreparedTypeOK, ZenonT(60)
<1>4. TypeOK' /\ Placed' /\ NothingUnmapped' /\ NullWithoutFreeSlot'
  BY <1>1, <1>2, <1>3
  DEF TypeOK, Placed, NothingUnmapped, NullWithoutFreeSlot, VOID, NULL
<1>5. NumBuffers(size) >= 1 =>
        WellFormed(Page, slab') /\ BusySlots(slab') = {} /\ wild' = FALSE
  BY <1>1, <1>2, PreparedOK
<1>6. ~(NumBuffers(size) >= 1) => wild' = TRUE
  <2> SUFFICES ASSUME ~(NumBuffers(size) >= 1) PROVE wild' = TRUE
    OBVIOUS
  <2>1. Slots(slab') = {}
    BY <1>3 DEF Slots
  <2> QED BY <1>1, <2>1 DEF PreparedTouches
<1>7. Consistent' /\ WildOnlyBelowTwoBuffers'
  <2>1. CASE NumBuffers(size) >= 1
    <3>1. BusyPtrs(slab') = {}
      BY <1>5, <2>1 DEF BusyPtrs, PtrsOf
    <3> QED BY <1>1, <1>3, <1>5, <2>1, <3>1, FS_EmptySet
            DEF Consistent, WildOnlyBelowTwoBuffers
  <2>2. CASE ~(NumBuffers(size) >= 1)
    BY <1>3, <1>6, <2>2 DEF Consistent, Usable, WildOnlyBelowTwoBuffers
  <2> QED BY <2>1, <2>2
<1> QED BY <1>4, <1>7 DEF IInv

\* What a successful mem_slab_alloc does to slab and live.
LEMMA AllocStep ==
  ASSUME IInv, mem_slab_alloc
  PROVE  LET i == slab.freelist_start_index IN
         /\ i \in Slots(slab) \ BusySlots(slab)
         /\ ret' = BufferPtr(slab.allocable_buffer, slab.size, i)
         /\ ret' \in Nat /\ ret' # NULL /\ ret' \notin live
         /\ live' = live \cup {ret'}
         /\ SlabTypeOK(slab') /\ Slots(slab') = Slots(slab)
         /\ slab'.size = slab.size /\ slab'.max_refs = slab.max_refs
         /\ slab'.allocable_buffer = slab.allocable_buffer
         /\ slab'.ref_count = slab.ref_count + 1
         /\ BusySlots(slab') = BusySlots(slab) \cup {i}
         /\ slab.max_refs >= 2 => WellFormed(Page, slab') /\ wild' = FALSE
         /\ ~(slab.max_refs >= 2) => wild' = TRUE
<1> DEFINE i == slab.freelist_start_index
<1>1. /\ Usable /\ mapped /\ HasFreeSlot(slab) /\ slab' = SlabAlloc(slab)
      /\ ret' = BufferPtr(slab.allocable_buffer, slab.size, i)
      /\ live' = live \cup {ret'}
      /\ wild' = ~(AllocTouches(slab) \subseteq Slots(slab))
  BY DEF mem_slab_alloc, AllocatedPtr, Usable
<1>2. /\ WellFormed(Page, slab) /\ live = PtrsOf(slab, BusySlots(slab))
      /\ slab.size \in Nat \ {0} /\ slab.max_refs = NumBuffers(slab.size)
      /\ slab.allocable_buffer = AllocableBuffer(Page, slab.size)
      /\ SlabTypeOK(slab) /\ slab.max_refs \in Nat
  BY <1>1, NonExistantNat
  DEF IInv, Consistent, Placed, BusyPtrs, WellFormed, SlabTypeOK
<1>3. /\ i \in Slots(slab) \ BusySlots(slab)
      /\ slab.max_refs >= 2 => WellFormed(Page, slab') /\ wild' = FALSE
      /\ ~(slab.max_refs >= 2) => wild' = TRUE
  <2> DEFINE two == slab.max_refs >= 2
  <2>1. CASE two
    <3>1. /\ WellFormed(Page, slab') /\ AllocTouches(slab) \subseteq Slots(slab)
          /\ i \in Slots(slab) \ BusySlots(slab)
      BY <1>1, <1>2, <2>1, AllocOK
    <3>2. wild' = FALSE
      BY <1>1, <3>1, Zenon
    <3> QED BY <2>1, <3>1, <3>2, Zenon
  <2>2. CASE ~two
    <3>1. ~(AllocTouches(slab) \subseteq Slots(slab)) /\ i \in Slots(slab)
      <4>1. slab.max_refs < 2
        BY <1>2, <2>2
      <4> QED BY <1>1, <1>2, <4>1, AllocSingle
    <3>2. i \notin BusySlots(slab)
      BY <1>1 DEF HasFreeSlot, BusySlots, SLOT_FREE, SLOT_BUSY
    <3>3. wild' = TRUE
      BY <1>1, <3>1, Zenon
    <3> QED BY <2>2, <3>1, <3>2, <3>3, Zenon
  <2> QED BY <2>1, <2>2
<1>4. /\ SlabTypeOK(slab') /\ Slots(slab') = Slots(slab)
      /\ slab'.size = slab.size /\ slab'.max_refs = slab.max_refs
      /\ slab'.allocable_buffer = slab.allocable_buffer
      /\ slab'.ref_count = slab.ref_count + 1
  BY <1>1, <1>2, <1>3, AllocTypeOK
<1>5. BusySlots(slab') = BusySlots(slab) \cup {i}
  <2>1. slab'.is_free = [slab.is_free EXCEPT ![i] = SLOT_BUSY]
    BY <1>1, <1>2 DEF SlabAlloc, SlabTypeOK
  <2>2. slab.is_free \in [Slots(slab) -> {SLOT_FREE, SLOT_BUSY}]
    BY <1>2 DEF SlabTypeOK
  <2> QED BY <1>3, <1>4, <2>1, <2>2 DEF BusySlots
<1>6. ret' \in Nat /\ ret' # NULL
  BY <1>1, <1>2, <1>3, PageAssumption, SlotPtr
<1>7. ret' \notin live
  <2>1. BusySlots(slab) \in SUBSET Slots(slab)
    BY DEF BusySlots
  <2> QED BY <1>1, <1>2, <1>3, <2>1, PageAssumption, PtrsOfChange
<1> QED BY <1>1, <1>3, <1>4, <1>5, <1>6, <1>7

LEMMA AllocInv ==
  ASSUME IInv, mem_slab_alloc
  PROVE  IInv'
<1> DEFINE i == slab.freelist_start_index
<1>1. /\ i \in Slots(slab) \ BusySlots(slab)
      /\ ret' = BufferPtr(slab.allocable_buffer, slab.size, i)
      /\ ret' \in Nat /\ ret' # NULL /\ ret' \notin live
      /\ live' = live \cup {ret'}
      /\ SlabTypeOK(slab') /\ Slots(slab') = Slots(slab)
      /\ slab'.size = slab.size /\ slab'.max_refs = slab.max_refs
      /\ slab'.allocable_buffer = slab.allocable_buffer
      /\ slab'.ref_count = slab.ref_count + 1
      /\ BusySlots(slab') = BusySlots(slab) \cup {i}
      /\ slab.max_refs >= 2 => WellFormed(Page, slab') /\ wild' = FALSE
      /\ ~(slab.max_refs >= 2) => wild' = TRUE
  BY AllocStep
<1>2. Usable /\ mapped /\ mapped' = TRUE
  BY DEF mem_slab_alloc, Usable
<1>3. /\ WellFormed(Page, slab) /\ live = PtrsOf(slab, BusySlots(slab))
      /\ IsFiniteSet(live) /\ Cardinality(live) = slab.ref_count
      /\ slab.size \in Nat \ {0} /\ slab.max_refs = NumBuffers(slab.size)
      /\ slab.allocable_buffer = AllocableBuffer(Page, slab.size)
      /\ live \subseteq Nat /\ slab.max_refs \in Nat
  BY <1>2, NonExistantNat
  DEF IInv, TypeOK, Consistent, Placed, BusyPtrs, WellFormed, SlabTypeOK
<1>4. BusySlots(slab) \in SUBSET Slots(slab) /\ Slots(slab) \in SUBSET Slots(slab)
  BY DEF BusySlots
<1>5. live' = PtrsOf(slab', BusySlots(slab'))
  <2>1. i \in Slots(slab)
    BY <1>1
  <2> HIDE DEF i
  <2>2. PtrsOf(slab', BusySlots(slab) \cup {i}) =
          PtrsOf(slab, BusySlots(slab)) \cup {BufferPtr(slab.allocable_buffer, slab.size, i)}
    BY <1>1, <1>3, <1>4, <2>1, PageAssumption, PtrsOfChange
  <2> QED BY <1>1, <1>3, <2>2
<1>6. live' \subseteq PtrsOf(slab', Slots(slab'))
  BY <1>1, <1>4, <1>5 DEF PtrsOf, BusySlots
<1>7. wild' \in BOOLEAN
  BY DEF mem_slab_alloc
<1>8. TypeOK' /\ Placed' /\ NothingUnmapped'
  BY <1>1, <1>2, <1>3, <1>6, <1>7 DEF TypeOK, Placed, NothingUnmapped
<1>9. IsFiniteSet(live') /\ Cardinality(live') = slab'.ref_count
  <2>1. IsFiniteSet(live \cup {ret'}) /\ Cardinality(live \cup {ret'}) = Cardinality(live) + 1
    BY <1>1, <1>3, FS_AddElement
  <2> QED BY <1>1, <1>3, <2>1
<1>10. Consistent' /\ WildOnlyBelowTwoBuffers'
  <2>1. CASE slab.max_refs >= 2
    <3>1. WellFormed(Page, slab') /\ wild' = FALSE
      BY <1>1, <2>1, Zenon
    <3> QED BY <1>5, <1>9, <3>1, Zenon DEF Consistent, WildOnlyBelowTwoBuffers, BusyPtrs
  <2>2. CASE ~(slab.max_refs >= 2)
    <3>1. wild' = TRUE
      BY <1>1, <2>2, Zenon
    <3>2. slab'.max_refs < 2
      BY <1>1, <1>3, <2>2
    <3> QED BY <3>1, <3>2, Zenon DEF Consistent, Usable, WildOnlyBelowTwoBuffers
  <2> QED BY <2>1, <2>2
<1>11. NullWithoutFreeSlot'
  BY <1>1 DEF NullWithoutFreeSlot
<1> QED BY <1>8, <1>10, <1>11 DEF IInv

\* A mem_slab_alloc that returns NULL changes only the result.
LEMMA AllocFullInv ==
  ASSUME IInv, mem_slab_alloc_full
  PROVE  IInv'
<1>1. /\ Usable /\ ~HasFreeSlot(slab) /\ ret' = NULL
      /\ mapped' = mapped /\ slab' = slab /\ live' = live /\ wild' = wild
  BY DEF mem_slab_alloc_full
<1>2. TypeOK'
  BY <1>1 DEF IInv, TypeOK, NULL
<1>3. Placed' /\ NothingUnmapped'
  BY <1>1 DEF IInv, Placed, NothingUnmapped
<1>4. Consistent' /\ WildOnlyBelowTwoBuffers'
  BY <1>1, Zenon DEF IInv, Consistent, Usable, WildOnlyBelowTwoBuffers
<1>5. NullWithoutFreeSlot'
  BY <1>1, Zenon DEF NullWithoutFreeSlot, Usable
<1> QED BY <1>2, <1>3, <1>4, <1>5 DEF IInv

\* What a mem_slab_dealloc of a buffer the program holds does: it is defined,
\* and gives up the slot of exactly that buffer.
LEMMA DeallocStep ==
  ASSUME IInv, NEW ptr \in live, mem_slab_dealloc(ptr)
  PROVE  LET slot == SlotOf(slab, ptr) IN
         /\ slot \in BusySlots(slab)
         /\ ptr = BufferPtr(slab.allocable_buffer, slab.size, slot)
         /\ WellFormed(Page, slab')
         /\ slab'.size = slab.size /\ slab'.max_refs = slab.max_refs
         /\ slab'.allocable_buffer = slab.allocable_buffer
         /\ slab'.ref_count = slab.ref_count - 1
         /\ BusySlots(slab') = BusySlots(slab) \ {slot}
         /\ wild' = FALSE
<1> DEFINE slot == SlotOf(slab, ptr)
<1>1. /\ Usable /\ mapped /\ slab' = SlabDealloc(slab, slot)
      /\ wild' = ~(DeallocTouches(slab, slot) \subseteq Slots(slab))
  BY DEF mem_slab_dealloc, Usable
<1>2. /\ WellFormed(Page, slab) /\ live = PtrsOf(slab, BusySlots(slab))
      /\ slab.size \in Nat \ {0} /\ slab.max_refs = NumBuffers(slab.size)
      /\ slab.allocable_buffer = AllocableBuffer(Page, slab.size)
  BY <1>1 DEF IInv, Consistent, Placed, BusyPtrs
<1>3. PICK i \in BusySlots(slab) : ptr = BufferPtr(slab.allocable_buffer, slab.size, i)
  BY <1>2 DEF PtrsOf
<1>4. slot = i
  <2>1. i \in Slots(slab)
    BY DEF BusySlots
  <2> QED BY <1>2, <1>3, <2>1, PageAssumption, SlotPtr
<1>5. /\ WellFormed(Page, slab')
      /\ slab'.size = slab.size /\ slab'.max_refs = slab.max_refs
      /\ slab'.allocable_buffer = slab.allocable_buffer
      /\ slab'.ref_count = slab.ref_count - 1
      /\ DeallocTouches(slab, slot) \subseteq Slots(slab)
      /\ BusySlots(slab') = BusySlots(slab) \ {slot}
  <2>1. slot \in BusySlots(slab)
    BY <1>4
  <2> HIDE DEF slot
  <2> QED BY <1>1, <1>2, <2>1, DeallocOK
<1>6. wild' = FALSE
  BY <1>1, <1>5, Zenon
<1> QED BY <1>3, <1>4, <1>5, <1>6

LEMMA DeallocInv ==
  ASSUME IInv, NEW ptr \in live, mem_slab_dealloc(ptr)
  PROVE  IInv'
<1> DEFINE slot == SlotOf(slab, ptr)
<1>1. /\ slot \in BusySlots(slab)
      /\ ptr = BufferPtr(slab.allocable_buffer, slab.size, slot)
      /\ WellFormed(Page, slab')
      /\ slab'.size = slab.size /\ slab'.max_refs = slab.max_refs
      /\ slab'.allocable_buffer = slab.allocable_buffer
      /\ slab'.ref_count = slab.ref_count - 1
      /\ BusySlots(slab') = BusySlots(slab) \ {slot}
      /\ wild' = FALSE
  BY DeallocStep
<1>2. /\ Usable /\ mapped /\ mapped' = mapped /\ live' = live \ {ptr} /\ ret' = VOID
  BY DEF mem_slab_dealloc, Usable
<1>3. /\ live = PtrsOf(slab, BusySlots(slab))
      /\ IsFiniteSet(live) /\ Cardinality(live) = slab.ref_count
      /\ slab.size \in Nat \ {0} /\ slab.max_refs = NumBuffers(slab.size)
      /\ slab.allocable_buffer = AllocableBuffer(Page, slab.size)
      /\ live \subseteq Nat
  BY <1>2 DEF IInv, TypeOK, Consistent, Placed, BusyPtrs
<1>4. BusySlots(slab) \in SUBSET Slots(slab) /\ slot \in Slots(slab)
  BY <1>1 DEF BusySlots
<1> HIDE DEF slot
<1>5. live' = PtrsOf(slab', BusySlots(slab'))
  BY <1>1, <1>2, <1>3, <1>4, PageAssumption, PtrsOfChange
<1>6. live' \subseteq PtrsOf(slab', Slots(slab'))
  BY <1>5 DEF PtrsOf, BusySlots
<1>7. TypeOK' /\ Placed' /\ NothingUnmapped' /\ NullWithoutFreeSlot'
  <2>1. SlabTypeOK(slab') /\ live' \subseteq Nat /\ mapped' = TRUE
    BY <1>1, <1>2, <1>3 DEF WellFormed, IInv, TypeOK
  <2>2. TypeOK'
    BY <1>1, <1>2, <2>1, Zenon DEF TypeOK
  <2>3. Placed' /\ NothingUnmapped'
    BY <1>1, <1>3, <1>6, <2>1 DEF Placed, NothingUnmapped
  <2>4. NullWithoutFreeSlot'
    BY <1>2 DEF NullWithoutFreeSlot, VOID, NULL
  <2> QED BY <2>2, <2>3, <2>4
<1>8. IsFiniteSet(live') /\ Cardinality(live') = slab'.ref_count
  <2>1. IsFiniteSet(live \ {ptr}) /\ Cardinality(live \ {ptr}) = Cardinality(live) - 1
    BY <1>3, FS_RemoveElement
  <2> QED BY <1>1, <1>2, <1>3, <2>1
<1>9. Consistent' /\ WildOnlyBelowTwoBuffers'
  BY <1>1, <1>5, <1>8, Zenon DEF Consistent, WildOnlyBelowTwoBuffers, BusyPtrs
<1> QED BY <1>7, <1>9 DEF IInv

LEMMA FreeInv ==
  ASSUME IInv, mem_slab_free
  PROVE  IInv'
<1>1. /\ mapped' = FALSE /\ slab' = Unmapped /\ live' = {} /\ ret' = VOID /\ wild' = FALSE
  BY DEF mem_slab_free, Usable, IInv, TypeOK
<1>2. Init'
  BY <1>1 DEF Init
<1>3. Init' => IInv'
  BY InitInv, PTL
<1> QED BY <1>2, <1>3

-----------------------------------------------------------------------------
(* IInv is inductive. *)
THEOREM Invariance == Spec => []IInv
<1>1. Init => IInv
  BY InitInv
<1>2. IInv /\ [Next]_vars => IInv'
  <2> SUFFICES ASSUME IInv, [Next]_vars PROVE IInv'
    OBVIOUS
  <2>1. ASSUME NEW size \in Sizes, mem_slab_create(size) PROVE IInv'
    BY <2>1, CreateInv
  <2>2. CASE mem_slab_alloc
    BY <2>2, AllocInv
  <2>3. CASE mem_slab_alloc_full
    BY <2>3, AllocFullInv
  <2>4. ASSUME NEW ptr \in live, mem_slab_dealloc(ptr) PROVE IInv'
    BY <2>4, DeallocInv
  <2>5. CASE mem_slab_free
    BY <2>5, FreeInv
  <2>6. CASE UNCHANGED vars
    BY <2>6, Zenon
    DEF vars, IInv, TypeOK, Placed, NothingUnmapped, Consistent,
        NullWithoutFreeSlot, WildOnlyBelowTwoBuffers, Usable
  <2> QED BY <2>1, <2>2, <2>3, <2>4, <2>5, <2>6 DEF Next
<1> QED BY <1>1, <1>2, PTL DEF Spec

\* Every field of the header and of the bufctls keeps its C type.
THEOREM TypeCorrect == Spec => []TypeOK
<1>1. IInv => TypeOK
  BY DEF IInv
<1> QED BY <1>1, Invariance, PTL

\* The bufctls of a slab are one list with its free slots in front, whatever
\* the sequence of allocations and deallocations.
THEOREM FreelistStaysIntact == Spec => []FreelistIntact
<1>1. IInv => FreelistIntact
  BY DEF IInv, Consistent, WellFormed, FreelistIntact
<1> QED BY <1>1, Invariance, PTL

\* What the program holds are the buffers of the busy slots, and ref_count is
\* their number.
THEOREM LiveAreTheBusyOnes == Spec => []LiveAreBusy
<1>1. IInv => LiveAreBusy
  BY DEF IInv, Consistent, LiveAreBusy
<1> QED BY <1>1, Invariance, PTL

\* mem_slab_alloc fails only on a slab with no free buffer.
THEOREM NullOnlyWhenFull == Spec => []NullMeansFull
<1>1. IInv => NullMeansFull
  <2> SUFFICES ASSUME IInv, ret = NULL
               PROVE  slab.ref_count = slab.max_refs /\ Cardinality(live) = slab.max_refs
    BY DEF NullMeansFull
  <2>1. Usable /\ ~HasFreeSlot(slab)
    BY DEF IInv, NullWithoutFreeSlot
  <2>2. WellFormed(Page, slab) /\ Cardinality(live) = slab.ref_count
    BY <2>1 DEF IInv, Consistent
  <2> QED BY <2>1, <2>2, NoFreeSlotOK
<1> QED BY <1>1, Invariance, PTL

\* Buffers in use lie in the page of their slab and do not overlap.
THEOREM BuffersStayApart == Spec => []BuffersDisjointInPage
<1>1. IInv => BuffersDisjointInPage
  <2> SUFFICES ASSUME IInv, NEW p \in live
               PROVE  /\ Page + HeaderSize <= p /\ p + slab.size <= Page + PageSize
                      /\ PagePointer(p) = Page
                      /\ \A q \in live : p < q => p + slab.size <= q
    BY DEF BuffersDisjointInPage
  <2>1. /\ slab.size \in Nat \ {0} /\ slab.max_refs = NumBuffers(slab.size)
        /\ slab.allocable_buffer = AllocableBuffer(Page, slab.size)
        /\ live \subseteq PtrsOf(slab, Slots(slab))
        /\ slab.max_refs \in Nat /\ slab.allocable_buffer \in Nat
    BY NonExistantNat DEF IInv, TypeOK, SlabTypeOK, Placed, NothingUnmapped
  <2>2. PICK i \in Slots(slab) : p = BufferPtr(slab.allocable_buffer, slab.size, i)
    BY <2>1 DEF PtrsOf
  <2>3. ASSUME NEW q \in live, p < q PROVE p + slab.size <= q
    <3>1. PICK j \in Slots(slab) : q = BufferPtr(slab.allocable_buffer, slab.size, j)
      BY <2>1 DEF PtrsOf
    <3>2. i \in Nat /\ j \in Nat
      BY <2>1 DEF Slots
    <3>3. p \in Nat /\ q \in Nat
      BY <2>1, <2>2, <3>1, PageAssumption, SlotPtr
    <3>4. CASE i < j
      BY <2>1, <2>2, <3>1, <3>2, <3>4, BuffersApart
    <3>5. CASE j < i
      <4>1. q + slab.size <= p
        BY <2>1, <2>2, <3>1, <3>2, <3>5, BuffersApart
      <4> QED BY <2>1, <2>3, <3>3, <4>1
    <3>6. CASE i = j
      BY <2>2, <2>3, <3>1, <3>3, <3>6
    <3> QED BY <3>2, <3>4, <3>5, <3>6
  <2> QED BY <2>1, <2>2, <2>3, PageAssumption, SlotPtr
<1> QED BY <1>1, Invariance, PTL

\* Slabs of two buffers or more never touch a bufctl that does not exist.
THEOREM WildOnlyOnTinySlabs == Spec => []WildOnlyBelowTwoBuffers
<1>1. IInv => WildOnlyBelowTwoBuffers
  BY DEF IInv
<1> QED BY <1>1, Invariance, PTL

-----------------------------------------------------------------------------
(* Each action of Slab is an action of SlotAllocator on the free and the   *)
(* live buffers.                                                           *)

LEMMA CreateRefines ==
  ASSUME IInv, NEW size \in Sizes, mem_slab_create(size)
  PROVE  Allocator!Create
<1>1. /\ ~mapped /\ slab' = PreparedSlab(Page, size) /\ ret' = VOID
      /\ slab = Unmapped /\ live = {} /\ live' = {}
  BY DEF IInv, NothingUnmapped, mem_slab_create
<1>2. FreePtrs(slab) = {}
  BY <1>1 DEF FreePtrs, PtrsOf, Slots, Unmapped
<1>3. size \in Nat \ {0} /\ PageAligned(Page)
  BY SizesAssumption, PageAssumption
<1>4. /\ slab'.size \in Nat \ {0} /\ slab'.max_refs = NumBuffers(slab'.size)
      /\ slab'.allocable_buffer = AllocableBuffer(Page, slab'.size)
  <2>1. /\ slab'.size = size /\ slab'.max_refs = NumBuffers(size)
        /\ slab'.allocable_buffer = AllocableBuffer(Page, size)
    BY <1>1, <1>3, PreparedTypeOK, ZenonT(60)
  <2> QED BY <1>3, <2>1
<1>5. FreePtrs(slab') \in SUBSET Nat
  <2> SUFFICES ASSUME NEW ptr \in FreePtrs(slab') PROVE ptr \in Nat
    OBVIOUS
  <2>1. PICK i \in Slots(slab') : ptr = BufferPtr(slab'.allocable_buffer, slab'.size, i)
    BY DEF FreePtrs, PtrsOf
  <2> QED BY <1>4, <2>1, PageAssumption, SlotPtr
<1> QED BY <1>1, <1>2, <1>5 DEF Allocator!Create

LEMMA AllocRefines ==
  ASSUME IInv, mem_slab_alloc
  PROVE  Allocator!Alloc
<1> DEFINE i == slab.freelist_start_index
<1>1. /\ i \in Slots(slab) \ BusySlots(slab)
      /\ ret' = BufferPtr(slab.allocable_buffer, slab.size, i)
      /\ live' = live \cup {ret'}
      /\ SlabTypeOK(slab') /\ Slots(slab') = Slots(slab)
      /\ slab'.size = slab.size
      /\ slab'.allocable_buffer = slab.allocable_buffer
      /\ BusySlots(slab') = BusySlots(slab) \cup {i}
  BY AllocStep
<1>2. /\ slab.size \in Nat \ {0} /\ slab.max_refs = NumBuffers(slab.size)
      /\ slab.allocable_buffer = AllocableBuffer(Page, slab.size)
      /\ SlabTypeOK(slab)
  BY DEF IInv, TypeOK, Placed, mem_slab_alloc, Usable
<1> DEFINE F == Slots(slab) \ BusySlots(slab)
<1>3. FreePtrs(slab) = PtrsOf(slab, F)
  BY <1>2, FreeSlots
<1>4. FreePtrs(slab') = PtrsOf(slab', F \ {i})
  <2>1. Slots(slab') \ BusySlots(slab') = F \ {i}
    BY <1>1
  <2> QED BY <1>1, <2>1, FreeSlots
<1>5. F \in SUBSET Slots(slab) /\ i \in F
  BY <1>1
<1> HIDE DEF F, i
<1>6. ret' \in FreePtrs(slab) /\ FreePtrs(slab') = FreePtrs(slab) \ {ret'}
  BY <1>1, <1>2, <1>3, <1>4, <1>5, PageAssumption, PtrsOfChange
<1> QED BY <1>1, <1>6 DEF Allocator!Alloc

LEMMA AllocFullRefines ==
  ASSUME IInv, mem_slab_alloc_full
  PROVE  Allocator!AllocFails
<1>1. /\ WellFormed(Page, slab) /\ ~HasFreeSlot(slab) /\ ret' = NULL
      /\ slab' = slab /\ live' = live
  BY DEF IInv, Consistent, mem_slab_alloc_full
<1>2. SlabTypeOK(slab) /\ Slots(slab) \ BusySlots(slab) = {}
  BY <1>1, NoFreeSlotOK DEF WellFormed
<1>3. FreePtrs(slab) = {}
  BY <1>2, FreeSlots DEF PtrsOf
<1> QED BY <1>1, <1>3 DEF Allocator!AllocFails

LEMMA DeallocRefines ==
  ASSUME IInv, NEW ptr \in live, mem_slab_dealloc(ptr)
  PROVE  Allocator!Dealloc
<1> DEFINE slot == SlotOf(slab, ptr)
           F == Slots(slab) \ BusySlots(slab)
<1>1. /\ slot \in BusySlots(slab)
      /\ ptr = BufferPtr(slab.allocable_buffer, slab.size, slot)
      /\ WellFormed(Page, slab')
      /\ slab'.size = slab.size /\ slab'.max_refs = slab.max_refs
      /\ slab'.allocable_buffer = slab.allocable_buffer
      /\ BusySlots(slab') = BusySlots(slab) \ {slot}
  BY DeallocStep
<1>2. live' = live \ {ptr} /\ ret' = VOID
  BY DEF mem_slab_dealloc
<1>3. /\ slab.size \in Nat \ {0} /\ slab.max_refs = NumBuffers(slab.size)
      /\ slab.allocable_buffer = AllocableBuffer(Page, slab.size)
      /\ SlabTypeOK(slab) /\ SlabTypeOK(slab')
  BY <1>1 DEF IInv, TypeOK, Placed, mem_slab_dealloc, Usable, WellFormed
<1>4. FreePtrs(slab) = PtrsOf(slab, F)
  BY <1>3, FreeSlots
<1>5. slot \in Slots(slab) /\ Slots(slab') = Slots(slab)
  BY <1>1 DEF BusySlots, Slots
<1>6. FreePtrs(slab') = PtrsOf(slab', F \cup {slot})
  <2>1. Slots(slab') \ BusySlots(slab') = F \cup {slot}
    BY <1>1, <1>5
  <2> QED BY <1>3, <2>1, FreeSlots
<1>7. F \in SUBSET Slots(slab)
  OBVIOUS
<1> HIDE DEF F, slot
<1>8. FreePtrs(slab') = FreePtrs(slab) \cup {ptr}
  <2>1. PtrsOf(slab', F \cup {slot}) =
          PtrsOf(slab, F) \cup {BufferPtr(slab.allocable_buffer, slab.size, slot)}
    BY <1>1 DEF PtrsOf
  <2> QED BY <1>1, <1>4, <1>6, <2>1
<1> QED BY <1>2, <1>8 DEF Allocator!Dealloc

LEMMA FreeRefines ==
  ASSUME mem_slab_free
  PROVE  Allocator!Free
<1>1. live = {} /\ live' = live /\ slab' = Unmapped /\ ret' = VOID
  BY DEF mem_slab_free
<1>2. FreePtrs(slab') = {}
  BY <1>1 DEF FreePtrs, PtrsOf, Slots, Unmapped
<1> QED BY <1>1, <1>2 DEF Allocator!Free

\* A slab implements the abstract allocator: every buffer is free or live,
\* and an allocation fails only when no buffer is free.
THEOREM Refinement == Spec => ImplementsSlotAllocator
<1>1. Init => Allocator!Init
  <2> SUFFICES ASSUME Init PROVE Allocator!Init
    OBVIOUS
  <2>1. FreePtrs(slab) = {}
    BY DEF Init, FreePtrs, PtrsOf, Slots, Unmapped
  <2> QED BY <2>1 DEF Init, Allocator!Init
<1>2. IInv /\ [Next]_vars => [Allocator!Next]_(Allocator!vars)
  <2> SUFFICES ASSUME IInv, [Next]_vars PROVE [Allocator!Next]_(Allocator!vars)
    OBVIOUS
  <2>1. ASSUME NEW size \in Sizes, mem_slab_create(size) PROVE Allocator!Next
    BY <2>1, CreateRefines DEF Allocator!Next
  <2>2. CASE mem_slab_alloc
    BY <2>2, AllocRefines DEF Allocator!Next
  <2>3. CASE mem_slab_alloc_full
    BY <2>3, AllocFullRefines DEF Allocator!Next
  <2>4. ASSUME NEW ptr \in live, mem_slab_dealloc(ptr) PROVE Allocator!Next
    BY <2>4, DeallocRefines DEF Allocator!Next
  <2>5. CASE mem_slab_free
    BY <2>5, FreeRefines DEF Allocator!Next
  <2>6. CASE UNCHANGED vars
    BY <2>6 DEF vars, Allocator!vars
  <2> QED BY <2>1, <2>2, <2>3, <2>4, <2>5, <2>6 DEF Next
<1> QED BY <1>1, <1>2, Invariance, PTL DEF Spec, ImplementsSlotAllocator, Allocator!Spec
=============================================================================
