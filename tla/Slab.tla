-------------------------------- MODULE Slab --------------------------------
(***************************************************************************)
(* One slab and the program that uses it, through the interface of slab.h: *)
(* mem_slab_create, mem_slab_alloc, mem_slab_dealloc and mem_slab_free.    *)
(* The program frees only what it holds, and unmaps the slab only when it  *)
(* holds nothing.  It may write to its buffers, but not over the bufctls   *)
(* (SlabMemory takes that restriction away).                               *)
(***************************************************************************)
EXTENDS SlabFreelist, FiniteSets

CONSTANTS Page,    \* the address mmap returns for the slab
          Sizes    \* the sizes the program asks slabs for

ASSUME PageAssumption == PageAligned(Page)

\* mem_slab_create asserts size > 0.
ASSUME SizesAssumption == Sizes \subseteq Nat \ {0}

VARIABLES
  mapped,   \* the slab exists: its page is mapped and prepared
  slab,     \* what is in its page
  live,     \* the buffers the program holds
  ret,      \* what the last call returned
  wild      \* a call touched a bufctl beyond the array: from here on the
            \* behaviour of the program is undefined, and the model stops

vars == <<mapped, slab, live, ret, wild>>

VOID == -1  \* ret after a call that returns no buffer

Unmapped == [size |-> 0, ref_count |-> 0, max_refs |-> 0,
             freelist_start_index |-> 0, freelist_end_index |-> 0,
             allocable_buffer |-> NULL, next_index |-> [i \in {} |-> 0],
             prev_index |-> [i \in {} |-> 0], is_free |-> [i \in {} |-> 0]]

Init ==
  /\ mapped = FALSE
  /\ slab = Unmapped
  /\ live = {}
  /\ ret = VOID
  /\ wild = FALSE

Usable == mapped /\ ~wild

\* The other outcome of mem_slab_create, NULL because mmap failed, leaves
\* everything as it was.
mem_slab_create(size) ==
  /\ ~mapped /\ ~wild
  /\ mapped' = TRUE
  /\ slab' = PreparedSlab(Page, size)
  /\ wild' = ~(PreparedTouches(slab') \subseteq Slots(slab'))
  /\ ret' = VOID
  /\ UNCHANGED live

mem_slab_alloc ==
  /\ Usable
  /\ HasFreeSlot(slab)
  /\ slab' = SlabAlloc(slab)
  /\ ret' = AllocatedPtr(slab)
  /\ live' = live \cup {ret'}
  /\ wild' = ~(AllocTouches(slab) \subseteq Slots(slab))
  /\ UNCHANGED mapped

mem_slab_alloc_full ==
  /\ Usable
  /\ ~HasFreeSlot(slab)
  /\ ret' = NULL
  /\ UNCHANGED <<mapped, slab, live, wild>>

mem_slab_dealloc(ptr) ==
  /\ Usable
  /\ LET slot == SlotOf(slab, ptr) IN
       /\ slab' = SlabDealloc(slab, slot)
       /\ wild' = ~(DeallocTouches(slab, slot) \subseteq Slots(slab))
  /\ live' = live \ {ptr}
  /\ ret' = VOID
  /\ UNCHANGED mapped

mem_slab_free ==
  /\ Usable
  /\ live = {}
  /\ mapped' = FALSE
  /\ slab' = Unmapped
  /\ ret' = VOID
  /\ UNCHANGED <<live, wild>>

Next ==
  \/ \E size \in Sizes : mem_slab_create(size)
  \/ mem_slab_alloc
  \/ mem_slab_alloc_full
  \/ \E ptr \in live : mem_slab_dealloc(ptr)
  \/ mem_slab_free

Spec == Init /\ [][Next]_vars

-----------------------------------------------------------------------------
(* Type correctness: the header's fields keep their C types, every bufctl  *)
(* index a uint16_t, and the program holds addresses.                      *)
TypeOK ==
  /\ mapped \in BOOLEAN
  /\ wild \in BOOLEAN
  /\ SlabTypeOK(slab)
  /\ live \subseteq Nat
  /\ ret \in Nat \cup {VOID}

(* However allocations and deallocations interleave, the bufctls stay one  *)
(* doubly linked list of all slots, free slots first, as many of them free *)
(* as there are references missing.  mem_slab_alloc looks only at the      *)
(* first slot: this is what makes that enough.                             *)
FreelistIntact == Usable => FreelistOK(slab)

(* The buffers the program holds are the busy slots, one each: ref_count,  *)
(* is_free and what was handed out cannot drift apart, so no buffer is     *)
(* handed out twice and the assertions on ref_count == 0 and on SLOT_BUSY  *)
(* hold for a program that frees what it holds.                            *)
LiveAreBusy ==
  Usable => /\ live = BusyPtrs(slab)
            /\ slab.ref_count = Cardinality(live)

(* mem_slab_alloc returns NULL only when every slot is in use.             *)
NullMeansFull ==
  ret = NULL => slab.ref_count = slab.max_refs /\ Cardinality(live) = slab.max_refs

(* Live buffers lie inside the slab's page, behind its header, and do not  *)
(* overlap; get_page_pointer leads from each of them back to the slab.     *)
BuffersDisjointInPage ==
  \A p \in live :
    /\ Page + HeaderSize <= p /\ p + slab.size <= Page + PageSize
    /\ PagePointer(p) = Page
    /\ \A q \in live : p < q => p + slab.size <= q

(* No call reads or writes a bufctl outside the array, except on a slab of *)
(* fewer than two buffers.                                                 *)
WildOnlyBelowTwoBuffers == wild => slab.max_refs < 2

(* The slab does what SlotAllocator promises: the free slots of the list   *)
(* are the buffers that can still be allocated.                            *)
Allocator == INSTANCE SlotAllocator WITH
  Ptr <- Nat, NoPtr <- NULL, NoResult <- VOID,
  free <- FreePtrs(slab)

ImplementsSlotAllocator == Allocator!Spec

-----------------------------------------------------------------------------
(* What the code says of itself and does not do. *)

(* mem_slab_alloc asserts that the list keeps a first slot.                *)
StartExists == mapped => slab.freelist_start_index # NonExistant

(* The layout drawn in slab.c puts the data behind all the bufctls.        *)
DataBehindBufctls ==
  mapped => FreelistBuffer(Page) + BufctlSize * slab.max_refs <= slab.allocable_buffer
=============================================================================
