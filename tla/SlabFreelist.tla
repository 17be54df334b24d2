---------------------------- MODULE SlabFreelist ----------------------------
(***************************************************************************)
(* The operations of slab.c on one slab, as functions from the contents of *)
(* its page to the contents after the call.  A slab is a record: the       *)
(* header's fields (struct mem_slab without its list links, which belong   *)
(* to the pool) and the bufctl array, one function of the index for each   *)
(* field of struct slab_bufctl.  Free and busy slots stay on the same      *)
(* list: an allocation moves the first slot to the end, a deallocation     *)
(* moves its slot to the front.                                            *)
(***************************************************************************)
EXTENDS SlabLayout, DoublyLinked

SLOT_FREE == 0
SLOT_BUSY == 1

\* The indices of a slab's bufctl array.
Slots(s) == 0..(s.max_refs - 1)

\* freelist_end_index of a new slab, and a mutant that counts from one.
LastIndexOffByOne(num_buffers) == UInt16(num_buffers)

LastIndex(num_buffers) == UInt16(num_buffers - 1)

\* prepare_slab_header: every slot free, linked in index order.
PreparedSlab(page, size) ==
  LET num_buffers == NumBuffers(size)
      indices     == 0..(num_buffers - 1)
  IN [size                 |-> size,
      ref_count            |-> 0,
      max_refs             |-> num_buffers,
      freelist_start_index |-> 0,
      freelist_end_index   |-> LastIndex(num_buffers),
      allocable_buffer     |-> AllocableBuffer(page, size),
      next_index |-> [i \in indices |-> IF i = num_buffers - 1 THEN NonExistant ELSE i + 1],
      prev_index |-> [i \in indices |-> IF i = 0 THEN NonExistant ELSE i - 1],
      is_free    |-> [i \in indices |-> SLOT_FREE]]

\* The bufctls prepare_slab_header writes outside its loop.
PreparedTouches(s) == {s.freelist_start_index, s.freelist_end_index}

-----------------------------------------------------------------------------
\* mem_slab_alloc goes on only when the slot at the start of the list is free.
HasFreeSlot(s) == s.is_free[s.freelist_start_index] = SLOT_FREE

\* The neighbours of a slot, linked to each other; without a neighbour in
\* front, the one behind it gets prev_index NON_EXISTANT.
BypassedNext(s, index) ==
  IF s.prev_index[index] = NonExistant
  THEN s.next_index
  ELSE [s.next_index EXCEPT ![s.prev_index[index]] = s.next_index[index]]

BypassedPrev(s, index) ==
  [s.prev_index EXCEPT ![s.next_index[index]] = s.prev_index[index]]

\* The slab after a mem_slab_alloc that found a free slot: the slot is taken
\* out of the list and appended behind the last one.
SlabAlloc(s) ==
  LET index == s.freelist_start_index
      last  == s.freelist_end_index
  IN [s EXCEPT
        !.ref_count = @ + 1,
        !.freelist_start_index =
           IF s.prev_index[index] = NonExistant THEN s.next_index[index] ELSE @,
        !.freelist_end_index = index,
        !.next_index = [BypassedNext(s, index) EXCEPT ![last] = index,
                                                      ![index] = NonExistant],
        !.prev_index = [BypassedPrev(s, index) EXCEPT ![index] = last],
        !.is_free    = [@ EXCEPT ![index] = SLOT_BUSY]]

\* The pointer it returns, and a mutant that takes the wrong end of the list.
LastPtr(s) == BufferPtr(s.allocable_buffer, s.size, s.freelist_end_index)

AllocatedPtr(s) == BufferPtr(s.allocable_buffer, s.size, s.freelist_start_index)

\* mem_slab_alloc as its caller sees it: what it returns and leaves behind,
\* whether or not there is a free slot.
AllocReturns(s) == IF HasFreeSlot(s) THEN AllocatedPtr(s) ELSE NULL

AfterAlloc(s) == IF HasFreeSlot(s) THEN SlabAlloc(s) ELSE s

\* The bufctls it reads or writes when there is one.
AllocTouches(s) ==
  LET index == s.freelist_start_index IN
    {index, s.next_index[index], s.freelist_end_index} \cup
    ({s.prev_index[index]} \ {NonExistant})

-----------------------------------------------------------------------------
SlotOf(s, ptr) == BufferIndex(s.allocable_buffer, s.size, ptr)

\* Mutants of Released that forget the reference, or the slot.
ReleasedKeepsReference(s, slot) ==
  [s EXCEPT !.is_free = [@ EXCEPT ![slot] = SLOT_FREE]]

ReleasedKeepsSlot(s, slot) == [s EXCEPT !.ref_count = @ - 1]

\* The slab once mem_slab_dealloc has given up the reference and the slot.
Released(s, slot) ==
  [s EXCEPT !.ref_count = @ - 1, !.is_free = [@ EXCEPT ![slot] = SLOT_FREE]]

\* A mutant that never reorders the list.
StaysAlways(s, slot) == TRUE

\* mem_slab_dealloc leaves the list alone when the slot is the first one or
\* follows a free one: the free slots then still come first.
StaysInPlace(s, slot) ==
  \/ slot = s.freelist_start_index
  \/ s.is_free[s.prev_index[slot]] = SLOT_FREE

\* The last slot once this one is cut out, and a mutant that forgets it.
EndUnchanged(s, slot) == s.freelist_end_index

EndWithout(s, slot) ==
  IF s.freelist_end_index = slot THEN s.prev_index[slot] ELSE s.freelist_end_index

\* Otherwise it cuts the slot out and puts it in front of the first one.
MovedToFront(s, slot) ==
  LET first == s.freelist_start_index
      next  == s.next_index[slot]
      prev  == s.prev_index[slot]
  IN [s EXCEPT
        !.freelist_start_index = slot,
        !.freelist_end_index = EndWithout(s, slot),
        !.next_index = [@ EXCEPT ![prev] = next, ![slot] = first],
        !.prev_index = IF next = NonExistant
                       THEN [@ EXCEPT ![slot] = NonExistant, ![first] = slot]
                       ELSE [@ EXCEPT ![next] = prev,
                                      ![slot] = NonExistant, ![first] = slot]]

\* The slab after mem_slab_dealloc of the buffer in this slot.
SlabDealloc(s, slot) ==
  IF StaysInPlace(Released(s, slot), slot)
  THEN Released(s, slot)
  ELSE MovedToFront(Released(s, slot), slot)

\* The bufctls it reads or writes.
DeallocTouches(s, slot) ==
  {slot} \cup
  (IF slot = s.freelist_start_index THEN {} ELSE {s.prev_index[slot]}) \cup
  (IF StaysInPlace(Released(s, slot), slot)
   THEN {}
   ELSE {s.freelist_start_index} \cup ({s.next_index[slot]} \ {NonExistant}))

-----------------------------------------------------------------------------
(* What the operations maintain. *)

BusySlots(s) == {i \in Slots(s) : s.is_free[i] = SLOT_BUSY}

\* The addresses of the buffers in these slots, in all busy ones and in all
\* free ones.
PtrsOf(s, slots) == {BufferPtr(s.allocable_buffer, s.size, i) : i \in slots}

BusyPtrs(s) == PtrsOf(s, BusySlots(s))

FreePtrs(s) == PtrsOf(s, {i \in Slots(s) : s.is_free[i] = SLOT_FREE})

\* The bufctls form one list from start to end, in this order, in which the
\* free slots come first, as many as there are references missing.
FreelistOrder(s, order) ==
  LET n == s.max_refs IN
    /\ Linked(order, n, Slots(s), s.next_index, s.prev_index, NonExistant)
    /\ order[1] = s.freelist_start_index
    /\ order[n] = s.freelist_end_index
    /\ \A k \in 1..n : s.is_free[order[k]] = SLOT_FREE <=> k <= n - s.ref_count

FreelistOK(s) == \E order \in [1..s.max_refs -> Slots(s)] : FreelistOrder(s, order)

SlabTypeOK(s) ==
  s \in [size                 : Nat,
         ref_count            : Nat,
         max_refs             : 0..NonExistant,
         freelist_start_index : 0..NonExistant,
         freelist_end_index   : 0..NonExistant,
         allocable_buffer     : Nat,
         next_index           : [Slots(s) -> 0..NonExistant],
         prev_index           : [Slots(s) -> 0..NonExistant],
         is_free              : [Slots(s) -> {SLOT_FREE, SLOT_BUSY}]]

\* A slab on which every call of slab.h is defined: its list is in order and
\* its header agrees with its size and its page.
WellFormed(page, s) ==
  /\ SlabTypeOK(s)
  /\ s.size \in Nat \ {0}
  /\ s.max_refs = NumBuffers(s.size)
  /\ s.max_refs >= 1
  /\ s.ref_count <= s.max_refs
  /\ s.allocable_buffer = AllocableBuffer(page, s.size)
  /\ FreelistOK(s)
=============================================================================
