--------------------------- MODULE SlabListProofs ---------------------------
(***************************************************************************)
(* Slabs, one by one and in lists.  Every operation of slab.c takes a      *)
(* well-formed slab to a well-formed slab, changes the state of exactly    *)
(* the slot it is about, and touches no bufctl outside the array; the      *)
(* arithmetic of a slab's page is right for every size and every page of   *)
(* at most 4 KiB.  Every operation of slab_pool.c on the list of a pool    *)
(* takes one doubly linked list to another: of the same slabs, of all but  *)
(* the one unlinked, or of these and the ones just created.  And the calls *)
(* of slab.c on one of many slabs leave the others in order, and change    *)
(* the buffers in use by exactly one.                                      *)
(***************************************************************************)
EXTENDS SlabList, DoublyLinkedProofs

\* The buffers and five times their number of bytes fit behind the header:
\* the count is one of a uint16_t, and different from NON_EXISTANT.
LEMMA NumBuffersFit ==
  ASSUME NEW size \in Nat \ {0}
  PROVE  /\ NumBuffers(size) \in 0..4032
         /\ size * NumBuffers(size) \in Nat
         /\ NumBuffers(size) <= size * NumBuffers(size)
         /\ 5 * (size * NumBuffers(size)) <= PageSize - HeaderSize
<1> DEFINE n == NumBuffers(size)
           b == size * BufctlSize
           room == PageSize - HeaderSize
<1>1. room \in 0..4032
  BY PageSizeAssumption DEF HeaderSize, PageMask
<1>2. b \in Nat \ {0}
  BY SMT DEF BufctlSize
<1>3. n = room \div b
  BY DEF NumBuffers
<1> HIDE DEF n, b, room
<1>4. n \in Nat /\ b * n \in Nat /\ b * n <= room
  BY <1>1, <1>2, <1>3, DivMod
<1>5. size * n \in Nat /\ b * n = 5 * (size * n)
  BY <1>4, SMT DEF b, BufctlSize
<1>6. n <= size * n
  <2>1. PICK d \in Nat : size = 1 + d
    <3>1. size - 1 \in Nat /\ size = 1 + (size - 1)
      OBVIOUS
    <3> QED BY <3>1
  <2>2. size * n = n + d * n /\ d * n \in Nat
    BY <1>4, <2>1, SMT
  <2> QED BY <1>4, <2>2
<1>7. n \in 0..4032 /\ 5 * (size * n) <= room
  <2> DEFINE w == size * n
  <2>1. n \in Nat /\ w \in Nat /\ n <= w /\ 5 * w <= room
    BY <1>4, <1>5, <1>6
  <2> HIDE DEF w
  <2>2. room \in Nat /\ room <= 4032
    BY <1>1
  <2>3. n <= 4032
    BY <2>1, <2>2
  <2> QED BY <2>1, <2>3 DEF w
<1> QED BY <1>5, <1>6, <1>7 DEF n, room

\* A buffer lies in its slab's page behind the header, get_page_pointer finds
\* the slab from it, and get_buffer_index_from_ptr inverts the address
\* computation of mem_slab_alloc.
LEMMA BufferInPage ==
  ASSUME NEW page, PageAligned(page),
         NEW size \in Nat \ {0}, NEW i \in 0..(NumBuffers(size) - 1)
  PROVE  LET buffer    == AllocableBuffer(page, size)
             ptr       == BufferPtr(buffer, size, i)
         IN  /\ buffer \in Nat \ {NULL} /\ ptr \in Nat \ {NULL}
             /\ page + HeaderSize <= ptr
             /\ ptr + size <= page + PageSize
             /\ PagePointer(ptr) = page
             /\ BufferIndex(buffer, size, ptr) = i
<1> DEFINE n == NumBuffers(size)
           buffer == AllocableBuffer(page, size)
           ptr == BufferPtr(buffer, size, i)
<1>1. /\ n \in 0..4032 /\ size * n \in Nat /\ n <= size * n
      /\ 5 * (size * n) <= PageSize - HeaderSize
  BY NumBuffersFit
<1>2. n \in Nat /\ i \in Nat /\ i < n /\ n < 65536
  <2>1. n \in 0..4032
    BY <1>1
  <2>2. i \in 0..(n - 1)
    OBVIOUS
  <2> HIDE DEF n
  <2> QED BY <2>1, <2>2
<1>3. buffer = page + 64 + n /\ ptr = page + 64 + n + size * i
  BY DEF AllocableBuffer, FreelistBuffer, BufferPtr, HeaderSize
<1>4. size * i + size <= size * n /\ size * i \in Nat
  <2>1. size * i + size <= size * n
    BY <1>2, TimesMonotone
  <2> QED BY <1>2, <2>1, SMT
<1>5. page \in Nat \ {0} /\ PageSize \in Nat /\ PageSize <= 4096
  BY PageSizeAssumption DEF PageAligned, NULL, PageMask
<1> HIDE DEF n, buffer, ptr
<1>6. page + 64 <= ptr /\ ptr + size <= page + PageSize /\ ptr \in Nat
  BY <1>1, <1>2, <1>3, <1>4, <1>5 DEF HeaderSize
<1>7. PagePointer(ptr) = page
  <2>1. page <= ptr /\ ptr < page + 4096
    BY <1>5, <1>6
  <2>2. (page \div 4096) * 4096 = page
    BY DEF PageAligned, PagePointer, PageMask
  <2>3. ptr \div 4096 = page \div 4096
    BY <1>5, <1>6, <2>1, <2>2
  <2> QED BY <2>2, <2>3 DEF PagePointer, PageMask
<1>8. BufferIndex(buffer, size, ptr) = i
  <2>1. ptr - buffer = size * i
    BY <1>2, <1>3, <1>4, <1>5
  <2>2. (ptr - buffer) \div size = i
    BY <1>2, <2>1, DivTimes
  <2>3. i % 65536 = i
    BY <1>2
  <2> QED BY <2>2, <2>3 DEF BufferIndex, UInt16
<1>9. buffer \in Nat \ {0} /\ ptr \in Nat \ {0}
  BY <1>2, <1>3, <1>5, <1>6
<1> QED BY <1>6, <1>7, <1>8, <1>9 DEF n, buffer, ptr, HeaderSize, NULL

\* Buffers of different slots do not overlap.
LEMMA BuffersApart ==
  ASSUME NEW buffer \in Nat, NEW size \in Nat \ {0},
         NEW i \in Nat, NEW j \in Nat, i < j
  PROVE  BufferPtr(buffer, size, i) + size <= BufferPtr(buffer, size, j)
<1>1. size * i + size <= size * j /\ size * i \in Nat /\ size * j \in Nat
  <2>1. size * i + size <= size * j
    BY TimesMonotone
  <2> QED BY <2>1, SMT
<1> QED BY <1>1 DEF BufferPtr

-----------------------------------------------------------------------------
\* The literal 65535 slows the provers down: they see NonExistant only as a
\* natural number.
LEMMA NonExistantNat == NonExistant \in Nat
BY DEF NonExistant

\* A value stored in a uint16_t field is between 0 and NON_EXISTANT.
LEMMA UInt16Type ==
  ASSUME NEW k \in Int
  PROVE  UInt16(k) \in 0..NonExistant
<1>1. UInt16(k) \in Int /\ 0 <= UInt16(k) /\ UInt16(k) <= 65535
  BY DEF UInt16
<1>2. UInt16(k) <= NonExistant
  BY <1>1 DEF NonExistant
<1> QED BY <1>1, <1>2, NonExistantNat

\* mem_slab_alloc keeps the C types of all fields, even on a slab of a single
\* buffer, where it writes to a bufctl that does not exist.
LEMMA AllocTypeOK ==
  ASSUME NEW s, SlabTypeOK(s), s.freelist_start_index \in Slots(s)
  PROVE  /\ SlabTypeOK(SlabAlloc(s))
         /\ Slots(SlabAlloc(s)) = Slots(s)
         /\ SlabAlloc(s).size = s.size
         /\ SlabAlloc(s).max_refs = s.max_refs
         /\ SlabAlloc(s).allocable_buffer = s.allocable_buffer
         /\ SlabAlloc(s).ref_count = s.ref_count + 1
         /\ SlabAlloc(s).freelist_end_index = s.freelist_start_index
<1> DEFINE index == s.freelist_start_index
           last == s.freelist_end_index
           b == IF s.prev_index[index] = NonExistant THEN s.next_index[index] ELSE index
           x == [BypassedNext(s, index) EXCEPT ![last] = index, ![index] = NonExistant]
           y == [BypassedPrev(s, index) EXCEPT ![index] = last]
           z == [s.is_free EXCEPT ![index] = SLOT_BUSY]
           t == SlabAlloc(s)
<1>1. /\ s.next_index \in [Slots(s) -> 0..NonExistant]
      /\ s.prev_index \in [Slots(s) -> 0..NonExistant]
      /\ s.is_free \in [Slots(s) -> {SLOT_FREE, SLOT_BUSY}]
      /\ index \in 0..NonExistant /\ last \in 0..NonExistant
      /\ NonExistant \in 0..NonExistant /\ s.ref_count + 1 \in Nat
  BY NonExistantNat DEF SlabTypeOK
<1>2. s.next_index[index] \in 0..NonExistant /\ s.prev_index[index] \in 0..NonExistant
  BY <1>1
<1>3. /\ BypassedNext(s, index) \in [Slots(s) -> 0..NonExistant]
      /\ BypassedPrev(s, index) \in [Slots(s) -> 0..NonExistant]
  BY <1>1, <1>2 DEF BypassedNext, BypassedPrev
<1>4. /\ x \in [Slots(s) -> 0..NonExistant] /\ y \in [Slots(s) -> 0..NonExistant]
      /\ z \in [Slots(s) -> {SLOT_FREE, SLOT_BUSY}] /\ b \in 0..NonExistant
  BY <1>1, <1>2, <1>3
<1>5. t = [s EXCEPT !.ref_count = s.ref_count + 1, !.freelist_start_index = b,
                    !.freelist_end_index = index, !.next_index = x,
                    !.prev_index = y, !.is_free = z]
  BY DEF SlabAlloc
<1>6. /\ t.size = s.size /\ t.max_refs = s.max_refs
      /\ t.allocable_buffer = s.allocable_buffer
      /\ t.ref_count = s.ref_count + 1
      /\ t.freelist_end_index = index
  BY <1>5 DEF SlabTypeOK
<1>7. SlabTypeOK(t) /\ Slots(t) = Slots(s)
  <2> DEFINE r == s.ref_count + 1
  <2>1. /\ r \in Nat /\ index \in 0..NonExistant
        /\ t = [s EXCEPT !.ref_count = r, !.freelist_start_index = b,
                         !.freelist_end_index = index, !.next_index = x,
                         !.prev_index = y, !.is_free = z]
    BY <1>1, <1>5
  <2> HIDE DEF index, r, b, x, y, z, t
  <2>2. Slots(t) = Slots(s)
    BY <2>1 DEF SlabTypeOK, Slots
  <2> QED BY <1>4, <2>1, <2>2 DEF SlabTypeOK
<1> QED BY <1>6, <1>7

\* What the proofs below take from the order of a freelist.
LEMMA FreelistOrderFacts ==
  ASSUME NEW s, SlabTypeOK(s), s.max_refs >= 1,
         NEW order, FreelistOrder(s, order)
  PROVE  LET n == s.max_refs IN
         /\ n \in Nat \ {0}
         /\ order \in [1..n -> Slots(s)]
         /\ \A i \in Slots(s) : \E k \in 1..n : order[k] = i
         /\ \A j, k \in 1..n : order[j] = order[k] => j = k
         /\ \A k \in 1..n :
              /\ s.next_index[order[k]] = IF k = n THEN NonExistant ELSE order[k + 1]
              /\ s.prev_index[order[k]] = IF k = 1 THEN NonExistant ELSE order[k - 1]
              /\ s.is_free[order[k]] = SLOT_FREE <=> k <= n - s.ref_count
         /\ s.freelist_start_index = order[1]
         /\ s.freelist_end_index = order[n]
         /\ \A i \in Slots(s) : i \in Nat /\ i < NonExistant
<1>1. s.max_refs \in 0..NonExistant /\ NonExistant \in Nat
  BY NonExistantNat DEF SlabTypeOK
<1>2. \A i \in Slots(s) : i \in Nat /\ i < NonExistant
  BY <1>1 DEF Slots
<1> QED BY <1>1, <1>2 DEF FreelistOrder, Linked

\* A successful mem_slab_alloc of a slab of two buffers or more moves the
\* first slot to the end of the list and marks it busy.
LEMMA AllocOrder ==
  ASSUME NEW s, SlabTypeOK(s), s.max_refs >= 2, s.ref_count <= s.max_refs,
         NEW order, FreelistOrder(s, order), HasFreeSlot(s)
  PROVE  /\ FreelistOrder(SlabAlloc(s), FirstToEnd(order, s.max_refs))
         /\ s.ref_count < s.max_refs
         /\ AllocTouches(s) \subseteq Slots(s)
         /\ s.freelist_start_index \in Slots(s) \ BusySlots(s)
         /\ BusySlots(SlabAlloc(s)) = BusySlots(s) \cup {s.freelist_start_index}
<1> DEFINE n == s.max_refs
           f == order[1]
           t == SlabAlloc(s)
           o == FirstToEnd(order, n)
<1>1. n \in Nat /\ n >= 2 /\ s.ref_count \in Nat
  BY DEF SlabTypeOK
<1>2. /\ order \in [1..n -> Slots(s)]
      /\ \A i \in Slots(s) : \E k \in 1..n : order[k] = i
      /\ \A j, k \in 1..n : order[j] = order[k] => j = k
      /\ \A k \in 1..n :
           s.is_free[order[k]] = SLOT_FREE <=> k <= n - s.ref_count
      /\ s.freelist_start_index = f /\ s.freelist_end_index = order[n]
      /\ \A i \in Slots(s) : i \in Nat /\ i < NonExistant
  BY <1>1, FreelistOrderFacts
<1>3. /\ s.next_index[f] = order[2] /\ s.prev_index[f] = NonExistant
      /\ f \in Slots(s) /\ order[2] \in Slots(s) /\ order[n] \in Slots(s)
      /\ f # order[2] /\ f # order[n]
  <2>1. /\ s.next_index[f] = order[2] /\ s.prev_index[f] = NonExistant
    BY <1>1 DEF FreelistOrder, Linked
  <2>2. 1 \in 1..n /\ 2 \in 1..n /\ n \in 1..n
    BY <1>1
  <2> QED BY <1>1, <1>2, <2>1, <2>2
<1>4. s.is_free[f] = SLOT_FREE /\ s.ref_count < n
  <2>1. s.is_free[f] = SLOT_FREE
    BY <1>2 DEF HasFreeSlot
  <2>2. 1 <= n - s.ref_count
    BY <1>1, <1>2, <2>1
  <2> QED BY <1>1, <2>1, <2>2
<1>5. /\ SlabTypeOK(t) /\ t.max_refs = n /\ t.ref_count = s.ref_count + 1
      /\ t.freelist_end_index = f /\ Slots(t) = Slots(s)
  BY <1>2, <1>3, AllocTypeOK
<1>6. /\ s.next_index \in [Slots(s) -> 0..NonExistant]
      /\ s.prev_index \in [Slots(s) -> 0..NonExistant]
      /\ s.is_free \in [Slots(s) -> {SLOT_FREE, SLOT_BUSY}]
  BY DEF SlabTypeOK
<1>7. /\ t.freelist_start_index = order[2]
      /\ t.next_index = [s.next_index EXCEPT ![order[n]] = f, ![f] = NonExistant]
      /\ t.prev_index = [s.prev_index EXCEPT ![order[2]] = NonExistant, ![f] = order[n]]
      /\ t.is_free = [s.is_free EXCEPT ![f] = SLOT_BUSY]
  BY <1>2, <1>3 DEF SlabAlloc, SlabTypeOK, BypassedNext, BypassedPrev
<1> HIDE DEF t
<1>8. Linked(o, n, Slots(s), t.next_index, t.prev_index, NonExistant)
  <2>1. Linked(order, n, Slots(s), s.next_index, s.prev_index, NonExistant)
    BY DEF FreelistOrder
  <2> DEFINE dom == Slots(s)
             vals == 0..NonExistant
             nx == s.next_index
             pr == s.prev_index
             nxt == t.next_index
             prv == t.prev_index
  <2>2. /\ nx \in [dom -> vals] /\ pr \in [dom -> vals] /\ dom \subseteq dom
        /\ Linked(order, n, dom, nx, pr, NonExistant)
        /\ nxt = [nx EXCEPT ![order[n]] = order[1], ![order[1]] = NonExistant]
        /\ prv = [pr EXCEPT ![order[2]] = NonExistant, ![order[1]] = order[n]]
    BY <1>6, <1>7, <2>1
  <2> HIDE DEF dom, vals, nx, pr, nxt, prv, n
  <2>3. Linked(FirstToEnd(order, n), n, dom, nxt, prv, NonExistant)
    BY <1>1, <2>2, LinkedFirstToEnd
  <2> QED BY <2>3 DEF dom, nxt, prv, n
<1>9. \A k \in 1..n : t.is_free[o[k]] = SLOT_FREE <=> k <= n - t.ref_count
  <2> TAKE k \in 1..n
  <2>1. CASE k = n
    <3>1. o[k] = f /\ t.is_free[f] = SLOT_BUSY
      BY <1>1, <1>3, <1>6, <1>7, <2>1 DEF FirstToEnd
    <3> QED BY <1>1, <1>5, <2>1, <3>1 DEF SLOT_BUSY, SLOT_FREE
  <2>2. CASE k # n
    <3>1. o[k] = order[k + 1] /\ k + 1 \in 1..n
      BY <1>1, <2>2 DEF FirstToEnd
    <3>2. order[k + 1] # f /\ order[k + 1] \in Slots(s)
      BY <1>1, <1>2, <3>1
    <3>3. t.is_free[o[k]] = s.is_free[order[k + 1]]
      BY <1>6, <1>7, <3>1, <3>2
    <3>4. s.is_free[order[k + 1]] = SLOT_FREE <=> k + 1 <= n - s.ref_count
      BY <1>2, <3>1
    <3> QED BY <1>1, <1>5, <3>3, <3>4
  <2> QED BY <2>1, <2>2
<1>10. FreelistOrder(t, o)
  <2>1. o[1] = order[2] /\ o[n] = f
    BY <1>1 DEF FirstToEnd
  <2> QED BY <1>5, <1>7, <1>8, <1>9, <2>1 DEF FreelistOrder
<1>11. AllocTouches(s) \subseteq Slots(s)
  BY <1>2, <1>3 DEF AllocTouches
<1>12. BusySlots(t) = BusySlots(s) \cup {f} /\ f \notin BusySlots(s)
  BY <1>3, <1>4, <1>5, <1>6, <1>7 DEF BusySlots, SLOT_FREE, SLOT_BUSY
<1> QED BY <1>2, <1>3, <1>4, <1>10, <1>11, <1>12 DEF t

-----------------------------------------------------------------------------
\* The first half of mem_slab_dealloc: one reference and one busy slot less.
LEMMA ReleasedFacts ==
  ASSUME NEW s, SlabTypeOK(s), s.ref_count >= 1, NEW slot \in Slots(s)
  PROVE  LET u == Released(s, slot) IN
         /\ SlabTypeOK(u) /\ Slots(u) = Slots(s)
         /\ u.size = s.size /\ u.max_refs = s.max_refs
         /\ u.allocable_buffer = s.allocable_buffer
         /\ u.freelist_start_index = s.freelist_start_index
         /\ u.freelist_end_index = s.freelist_end_index
         /\ u.next_index = s.next_index /\ u.prev_index = s.prev_index
         /\ u.ref_count = s.ref_count - 1
         /\ u.is_free = [s.is_free EXCEPT ![slot] = SLOT_FREE]
<1> DEFINE r == s.ref_count - 1
           z == [s.is_free EXCEPT ![slot] = SLOT_FREE]
           u == Released(s, slot)
<1>1. u = [s EXCEPT !.ref_count = r, !.is_free = z]
  BY DEF Released
<1>2. r \in Nat /\ z \in [Slots(s) -> {SLOT_FREE, SLOT_BUSY}]
  <2>1. s.ref_count \in Nat /\ s.is_free \in [Slots(s) -> {SLOT_FREE, SLOT_BUSY}]
    BY DEF SlabTypeOK
  <2> QED BY <2>1
<1>3. /\ u.size = s.size /\ u.max_refs = s.max_refs
      /\ u.allocable_buffer = s.allocable_buffer
      /\ u.freelist_start_index = s.freelist_start_index
      /\ u.freelist_end_index = s.freelist_end_index
      /\ u.next_index = s.next_index /\ u.prev_index = s.prev_index
      /\ u.ref_count = r /\ u.is_free = z
  <2> HIDE DEF r, z, u
  <2> QED BY <1>1 DEF SlabTypeOK
<1>4. Slots(u) = Slots(s)
  BY <1>3 DEF Slots
<1>5. SlabTypeOK(u)
  <2> HIDE DEF r, z, u
  <2> QED BY <1>1, <1>2, <1>4 DEF SlabTypeOK
<1> QED BY <1>3, <1>4, <1>5

\* The second half, for a slot with a slot in front of it.
LEMMA MovedFacts ==
  ASSUME NEW u, SlabTypeOK(u), NEW slot \in Slots(u),
         u.freelist_start_index \in Slots(u), u.prev_index[slot] \in Slots(u)
  PROVE  LET t     == MovedToFront(u, slot)
             first == u.freelist_start_index
             next  == u.next_index[slot]
             prev  == u.prev_index[slot]
         IN
         /\ SlabTypeOK(t) /\ Slots(t) = Slots(u)
         /\ t.size = u.size /\ t.max_refs = u.max_refs
         /\ t.allocable_buffer = u.allocable_buffer
         /\ t.ref_count = u.ref_count /\ t.is_free = u.is_free
         /\ t.freelist_start_index = slot
         /\ t.freelist_end_index =
              IF u.freelist_end_index = slot THEN prev ELSE u.freelist_end_index
         /\ t.next_index = [u.next_index EXCEPT ![prev] = next, ![slot] = first]
         /\ t.prev_index =
              IF next = NonExistant
              THEN [u.prev_index EXCEPT ![slot] = NonExistant, ![first] = slot]
              ELSE [u.prev_index EXCEPT ![next] = prev, ![slot] = NonExistant,
                                        ![first] = slot]
<1> DEFINE first == u.freelist_start_index
           next == u.next_index[slot]
           prev == u.prev_index[slot]
           e == IF u.freelist_end_index = slot THEN prev ELSE u.freelist_end_index
           x == [u.next_index EXCEPT ![prev] = next, ![slot] = first]
           y == IF next = NonExistant
                THEN [u.prev_index EXCEPT ![slot] = NonExistant, ![first] = slot]
                ELSE [u.prev_index EXCEPT ![next] = prev, ![slot] = NonExistant,
                                          ![first] = slot]
           t == MovedToFront(u, slot)
<1>1. /\ u.next_index \in [Slots(u) -> 0..NonExistant]
      /\ u.prev_index \in [Slots(u) -> 0..NonExistant]
      /\ u.freelist_end_index \in 0..NonExistant
      /\ first \in 0..NonExistant /\ slot \in 0..NonExistant
      /\ NonExistant \in 0..NonExistant
  <2>1. NonExistant \in Nat /\ u.max_refs \in 0..NonExistant
    BY NonExistantNat DEF SlabTypeOK
  <2>2. slot \in 0..NonExistant
    BY <2>1 DEF Slots
  <2> QED BY <2>1, <2>2 DEF SlabTypeOK
<1>2. next \in 0..NonExistant /\ prev \in 0..NonExistant
  BY <1>1
<1>3. /\ e \in 0..NonExistant
      /\ x \in [Slots(u) -> 0..NonExistant]
      /\ y \in [Slots(u) -> 0..NonExistant]
  BY <1>1, <1>2
<1>4. t = [u EXCEPT !.freelist_start_index = slot, !.freelist_end_index = e,
                    !.next_index = x, !.prev_index = y]
  BY DEF MovedToFront, EndWithout
<1>5. /\ t.size = u.size /\ t.max_refs = u.max_refs
      /\ t.allocable_buffer = u.allocable_buffer
      /\ t.ref_count = u.ref_count /\ t.is_free = u.is_free
      /\ t.freelist_start_index = slot /\ t.freelist_end_index = e
      /\ t.next_index = x /\ t.prev_index = y
  <2> HIDE DEF e, x, y, t
  <2> QED BY <1>4 DEF SlabTypeOK
<1>6. Slots(t) = Slots(u)
  BY <1>5 DEF Slots
<1>7. SlabTypeOK(t)
  <2> HIDE DEF e, x, y, t
  <2> QED BY <1>1, <1>3, <1>4, <1>6 DEF SlabTypeOK
<1> QED BY <1>5, <1>6, <1>7

-----------------------------------------------------------------------------
\* A busy slot is at a position behind all free ones.
LEMMA BusyPosition ==
  ASSUME NEW s, SlabTypeOK(s), s.max_refs >= 1, s.ref_count <= s.max_refs,
         NEW order, FreelistOrder(s, order), NEW slot \in BusySlots(s)
  PROVE  /\ s.ref_count >= 1
         /\ \E p \in 1..s.max_refs : order[p] = slot /\ p > s.max_refs - s.ref_count
<1>1. /\ \A i \in Slots(s) : \E k \in 1..s.max_refs : order[k] = i
      /\ \A k \in 1..s.max_refs :
           s.is_free[order[k]] = SLOT_FREE <=> k <= s.max_refs - s.ref_count
  BY FreelistOrderFacts, SMTT(40)
<1>2. slot \in Slots(s) /\ s.is_free[slot] # SLOT_FREE
  BY DEF BusySlots, SLOT_FREE, SLOT_BUSY
<1>3. PICK p \in 1..s.max_refs : order[p] = slot
  BY <1>1, <1>2
<1>4. s.max_refs \in Nat /\ s.ref_count \in Nat
  BY NonExistantNat DEF SlabTypeOK
<1>5. p > s.max_refs - s.ref_count
  BY <1>1, <1>2, <1>3, <1>4
<1> QED BY <1>3, <1>4, <1>5

\* When the slot is the first one, or follows a free one, it is the first of
\* the busy slots: leaving the list as it is keeps the free slots together.
LEMMA StaysOrder ==
  ASSUME NEW s, SlabTypeOK(s), s.max_refs >= 1, s.ref_count <= s.max_refs,
         NEW order, FreelistOrder(s, order), NEW slot \in BusySlots(s),
         StaysInPlace(Released(s, slot), slot)
  PROVE  FreelistOrder(Released(s, slot), order)
<1> DEFINE n == s.max_refs
           u == Released(s, slot)
<1>1. PICK p \in 1..n : order[p] = slot /\ p > n - s.ref_count
  BY BusyPosition
<1>2. s.ref_count >= 1 /\ slot \in Slots(s)
  BY BusyPosition DEF BusySlots
<1>3. /\ order \in [1..n -> Slots(s)]
      /\ \A j, k \in 1..n : order[j] = order[k] => j = k
      /\ \A k \in 1..n :
           s.is_free[order[k]] = SLOT_FREE <=> k <= n - s.ref_count
      /\ s.freelist_start_index = order[1]
  BY FreelistOrderFacts, SMTT(40)
<1>4. /\ u.max_refs = n /\ Slots(u) = Slots(s)
      /\ u.freelist_start_index = s.freelist_start_index
      /\ u.freelist_end_index = s.freelist_end_index
      /\ u.next_index = s.next_index /\ u.prev_index = s.prev_index
      /\ u.ref_count = s.ref_count - 1
      /\ u.is_free = [s.is_free EXCEPT ![slot] = SLOT_FREE]
  BY <1>2, ReleasedFacts
<1>5. n \in Nat /\ s.ref_count \in Nat /\ s.is_free \in [Slots(s) -> {SLOT_FREE, SLOT_BUSY}]
  BY NonExistantNat DEF SlabTypeOK
<1>6. StaysInPlace(u, slot)
  OBVIOUS
<1> HIDE DEF u
<1>7. p = n - s.ref_count + 1
  <2>1. CASE p = 1
    BY <1>1, <1>2, <1>5, <2>1
  <2>2. CASE p # 1
    <3>1. p - 1 \in 1..n /\ order[p - 1] # slot /\ order[p - 1] \in Slots(s)
      <4>1. p - 1 \in 1..n
        BY <1>1, <1>5, <2>2
      <4> QED BY <1>1, <1>3, <1>5, <4>1
    <3>2. s.prev_index[slot] = order[p - 1]
      BY <1>1, <2>2, FreelistOrderFacts
    <3>3. slot # s.freelist_start_index
      BY <1>1, <1>3, <2>2
    <3>4. s.is_free[order[p - 1]] = SLOT_FREE
      BY <1>4, <1>5, <1>6, <3>1, <3>2, <3>3 DEF StaysInPlace
    <3> QED BY <1>1, <1>3, <1>5, <3>1, <3>4
  <2> QED BY <2>1, <2>2
<1>8. \A k \in 1..n : u.is_free[order[k]] = SLOT_FREE <=> k <= n - u.ref_count
  <2> TAKE k \in 1..n
  <2>1. CASE k = p
    BY <1>1, <1>2, <1>4, <1>5, <1>7, <2>1
  <2>2. CASE k # p
    <3>1. order[k] # slot /\ order[k] \in Slots(s)
      BY <1>1, <1>3, <2>2
    <3>2. u.is_free[order[k]] = s.is_free[order[k]]
      BY <1>4, <1>5, <3>1
    <3> QED BY <1>3, <1>4, <1>5, <1>7, <2>2, <3>2
  <2> QED BY <2>1, <2>2
<1> QED BY <1>4, <1>8 DEF FreelistOrder, u

\* Any other busy slot follows a busy one: it moves to the front of the list,
\* before the free slots.
LEMMA MovedOrder ==
  ASSUME NEW s, SlabTypeOK(s), s.max_refs >= 1, s.ref_count <= s.max_refs,
         NEW order, FreelistOrder(s, order), NEW slot \in BusySlots(s),
         ~StaysInPlace(Released(s, slot), slot)
  PROVE  LET u == Released(s, slot)
             t == MovedToFront(u, slot)
         IN
         /\ FreelistOK(t)
         /\ u.freelist_start_index \in Slots(s) /\ u.prev_index[slot] \in Slots(s)
         /\ u.next_index[slot] \in Slots(s) \cup {NonExistant}
<1> DEFINE n == s.max_refs
           u == Released(s, slot)
           t == MovedToFront(u, slot)
<1>1. PICK p \in 1..n : order[p] = slot /\ p > n - s.ref_count
  BY BusyPosition
<1>2. s.ref_count >= 1 /\ slot \in Slots(s)
  BY BusyPosition DEF BusySlots
<1>3. /\ order \in [1..n -> Slots(s)]
      /\ \A j, k \in 1..n : order[j] = order[k] => j = k
      /\ \A k \in 1..n :
           s.is_free[order[k]] = SLOT_FREE <=> k <= n - s.ref_count
      /\ s.freelist_start_index = order[1] /\ s.freelist_end_index = order[n]
      /\ \A i \in Slots(s) : i \in Nat /\ i < NonExistant
  BY FreelistOrderFacts, SMTT(40)
<1>4. /\ u.max_refs = n /\ Slots(u) = Slots(s) /\ SlabTypeOK(u)
      /\ u.freelist_start_index = s.freelist_start_index
      /\ u.freelist_end_index = s.freelist_end_index
      /\ u.next_index = s.next_index /\ u.prev_index = s.prev_index
      /\ u.ref_count = s.ref_count - 1
      /\ u.is_free = [s.is_free EXCEPT ![slot] = SLOT_FREE]
  BY <1>2, ReleasedFacts
<1>5. /\ n \in Nat /\ n >= 1 /\ s.ref_count \in Nat /\ NonExistant \in Nat
      /\ s.is_free \in [Slots(s) -> {SLOT_FREE, SLOT_BUSY}]
      /\ s.next_index \in [Slots(s) -> 0..NonExistant]
      /\ s.prev_index \in [Slots(s) -> 0..NonExistant]
  BY NonExistantNat DEF SlabTypeOK
<1>6. /\ slot # order[1]
      /\ ~(u.is_free[u.prev_index[slot]] = SLOT_FREE)
  BY <1>3, <1>4 DEF StaysInPlace
<1>7. p \in 2..n /\ p - 1 \in 1..n
  BY <1>1, <1>5, <1>6
<1>8. /\ s.prev_index[slot] = order[p - 1]
      /\ s.next_index[slot] = IF p = n THEN NonExistant ELSE order[p + 1]
  <2>1. /\ s.next_index[order[p]] = IF p = n THEN NonExistant ELSE order[p + 1]
        /\ s.prev_index[order[p]] = IF p = 1 THEN NonExistant ELSE order[p - 1]
    BY DEF FreelistOrder, Linked
  <2> QED BY <1>1, <1>7, <2>1
<1>9. /\ order[1] \in Slots(s) /\ order[p - 1] \in Slots(s)
      /\ p # n => p + 1 \in 1..n /\ order[p + 1] \in Slots(s) /\ order[p + 1] # NonExistant
      /\ s.next_index[slot] = NonExistant <=> p = n
  <2>1. 1 \in 1..n /\ (p # n => p + 1 \in 1..n)
    BY <1>5, <1>7
  <2>2. NonExistant \notin Slots(s)
    BY <1>3, <1>5
  <2>3. \A k \in 1..n : order[k] \in Slots(s)
    BY <1>3
  <2> HIDE DEF n
  <2> QED BY <1>7, <1>8, <2>1, <2>2, <2>3
<1>10. /\ SlabTypeOK(t) /\ Slots(t) = Slots(s) /\ t.max_refs = n
       /\ t.ref_count = s.ref_count - 1 /\ t.is_free = u.is_free
       /\ t.freelist_start_index = slot
       /\ t.freelist_end_index = IF order[n] = slot THEN order[p - 1] ELSE order[n]
       /\ t.next_index = [s.next_index EXCEPT ![order[p - 1]] = s.next_index[slot],
                                              ![slot] = order[1]]
       /\ t.prev_index =
            IF s.next_index[slot] = NonExistant
            THEN [s.prev_index EXCEPT ![slot] = NonExistant, ![order[1]] = slot]
            ELSE [s.prev_index EXCEPT ![s.next_index[slot]] = order[p - 1],
                                      ![slot] = NonExistant, ![order[1]] = slot]
  <2>1. /\ u.freelist_start_index = order[1] /\ u.prev_index[slot] = order[p - 1]
        /\ u.next_index[slot] = s.next_index[slot] /\ u.freelist_end_index = order[n]
    BY <1>3, <1>4, <1>8
  <2>2. slot \in Slots(u) /\ u.freelist_start_index \in Slots(u) /\ u.prev_index[slot] \in Slots(u)
    BY <1>2, <1>4, <1>9, <2>1
  <2> HIDE DEF u
  <2>3. LET first == u.freelist_start_index
            next  == u.next_index[slot]
            prev  == u.prev_index[slot]
        IN
        /\ SlabTypeOK(t) /\ Slots(t) = Slots(u) /\ t.max_refs = u.max_refs
        /\ t.ref_count = u.ref_count /\ t.is_free = u.is_free
        /\ t.freelist_start_index = slot
        /\ t.freelist_end_index =
             IF u.freelist_end_index = slot THEN prev ELSE u.freelist_end_index
        /\ t.next_index = [u.next_index EXCEPT ![prev] = next, ![slot] = first]
        /\ t.prev_index =
             IF next = NonExistant
             THEN [u.prev_index EXCEPT ![slot] = NonExistant, ![first] = slot]
             ELSE [u.prev_index EXCEPT ![next] = prev, ![slot] = NonExistant,
                                       ![first] = slot]
    BY <1>4, <2>2, MovedFacts
  <2> QED BY <1>4, <2>1, <2>3
<1> DEFINE o == ToFront(order, n, p)
<1>11. Linked(o, n, Slots(s), t.next_index, t.prev_index, NonExistant)
  <2> DEFINE dom == Slots(s)
             vals == 0..NonExistant
             nx == s.next_index
             pr == s.prev_index
             nxt == t.next_index
             prv == t.prev_index
  <2>1. /\ nx \in [dom -> vals] /\ pr \in [dom -> vals] /\ dom \subseteq dom
        /\ Linked(order, n, dom, nx, pr, NonExistant)
    BY <1>5 DEF FreelistOrder
  <2>2. nxt = [nx EXCEPT ![order[p - 1]] = nx[order[p]], ![order[p]] = order[1]]
    BY <1>1, <1>10
  <2>3. prv = IF p = n
              THEN [pr EXCEPT ![order[p]] = NonExistant, ![order[1]] = order[p]]
              ELSE [pr EXCEPT ![order[p + 1]] = order[p - 1],
                              ![order[p]] = NonExistant, ![order[1]] = order[p]]
    <3>1. CASE p = n
      BY <1>1, <1>9, <1>10, <3>1
    <3>2. CASE p # n
      BY <1>1, <1>8, <1>9, <1>10, <3>2
    <3> QED BY <3>1, <3>2
  <2> HIDE DEF dom, vals, nx, pr, nxt, prv, n
  <2>4. Linked(ToFront(order, n, p), n, dom, nxt, prv, NonExistant)
    BY <1>5, <1>7, <2>1, <2>2, <2>3, LinkedToFront
  <2> QED BY <2>4 DEF dom, nxt, prv, n
<1>12. s.is_free[order[p - 1]] # SLOT_FREE /\ p - 1 > n - s.ref_count
  <2>1. order[p - 1] # slot
    BY <1>1, <1>3, <1>7
  <2>2. s.is_free[order[p - 1]] # SLOT_FREE
    BY <1>4, <1>5, <1>6, <1>8, <1>9, <2>1
  <2> QED BY <1>3, <1>5, <1>7, <2>2
<1> HIDE DEF t, u
<1>13. \A k \in 1..n : t.is_free[o[k]] = SLOT_FREE <=> k <= n - t.ref_count
  <2> TAKE k \in 1..n
  <2>1. CASE k = 1
    <3>1. o[k] = slot
      BY <1>1, <2>1 DEF ToFront
    <3>2. t.is_free[slot] = SLOT_FREE
      BY <1>2, <1>4, <1>5, <1>10
    <3>3. s.ref_count <= n
      OBVIOUS
    <3> QED BY <1>5, <1>10, <2>1, <3>1, <3>2, <3>3
  <2>2. CASE k \in 2..p
    <3>1. o[k] = order[k - 1] /\ k - 1 \in 1..n /\ k - 1 # p
      BY <1>5, <2>2 DEF ToFront
    <3>2. order[k - 1] # slot /\ order[k - 1] \in Slots(s)
      BY <1>1, <1>3, <3>1
    <3>3. t.is_free[o[k]] = s.is_free[order[k - 1]]
      BY <1>4, <1>5, <1>10, <3>1, <3>2
    <3>4. s.is_free[order[k - 1]] = SLOT_FREE <=> k - 1 <= n - s.ref_count
      BY <1>3, <3>1
    <3> QED BY <1>5, <1>10, <3>3, <3>4
  <2>3. CASE k \in (p + 1)..n
    <3>1. o[k] = order[k] /\ k # p
      BY <1>5, <2>3 DEF ToFront
    <3>2. order[k] # slot /\ order[k] \in Slots(s)
      BY <1>1, <1>3, <3>1
    <3>3. t.is_free[o[k]] = s.is_free[order[k]]
      BY <1>4, <1>5, <1>10, <3>1, <3>2
    <3>4. s.is_free[order[k]] = SLOT_FREE <=> k <= n - s.ref_count
      BY <1>3
    <3> QED BY <1>1, <1>5, <1>10, <2>3, <3>3, <3>4
  <2> QED BY <1>5, <2>1, <2>2, <2>3
<1>14. o[1] = slot /\ o[n] = IF p = n THEN order[n - 1] ELSE order[n]
  BY <1>1, <1>5, <1>7 DEF ToFront
<1>15. t.freelist_end_index = o[n]
  <2>1. order[n] = slot <=> p = n
    BY <1>1, <1>3, <1>5
  <2> QED BY <1>10, <1>14, <2>1
<1>16. FreelistOrder(t, o)
  BY <1>10, <1>11, <1>13, <1>14, <1>15 DEF FreelistOrder
<1>17. FreelistOK(t)
  <2>1. o \in [1..n -> Slots(s)]
    BY <1>11 DEF Linked
  <2> HIDE DEF o
  <2> QED BY <1>10, <1>16, <2>1 DEF FreelistOK
<1> QED BY <1>3, <1>4, <1>8, <1>9, <1>17 DEF t, u

-----------------------------------------------------------------------------
(* The operations on well-formed slabs. *)

\* prepare_slab_header gives every field a value of its C type, even when the
\* page has no room for a buffer.
LEMMA PreparedTypeOK ==
  ASSUME NEW page, PageAligned(page), NEW size \in Nat \ {0}
  PROVE  LET s == PreparedSlab(page, size)
             n == NumBuffers(size)
         IN
         /\ SlabTypeOK(s)
         /\ n \in Nat /\ n < NonExistant
         /\ s.size = size /\ s.ref_count = 0 /\ s.max_refs = n
         /\ s.freelist_start_index = 0
         /\ n >= 1 => s.freelist_end_index = n - 1
         /\ s.allocable_buffer = AllocableBuffer(page, size)
         /\ Slots(s) = 0..(n - 1)
         /\ s.next_index = [i \in 0..(n - 1) |-> IF i = n - 1 THEN NonExistant ELSE i + 1]
         /\ s.prev_index = [i \in 0..(n - 1) |-> IF i = 0 THEN NonExistant ELSE i - 1]
         /\ s.is_free = [i \in 0..(n - 1) |-> SLOT_FREE]
<1> DEFINE n == NumBuffers(size)
           s == PreparedSlab(page, size)
<1>1. n \in Nat /\ n <= 4032
  <2>1. /\ n \in 0..4032 /\ size * n \in Nat /\ n <= size * n
        /\ 5 * (size * n) <= PageSize - HeaderSize
    BY NumBuffersFit
  <2> HIDE DEF n
  <2> QED BY <2>1
<1>2. /\ UInt16(n - 1) \in 0..NonExistant /\ n < NonExistant
      /\ n >= 1 => UInt16(n - 1) = n - 1
  <2> HIDE DEF n
  <2>1. n >= 1 => UInt16(n - 1) = n - 1
    BY <1>1 DEF UInt16
  <2>2. UInt16(n - 1) \in 0..NonExistant
    <3> DEFINE k == n - 1
    <3>1. k \in Int
      BY <1>1
    <3> HIDE DEF k
    <3>2. UInt16(k) \in 0..NonExistant
      BY <3>1, UInt16Type
    <3> QED BY <3>2 DEF k
  <2>3. n < NonExistant /\ NonExistant \in 0..NonExistant
    BY <1>1 DEF NonExistant
  <2> QED BY <1>1, <2>1, <2>2, <2>3, NonExistantNat
<1>3. AllocableBuffer(page, size) \in Nat
  <2>1. page \in Nat
    BY DEF PageAligned
  <2>2. AllocableBuffer(page, size) = page + 64 + n
    BY DEF AllocableBuffer, FreelistBuffer, HeaderSize
  <2> HIDE DEF n
  <2> QED BY <1>1, <2>1, <2>2
<1>4. /\ s.size = size /\ s.ref_count = 0 /\ s.max_refs = n
      /\ s.freelist_start_index = 0 /\ s.freelist_end_index = UInt16(n - 1)
      /\ s.allocable_buffer = AllocableBuffer(page, size)
      /\ Slots(s) = 0..(n - 1)
      /\ s.next_index = [i \in 0..(n - 1) |-> IF i = n - 1 THEN NonExistant ELSE i + 1]
      /\ s.prev_index = [i \in 0..(n - 1) |-> IF i = 0 THEN NonExistant ELSE i - 1]
      /\ s.is_free = [i \in 0..(n - 1) |-> SLOT_FREE]
  BY DEF PreparedSlab, LastIndex, Slots
<1>5. SlabTypeOK(s)
  <2>1. /\ s.next_index \in [0..(n - 1) -> 0..NonExistant]
        /\ s.prev_index \in [0..(n - 1) -> 0..NonExistant]
        /\ s.is_free \in [0..(n - 1) -> {SLOT_FREE, SLOT_BUSY}]
    <3> HIDE DEF n, s
    <3> QED BY <1>1, <1>2, <1>4, NonExistantNat
  <2>2. s = [size |-> s.size, ref_count |-> s.ref_count, max_refs |-> s.max_refs,
             freelist_start_index |-> s.freelist_start_index,
             freelist_end_index |-> s.freelist_end_index,
             allocable_buffer |-> s.allocable_buffer,
             next_index |-> s.next_index, prev_index |-> s.prev_index,
             is_free |-> s.is_free]
    BY DEF PreparedSlab
  <2> HIDE DEF n, s
  <2>3. n \in 0..NonExistant /\ 0 \in 0..NonExistant
    BY <1>1, <1>2, NonExistantNat
  <2> QED BY <1>2, <1>3, <1>4, <2>1, <2>2, <2>3 DEF SlabTypeOK
<1> HIDE DEF n, s
<1>6. n >= 1 => s.freelist_end_index = n - 1
  BY <1>2, <1>4
<1> QED BY <1>1, <1>2, <1>4, <1>5, <1>6 DEF n, s

\* It makes a well-formed slab with no reference, and stays within the bufctl
\* array, when the page has room for a buffer at all.
LEMMA PreparedOK ==
  ASSUME NEW page, PageAligned(page), NEW size \in Nat \ {0}, NumBuffers(size) >= 1
  PROVE  LET s == PreparedSlab(page, size) IN
         /\ WellFormed(page, s)
         /\ BusySlots(s) = {}
         /\ PreparedTouches(s) \subseteq Slots(s)
<1> DEFINE n == NumBuffers(size)
           s == PreparedSlab(page, size)
           order == [k \in 1..n |-> k - 1]
<1>1. /\ SlabTypeOK(s)
      /\ n \in Nat /\ n < NonExistant /\ n >= 1
      /\ s.size = size /\ s.ref_count = 0 /\ s.max_refs = n
      /\ s.freelist_start_index = 0 /\ s.freelist_end_index = n - 1
      /\ s.allocable_buffer = AllocableBuffer(page, size)
      /\ Slots(s) = 0..(n - 1)
      /\ s.next_index = [i \in 0..(n - 1) |-> IF i = n - 1 THEN NonExistant ELSE i + 1]
      /\ s.prev_index = [i \in 0..(n - 1) |-> IF i = 0 THEN NonExistant ELSE i - 1]
      /\ s.is_free = [i \in 0..(n - 1) |-> SLOT_FREE]
  BY PreparedTypeOK
<1> HIDE DEF n, s
<1>2. Linked(order, n, Slots(s), s.next_index, s.prev_index, NonExistant)
  <2>1. \A x \in Slots(s) : x + 1 \in 1..n /\ order[x + 1] = x
    BY <1>1
  <2>2. order \in [1..n -> Slots(s)]
    BY <1>1
  <2>3. \A k \in 1..n :
          /\ s.next_index[order[k]] = IF k = n THEN NonExistant ELSE order[k + 1]
          /\ s.prev_index[order[k]] = IF k = 1 THEN NonExistant ELSE order[k - 1]
    BY <1>1
  <2>4. \A j, k \in 1..n : order[j] = order[k] => j = k
    OBVIOUS
  <2> HIDE DEF order
  <2> QED BY <2>1, <2>2, <2>3, <2>4 DEF Linked
<1>3. FreelistOK(s)
  <2>1. FreelistOrder(s, order)
    BY <1>1, <1>2 DEF FreelistOrder
  <2>2. order \in [1..n -> Slots(s)]
    BY <1>2 DEF Linked
  <2> HIDE DEF order
  <2> QED BY <1>1, <2>1, <2>2 DEF FreelistOK
<1>4. BusySlots(s) = {}
  BY <1>1 DEF BusySlots, SLOT_FREE, SLOT_BUSY
<1>5. PreparedTouches(s) \subseteq Slots(s)
  BY <1>1 DEF PreparedTouches
<1>6. WellFormed(page, s)
  BY <1>1, <1>3 DEF WellFormed, n
<1> QED BY <1>4, <1>5, <1>6 DEF s

\* mem_slab_alloc on a well-formed slab of two buffers or more.
LEMMA AllocOK ==
  ASSUME NEW page, NEW s, WellFormed(page, s), s.max_refs >= 2, HasFreeSlot(s)
  PROVE  LET t == SlabAlloc(s) IN
         /\ WellFormed(page, t)
         /\ t.size = s.size /\ t.max_refs = s.max_refs
         /\ t.allocable_buffer = s.allocable_buffer
         /\ t.ref_count = s.ref_count + 1
         /\ AllocTouches(s) \subseteq Slots(s)
         /\ s.freelist_start_index \in Slots(s) \ BusySlots(s)
         /\ BusySlots(t) = BusySlots(s) \cup {s.freelist_start_index}
<1> DEFINE t == SlabAlloc(s)
<1>1. /\ SlabTypeOK(s) /\ s.ref_count <= s.max_refs /\ s.size \in Nat \ {0}
      /\ s.max_refs = NumBuffers(s.size)
      /\ s.allocable_buffer = AllocableBuffer(page, s.size)
  BY DEF WellFormed
<1>2. PICK order \in [1..s.max_refs -> Slots(s)] : FreelistOrder(s, order)
  BY DEF WellFormed, FreelistOK
<1>3. /\ FreelistOrder(t, FirstToEnd(order, s.max_refs))
      /\ s.ref_count < s.max_refs
      /\ AllocTouches(s) \subseteq Slots(s)
      /\ s.freelist_start_index \in Slots(s) \ BusySlots(s)
      /\ BusySlots(t) = BusySlots(s) \cup {s.freelist_start_index}
  BY <1>1, <1>2, AllocOrder
<1>4. /\ SlabTypeOK(t) /\ Slots(t) = Slots(s)
      /\ t.size = s.size /\ t.max_refs = s.max_refs
      /\ t.allocable_buffer = s.allocable_buffer
      /\ t.ref_count = s.ref_count + 1
  BY <1>1, <1>3, AllocTypeOK
<1> HIDE DEF t
<1>5. FreelistOK(t)
  <2>1. FirstToEnd(order, s.max_refs) \in [1..t.max_refs -> Slots(t)]
    BY <1>3, <1>4 DEF FreelistOrder, Linked
  <2> QED BY <1>3, <2>1 DEF FreelistOK
<1>6. t.ref_count <= t.max_refs
  <2>1. s.ref_count \in Nat /\ s.max_refs \in Nat
    BY <1>1, NonExistantNat DEF SlabTypeOK
  <2> QED BY <1>3, <1>4, <2>1
<1>7. WellFormed(page, t)
  BY <1>1, <1>4, <1>5, <1>6 DEF WellFormed
<1> QED BY <1>3, <1>4, <1>7 DEF t

\* On a slab of a single buffer it writes to bufctl 65535.
LEMMA AllocSingle ==
  ASSUME NEW page, NEW s, WellFormed(page, s), s.max_refs < 2, HasFreeSlot(s)
  PROVE  /\ ~(AllocTouches(s) \subseteq Slots(s))
         /\ s.freelist_start_index \in Slots(s)
<1>1. /\ SlabTypeOK(s) /\ s.max_refs >= 1 /\ s.max_refs \in Nat
  BY NonExistantNat DEF WellFormed, SlabTypeOK
<1>2. s.max_refs = 1 /\ 1 \in 1..1
  BY <1>1
<1>3. PICK order \in [1..s.max_refs -> Slots(s)] : FreelistOrder(s, order)
  BY DEF WellFormed, FreelistOK
<1>4. s.freelist_start_index = order[1] /\ s.freelist_start_index \in Slots(s)
  BY <1>2, <1>3 DEF FreelistOrder
<1>5. s.next_index[order[1]] = NonExistant
  BY <1>2, <1>3 DEF FreelistOrder, Linked
<1>6. NonExistant \notin Slots(s)
  BY <1>2 DEF Slots, NonExistant
<1> QED BY <1>4, <1>5, <1>6 DEF AllocTouches

\* What moving a slot to the front leaves of the header and of is_free.
LEMMA MovedHeader ==
  ASSUME NEW u, SlabTypeOK(u), NEW slot,
         slot \in Slots(u), u.freelist_start_index \in Slots(u),
         u.prev_index[slot] \in Slots(u)
  PROVE  LET m == MovedToFront(u, slot) IN
         /\ SlabTypeOK(m) /\ Slots(m) = Slots(u)
         /\ m.size = u.size /\ m.max_refs = u.max_refs
         /\ m.allocable_buffer = u.allocable_buffer
         /\ m.ref_count = u.ref_count /\ m.is_free = u.is_free
BY MovedFacts, ZenonT(60)

\* mem_slab_dealloc of a busy slot of a well-formed slab.
LEMMA DeallocOK ==
  ASSUME NEW page, NEW s, WellFormed(page, s), NEW slot \in BusySlots(s)
  PROVE  LET t == SlabDealloc(s, slot) IN
         /\ WellFormed(page, t)
         /\ t.size = s.size /\ t.max_refs = s.max_refs
         /\ t.allocable_buffer = s.allocable_buffer
         /\ t.ref_count = s.ref_count - 1
         /\ DeallocTouches(s, slot) \subseteq Slots(s)
         /\ BusySlots(t) = BusySlots(s) \ {slot}
<1> DEFINE u == Released(s, slot)
           t == SlabDealloc(s, slot)
<1>1. /\ SlabTypeOK(s) /\ s.ref_count <= s.max_refs /\ s.size \in Nat \ {0}
      /\ s.max_refs >= 1 /\ s.max_refs = NumBuffers(s.size)
      /\ s.allocable_buffer = AllocableBuffer(page, s.size)
  BY DEF WellFormed
<1>2. PICK order \in [1..s.max_refs -> Slots(s)] : FreelistOrder(s, order)
  BY DEF WellFormed, FreelistOK
<1>3. s.ref_count >= 1 /\ slot \in Slots(s)
  BY <1>1, <1>2, BusyPosition DEF BusySlots
<1>4. /\ SlabTypeOK(u) /\ Slots(u) = Slots(s)
      /\ u.size = s.size /\ u.max_refs = s.max_refs
      /\ u.allocable_buffer = s.allocable_buffer
      /\ u.freelist_start_index = s.freelist_start_index
      /\ u.next_index = s.next_index /\ u.prev_index = s.prev_index
      /\ u.ref_count = s.ref_count - 1
      /\ u.is_free = [s.is_free EXCEPT ![slot] = SLOT_FREE]
  BY <1>1, <1>3, ReleasedFacts
<1> HIDE DEF u
<1>5. /\ SlabTypeOK(t) /\ Slots(t) = Slots(s) /\ FreelistOK(t)
      /\ t.size = s.size /\ t.max_refs = s.max_refs
      /\ t.allocable_buffer = s.allocable_buffer
      /\ t.ref_count = s.ref_count - 1 /\ t.is_free = u.is_free
      /\ DeallocTouches(s, slot) \subseteq Slots(s)
  <2>1. CASE StaysInPlace(u, slot)
    <3>1. t = u
      BY <2>1 DEF SlabDealloc, u
    <3>2. FreelistOrder(u, order)
      BY <1>1, <1>2, <2>1, StaysOrder DEF u
    <3>3. FreelistOK(u)
      BY <1>2, <1>4, <3>2 DEF FreelistOK
    <3>4. slot # s.freelist_start_index => s.prev_index[slot] \in Slots(s)
      <4>1. PICK p \in 1..s.max_refs : order[p] = slot
        BY <1>2, <1>3 DEF FreelistOrder, Linked
      <4>2. /\ s.prev_index[order[p]] = IF p = 1 THEN NonExistant ELSE order[p - 1]
            /\ s.freelist_start_index = order[1]
        BY <1>2 DEF FreelistOrder, Linked
      <4>3. s.max_refs \in Nat
        BY <1>1, NonExistantNat DEF SlabTypeOK
      <4>4. p # 1 => p - 1 \in 1..s.max_refs
        BY <4>3
      <4> QED BY <1>2, <4>1, <4>2, <4>4
    <3>5. DeallocTouches(s, slot) \subseteq Slots(s)
      BY <1>3, <2>1, <3>4 DEF DeallocTouches, u
    <3> QED BY <1>4, <3>1, <3>3, <3>5
  <2>2. CASE ~StaysInPlace(u, slot)
    <3>1. t = MovedToFront(u, slot)
      BY <2>2 DEF SlabDealloc, u
    <3>2. /\ FreelistOK(MovedToFront(u, slot))
          /\ u.freelist_start_index \in Slots(s) /\ u.prev_index[slot] \in Slots(s)
          /\ u.next_index[slot] \in Slots(s) \cup {NonExistant}
      BY <1>1, <1>2, <2>2, MovedOrder DEF u
    <3>3. /\ SlabTypeOK(t) /\ Slots(t) = Slots(u)
          /\ t.size = u.size /\ t.max_refs = u.max_refs
          /\ t.allocable_buffer = u.allocable_buffer
          /\ t.ref_count = u.ref_count /\ t.is_free = u.is_free
      <4>1. /\ slot \in Slots(u) /\ u.freelist_start_index \in Slots(u)
            /\ u.prev_index[slot] \in Slots(u)
        BY <1>3, <1>4, <3>2
      <4>2. SlabTypeOK(u)
        BY <1>4
      <4>3. LET m == MovedToFront(u, slot) IN
            /\ SlabTypeOK(m) /\ Slots(m) = Slots(u)
            /\ m.size = u.size /\ m.max_refs = u.max_refs
            /\ m.allocable_buffer = u.allocable_buffer
            /\ m.ref_count = u.ref_count /\ m.is_free = u.is_free
        BY <4>1, <4>2, MovedHeader
      <4> HIDE DEF t
      <4> QED BY <3>1, <4>3
    <3>4. DeallocTouches(s, slot) \subseteq Slots(s)
      BY <1>3, <1>4, <2>2, <3>2 DEF DeallocTouches, u
    <3> HIDE DEF t
    <3> QED BY <1>4, <3>1, <3>2, <3>3, <3>4
  <2> QED BY <2>1, <2>2
<1> HIDE DEF t
<1>6. BusySlots(t) = BusySlots(s) \ {slot}
  <2>1. s.is_free \in [Slots(s) -> {SLOT_FREE, SLOT_BUSY}]
    BY <1>1 DEF SlabTypeOK
  <2> QED BY <1>3, <1>4, <1>5, <2>1 DEF BusySlots, SLOT_FREE, SLOT_BUSY
<1>7. t.ref_count <= t.max_refs
  <2>1. s.ref_count \in Nat /\ s.max_refs \in Nat
    BY <1>1, NonExistantNat DEF SlabTypeOK
  <2> QED BY <1>1, <1>5, <2>1
<1>8. WellFormed(page, t)
  BY <1>1, <1>5, <1>7 DEF WellFormed
<1> QED BY <1>5, <1>6, <1>8 DEF t

\* mem_slab_alloc returns NULL only on a slab whose slots are all busy.
LEMMA NoFreeSlotOK ==
  ASSUME NEW page, NEW s, WellFormed(page, s), ~HasFreeSlot(s)
  PROVE  s.ref_count = s.max_refs /\ BusySlots(s) = Slots(s)
<1>1. /\ s.max_refs \in Nat /\ s.max_refs >= 1 /\ s.ref_count \in Nat
      /\ s.ref_count <= s.max_refs /\ SlabTypeOK(s)
      /\ s.is_free \in [Slots(s) -> {SLOT_FREE, SLOT_BUSY}]
  BY NonExistantNat DEF WellFormed, SlabTypeOK
<1>2. PICK order \in [1..s.max_refs -> Slots(s)] : FreelistOrder(s, order)
  BY DEF WellFormed, FreelistOK
<1>3. /\ \A i \in Slots(s) : \E k \in 1..s.max_refs : order[k] = i
      /\ \A k \in 1..s.max_refs :
           s.is_free[order[k]] = SLOT_FREE <=> k <= s.max_refs - s.ref_count
      /\ s.freelist_start_index = order[1]
  BY <1>2 DEF FreelistOrder, Linked
<1>4. s.is_free[order[1]] # SLOT_FREE /\ 1 \in 1..s.max_refs
  BY <1>1, <1>3 DEF HasFreeSlot
<1>5. ~(1 <= s.max_refs - s.ref_count)
  BY <1>3, <1>4
<1>6. s.ref_count = s.max_refs
  BY <1>1, <1>5
<1>7. \A k \in 1..s.max_refs : s.is_free[order[k]] # SLOT_FREE
  BY <1>1, <1>3, <1>6
<1>8. \A i \in Slots(s) : s.is_free[i] = SLOT_BUSY
  BY <1>1, <1>3, <1>7
<1> QED BY <1>6, <1>8 DEF BusySlots

-----------------------------------------------------------------------------
\* The buffer of every slot of a slab lies in its page, and the slot can be
\* found again from its address: two slots have different buffers.
LEMMA SlotPtr ==
  ASSUME NEW page, PageAligned(page),
         NEW s, s.size \in Nat \ {0}, s.max_refs = NumBuffers(s.size),
         s.allocable_buffer = AllocableBuffer(page, s.size), NEW i \in Slots(s)
  PROVE  LET ptr == BufferPtr(s.allocable_buffer, s.size, i) IN
         /\ ptr \in Nat /\ ptr # NULL
         /\ SlotOf(s, ptr) = i
         /\ page + HeaderSize <= ptr /\ ptr + s.size <= page + PageSize
         /\ PagePointer(ptr) = page
<1>1. i \in 0..(NumBuffers(s.size) - 1)
  BY DEF Slots
<1>2. LET buffer == AllocableBuffer(page, s.size)
          ptr    == BufferPtr(buffer, s.size, i)
      IN  /\ buffer \in Nat \ {NULL} /\ ptr \in Nat \ {NULL}
          /\ page + HeaderSize <= ptr
          /\ ptr + s.size <= page + PageSize
          /\ PagePointer(ptr) = page
          /\ BufferIndex(buffer, s.size, ptr) = i
  BY <1>1, BufferInPage
<1> QED BY <1>2 DEF SlotOf

\* Adding a slot to a set of slots, or taking one away, adds or takes away
\* its buffer.
LEMMA PtrsOfChange ==
  ASSUME NEW page, PageAligned(page),
         NEW s, s.size \in Nat \ {0}, s.max_refs = NumBuffers(s.size),
         s.allocable_buffer = AllocableBuffer(page, s.size),
         NEW t, t.size = s.size, t.allocable_buffer = s.allocable_buffer,
         NEW i \in Slots(s), NEW A \in SUBSET Slots(s)
  PROVE  LET ptr == BufferPtr(s.allocable_buffer, s.size, i) IN
         /\ PtrsOf(t, A) = PtrsOf(s, A)
         /\ PtrsOf(t, A \cup {i}) = PtrsOf(s, A) \cup {ptr}
         /\ PtrsOf(t, A \ {i}) = PtrsOf(s, A) \ {ptr}
         /\ ptr \in PtrsOf(s, A) <=> i \in A
<1> DEFINE ptr(j) == BufferPtr(s.allocable_buffer, s.size, j)
<1>1. \A j \in Slots(s) : SlotOf(s, ptr(j)) = j
  BY SlotPtr
<1>2. \A j \in Slots(s) : ptr(j) = ptr(i) => j = i
  BY <1>1
<1>3. \A B : PtrsOf(s, B) = {ptr(j) : j \in B} /\ PtrsOf(t, B) = {ptr(j) : j \in B}
  BY DEF PtrsOf
<1> HIDE DEF ptr
<1>4. PtrsOf(t, A \cup {i}) = PtrsOf(s, A) \cup {ptr(i)}
  BY <1>3
<1>5. PtrsOf(t, A \ {i}) = PtrsOf(s, A) \ {ptr(i)}
  BY <1>2, <1>3
<1>6. ptr(i) \in PtrsOf(s, A) <=> i \in A
  BY <1>2, <1>3
<1> QED BY <1>3, <1>4, <1>5, <1>6 DEF ptr

-----------------------------------------------------------------------------
(* Lists of slabs. *)

\* A pool's list of the slabs nodes: what its fields are, and that its links
\* lead from list_start through all of them, in this order, to list_end.  The
\* links are those of all mapped slabs, dom, as other pools have slabs, too.
ListTypeOK(l, dom, nodes) ==
  /\ nodes \subseteq dom
  /\ l \in [start : nodes \cup {NULL}, end : nodes \cup {NULL},
            next : [dom -> dom \cup {NULL}], prev : [dom -> dom \cup {NULL}]]

ListOrder(l, nodes, n, order) ==
  /\ Linked(order, n, nodes, l.next, l.prev, NULL)
  /\ order[1] = l.start
  /\ order[n] = l.end

IsList(l, dom, nodes, n) ==
  /\ ListTypeOK(l, dom, nodes)
  /\ n \in Nat \ {0}
  /\ \E order \in [1..n -> nodes] : ListOrder(l, nodes, n, order)

\* Two lists with the same links outside a set of slabs.
SameElsewhere(l, m, dom, nodes) ==
  \A x \in dom \ nodes : m.next[x] = l.next[x] /\ m.prev[x] = l.prev[x]

\* What a proof about one list starts from.
Shape(l, dom, nodes, n, order) ==
  /\ order \in [1..n -> nodes]
  /\ \A x \in nodes : \E k \in 1..n : order[k] = x
  /\ \A j, k \in 1..n : order[j] = order[k] => j = k
  /\ \A k \in 1..n :
       /\ l.next[order[k]] = IF k = n THEN NULL ELSE order[k + 1]
       /\ l.prev[order[k]] = IF k = 1 THEN NULL ELSE order[k - 1]
  /\ l.start = order[1] /\ l.end = order[n]
  /\ l.start \in nodes /\ l.end \in nodes
  /\ \A k \in 1..n : order[k] \in nodes /\ order[k] # NULL
  /\ nodes \subseteq dom
  /\ l.next \in [dom -> dom \cup {NULL}]
  /\ l.prev \in [dom -> dom \cup {NULL}]
  /\ DOMAIN l.next = dom /\ DOMAIN l.prev = dom

LEMMA ListShape ==
  ASSUME NEW l, NEW dom, NULL \notin dom, NEW nodes, NEW n, IsList(l, dom, nodes, n)
  PROVE  /\ n \in Nat \ {0} /\ 1 \in 1..n /\ n \in 1..n
         /\ ListTypeOK(l, dom, nodes)
         /\ \E order \in [1..n -> nodes] :
              /\ Linked(order, n, nodes, l.next, l.prev, NULL)
              /\ Shape(l, dom, nodes, n, order)
<1>1. n \in Nat \ {0} /\ 1 \in 1..n /\ n \in 1..n /\ ListTypeOK(l, dom, nodes)
  BY DEF IsList
<1>2. PICK order \in [1..n -> nodes] : ListOrder(l, nodes, n, order)
  BY DEF IsList
<1>3. /\ nodes \subseteq dom
      /\ l.next \in [dom -> dom \cup {NULL}]
      /\ l.prev \in [dom -> dom \cup {NULL}]
  BY <1>1 DEF ListTypeOK
<1>4. Shape(l, dom, nodes, n, order)
  BY <1>1, <1>2, <1>3 DEF ListOrder, Linked, Shape
<1> QED BY <1>1, <1>2, <1>4 DEF ListOrder

\* The number of slabs on a list is the number of slabs there are.
LEMMA ListCardinality ==
  ASSUME NEW l, NEW dom, NEW nodes, NEW n, IsList(l, dom, nodes, n)
  PROVE  IsFiniteSet(nodes) /\ Cardinality(nodes) = n
<1>1. n \in Nat
  BY DEF IsList
<1>2. PICK order \in [1..n -> nodes] : ListOrder(l, nodes, n, order)
  BY DEF IsList
<1>3. order \in Bijection(1..n, nodes)
  BY <1>2 DEF ListOrder, Linked, Bijection, Injection, Surjection, IsInjective
<1>4. ExistsBijection(1..n, nodes)
  BY <1>3 DEF ExistsBijection
<1>5. IsFiniteSet(1..n) /\ Cardinality(1..n) = n
  BY <1>1, FS_Interval
<1> QED BY <1>4, <1>5, FS_Bijection

-----------------------------------------------------------------------------
\* move_slab_to_end_of_the_list on the first slab, which is how
\* slab_pool_allocate uses it.
LEMMA MoveToEndOK ==
  ASSUME NEW l, NEW dom, NULL \notin dom, NEW nodes, NEW n, IsList(l, dom, nodes, n)
  PROVE  /\ IsList(SecondFirst(l), dom, nodes, n)
         /\ SameElsewhere(l, SecondFirst(l), dom, nodes)
<1> DEFINE m == MoveToEnd(l, l.start)
<1>1. PICK order \in [1..n -> nodes] :
        /\ Linked(order, n, nodes, l.next, l.prev, NULL)
        /\ Shape(l, dom, nodes, n, order)
  BY ListShape
<1>2. /\ n \in Nat \ {0} /\ ListTypeOK(l, dom, nodes) /\ 1 \in 1..n
      /\ n # 1 => 2 \in 1..n
  BY ListShape
<1>3. /\ l.start = order[1] /\ l.end = order[n]
      /\ l.start \in nodes /\ l.end \in nodes
      /\ l.prev[l.start] = NULL
      /\ l.next[l.start] = IF n = 1 THEN NULL ELSE order[2]
      /\ n # 1 => order[2] \in nodes /\ order[2] # NULL
      /\ DOMAIN l.next = dom /\ DOMAIN l.prev = dom /\ nodes \subseteq dom
      /\ l.next \in [dom -> dom \cup {NULL}]
      /\ l.prev \in [dom -> dom \cup {NULL}]
  BY <1>1, <1>2 DEF Shape
<1>4. CASE n = 1
  BY <1>2, <1>3, <1>4 DEF SecondFirst, MoveToEnd, SameElsewhere
<1>5. CASE n # 1
  <2> DEFINE nxt == [l.next EXCEPT ![order[n]] = order[1], ![order[1]] = NULL]
             prv == [l.prev EXCEPT ![order[2]] = NULL, ![order[1]] = order[n]]
  <2>1. m.start = order[2] /\ m.end = order[1] /\ m.prev = prv
    BY <1>3, <1>5 DEF MoveToEnd
  <2>2. m.next = nxt
    <3>1. m.next = [p \in dom |-> CASE p = order[1] -> NULL
                                      [] p = order[n] -> order[1]
                                      [] p = NULL -> order[2]
                                      [] OTHER -> l.next[p]]
      BY <1>3, <1>5 DEF MoveToEnd
    <3> QED BY <1>3, <3>1
  <2>3. m = [start |-> m.start, end |-> m.end, next |-> m.next, prev |-> m.prev]
    BY <1>3, <1>5 DEF MoveToEnd
  <2>4. nxt \in [dom -> dom \cup {NULL}] /\ prv \in [dom -> dom \cup {NULL}]
    BY <1>3, <1>5
  <2>5. Linked(FirstToEnd(order, n), n, nodes, nxt, prv, NULL)
    <3>1. n >= 2 /\ n \in Nat /\ Linked(order, n, nodes, l.next, l.prev, NULL)
      BY <1>1, <1>2, <1>5
    <3> QED BY <1>3, <3>1, LinkedFirstToEnd
  <2>6. /\ FirstToEnd(order, n) \in [1..n -> nodes]
        /\ FirstToEnd(order, n)[1] = order[2]
        /\ FirstToEnd(order, n)[n] = order[1]
    <3>1. 1 \in 1..n /\ n \in 1..n
      BY <1>2
    <3> QED BY <1>5, <2>5, <3>1 DEF FirstToEnd, Linked
  <2>7. ListTypeOK(m, dom, nodes)
    <3>1. m.start \in nodes /\ m.end \in nodes /\ nodes \subseteq dom
      BY <1>3, <1>5, <2>1
    <3> HIDE DEF m, nxt, prv
    <3> QED BY <2>1, <2>2, <2>3, <2>4, <3>1 DEF ListTypeOK
  <2>8. ListOrder(m, nodes, n, FirstToEnd(order, n))
    BY <2>1, <2>2, <2>5, <2>6 DEF ListOrder
  <2>9. SameElsewhere(l, m, dom, nodes)
    <3>1. order[1] \in nodes /\ order[2] \in nodes /\ order[n] \in nodes
      BY <1>3, <1>5
    <3> HIDE DEF m
    <3> QED BY <1>3, <2>1, <2>2, <3>1 DEF SameElsewhere
  <2> QED BY <1>2, <2>6, <2>7, <2>8, <2>9 DEF IsList, SecondFirst
<1> QED BY <1>4, <1>5

\* move_slab_to_start_of_the_list, on any slab of the list.
LEMMA MoveToStartOK ==
  ASSUME NEW l, NEW dom, NULL \notin dom, NEW nodes, NEW n, IsList(l, dom, nodes, n),
         NEW slab \in nodes
  PROVE  /\ IsList(MoveToStart(l, slab), dom, nodes, n)
         /\ SameElsewhere(l, MoveToStart(l, slab), dom, nodes)
         /\ MoveToStart(l, slab).start = slab
         /\ IsLonely(MoveToStart(l, slab), slab) <=> n = 1
         /\ l.start # slab => l.prev[slab] # NULL
<1> DEFINE m == MoveToStart(l, slab)
<1>1. PICK order \in [1..n -> nodes] :
        /\ Linked(order, n, nodes, l.next, l.prev, NULL)
        /\ Shape(l, dom, nodes, n, order)
  BY ListShape
<1>2. n \in Nat \ {0} /\ ListTypeOK(l, dom, nodes) /\ 1 \in 1..n /\ n \in 1..n
  BY ListShape
<1>3. /\ \A x \in nodes : \E k \in 1..n : order[k] = x
      /\ \A j, k \in 1..n : order[j] = order[k] => j = k
      /\ \A k \in 1..n :
           /\ l.next[order[k]] = IF k = n THEN NULL ELSE order[k + 1]
           /\ l.prev[order[k]] = IF k = 1 THEN NULL ELSE order[k - 1]
      /\ l.start = order[1] /\ l.end = order[n]
      /\ \A k \in 1..n : order[k] \in nodes /\ order[k] # NULL
      /\ DOMAIN l.next = dom /\ DOMAIN l.prev = dom /\ nodes \subseteq dom
      /\ l.next \in [dom -> dom \cup {NULL}]
      /\ l.prev \in [dom -> dom \cup {NULL}]
  BY <1>1 DEF Shape
<1>4. PICK p \in 1..n : order[p] = slab
  BY <1>3
<1>5. CASE p = 1
  <2>1. m = l /\ l.start = slab
    BY <1>3, <1>4, <1>5 DEF MoveToStart
  <2>2. l.next[slab] = (IF n = 1 THEN NULL ELSE order[2]) /\ l.prev[slab] = NULL
    BY <1>2, <1>3, <1>4, <1>5
  <2>3. n # 1 => order[2] # NULL
    <3>1. n # 1 => 2 \in 1..n
      BY <1>2
    <3> QED BY <1>3, <3>1
  <2> QED BY <2>1, <2>2, <2>3 DEF IsLonely, SameElsewhere
<1>6. CASE p # 1
  <2> DEFINE nxt == [l.next EXCEPT ![order[p - 1]] = l.next[order[p]],
                                   ![order[p]] = order[1]]
             prv == IF p = n
                    THEN [l.prev EXCEPT ![order[p]] = NULL, ![order[1]] = order[p]]
                    ELSE [l.prev EXCEPT ![order[p + 1]] = order[p - 1],
                                        ![order[p]] = NULL,
                                        ![order[1]] = order[p]]
             o   == ToFront(order, n, p)
  <2>1. /\ p \in 2..n /\ p - 1 \in 1..n /\ n >= 2
        /\ l.start # slab
        /\ l.prev[slab] = order[p - 1]
        /\ l.next[slab] = IF p = n THEN NULL ELSE order[p + 1]
    BY <1>2, <1>3, <1>4, <1>6
  <2>2. /\ order[p - 1] \in nodes /\ order[p - 1] # NULL
        /\ p # n => order[p + 1] \in nodes /\ order[p + 1] # NULL
    <3>1. p # n => p + 1 \in 1..n
      BY <1>2, <2>1
    <3> QED BY <1>3, <2>1, <3>1
  <2>3. /\ m.start = slab
        /\ m.end = IF p = n THEN order[p - 1] ELSE order[n]
        /\ m.next = nxt /\ m.prev = prv
        /\ m = [start |-> m.start, end |-> m.end, next |-> m.next, prev |-> m.prev]
    BY <1>3, <1>4, <2>1, <2>2 DEF MoveToStart, EndWithoutSlab
  <2>4. nxt \in [dom -> dom \cup {NULL}] /\ prv \in [dom -> dom \cup {NULL}]
    BY <1>2, <1>3, <1>4, <2>2
  <2>5. Linked(o, n, nodes, nxt, prv, NULL)
    <3>1. Linked(order, n, nodes, l.next, l.prev, NULL) /\ n \in Nat
      BY <1>1, <1>2
    <3> QED BY <1>3, <2>1, <3>1, LinkedToFront
  <2>6. /\ o \in [1..n -> nodes]
        /\ o[1] = order[p] /\ o[2] = order[1]
        /\ o[n] = IF p = n THEN order[p - 1] ELSE order[n]
    <3>1. 1 \in 1..n /\ 2 \in 1..n /\ n \in 1..n
      BY <1>2, <2>1
    <3> QED BY <2>1, <2>5, <3>1 DEF ToFront, Linked
  <2>7. m.end \in nodes
    BY <1>2, <1>3, <2>2, <2>3
  <2> HIDE DEF m, nxt, prv, o
  <2>8. ListTypeOK(m, dom, nodes)
    BY <1>3, <1>4, <2>3, <2>4, <2>7 DEF ListTypeOK
  <2>9. ListOrder(m, nodes, n, o)
    BY <1>4, <2>3, <2>5, <2>6 DEF ListOrder
  <2>10. IsList(m, dom, nodes, n)
    BY <1>2, <2>6, <2>8, <2>9 DEF IsList
  <2>11. m.next[slab] # NULL
    <3>1. m.next[o[1]] = o[2] /\ o[2] # NULL
      <4>1. 1 \in 1..n /\ 1 # n /\ 1 + 1 = 2
        BY <1>2, <2>1
      <4>2. nxt[o[1]] = o[1 + 1]
        BY <2>5, <4>1 DEF Linked
      <4> QED BY <1>3, <1>4, <2>1, <2>3, <2>6, <4>1, <4>2
    <3> QED BY <1>4, <2>6, <3>1
  <2>12. SameElsewhere(l, m, dom, nodes)
    <3>1. order[1] \in nodes /\ order[p] \in nodes
      BY <1>2, <1>3
    <3>2. ASSUME NEW x \in dom, x \notin nodes
          PROVE  nxt[x] = l.next[x] /\ prv[x] = l.prev[x]
      BY <1>3, <2>2, <3>1, <3>2 DEF nxt, prv
    <3> QED BY <2>3, <3>2 DEF SameElsewhere
  <2> QED BY <2>1, <2>2, <2>3, <2>10, <2>11, <2>12 DEF m, IsLonely
<1> QED BY <1>5, <1>6

\* Cutting out the first slab of a list with others on it, as
\* slab_pool_deallocate does.
LEMMA UnlinkedOK ==
  ASSUME NEW l, NEW dom, NULL \notin dom, NEW nodes, NEW n, IsList(l, dom, nodes, n), n # 1,
         \A x \in dom \ nodes : l.next[x] # l.start /\ l.prev[x] # l.start
  PROVE  LET m == Unlinked(l, l.start) IN
         /\ IsList(m, dom \ {l.start}, nodes \ {l.start}, n - 1)
         /\ SameElsewhere(l, m, dom \ {l.start}, nodes \ {l.start})
<1> DEFINE m   == Unlinked(l, l.start)
           rem == nodes \ {l.start}
           rst == dom \ {l.start}
<1>1. PICK order \in [1..n -> nodes] :
        /\ Linked(order, n, nodes, l.next, l.prev, NULL)
        /\ Shape(l, dom, nodes, n, order)
  BY ListShape
<1>2. n \in Nat \ {0} /\ ListTypeOK(l, dom, nodes) /\ n >= 2
  BY ListShape
<1>3. /\ \A x \in nodes : \E k \in 1..n : order[k] = x
      /\ \A j, k \in 1..n : order[j] = order[k] => j = k
      /\ \A k \in 1..n :
           /\ l.next[order[k]] = IF k = n THEN NULL ELSE order[k + 1]
           /\ l.prev[order[k]] = IF k = 1 THEN NULL ELSE order[k - 1]
      /\ l.start = order[1] /\ l.end = order[n]
      /\ \A k \in 1..n : order[k] \in nodes /\ order[k] # NULL
      /\ DOMAIN l.next = dom /\ DOMAIN l.prev = dom /\ nodes \subseteq dom
      /\ l.next \in [dom -> dom \cup {NULL}]
      /\ l.prev \in [dom -> dom \cup {NULL}]
  BY <1>1 DEF Shape
<1>4. /\ 1 \in 1..n /\ 2 \in 1..n /\ n \in 1..n
      /\ l.prev[order[1]] = NULL /\ l.next[order[1]] = order[2]
      /\ order[1] # order[2] /\ order[1] # order[n]
  <2>1. 1 \in 1..n /\ 2 \in 1..n /\ n \in 1..n /\ 1 # n /\ 1 + 1 = 2
    BY <1>2
  <2>2. l.prev[order[1]] = NULL /\ l.next[order[1]] = order[1 + 1]
    BY <1>3, <2>1
  <2> QED BY <1>3, <2>1, <2>2
<1> DEFINE nxt == [p \in rst |-> l.next[p]]
           prv == [p \in rst |-> IF p = order[2] THEN NULL ELSE l.prev[p]]
           o   == [k \in 1..(n - 1) |-> order[k + 1]]
<1>5. /\ m.start = order[2] /\ m.end = order[n] /\ m.next = nxt /\ m.prev = prv
      /\ m = [start |-> m.start, end |-> m.end, next |-> m.next, prev |-> m.prev]
  BY <1>3, <1>4 DEF Unlinked, StartWithoutSlab
<1>6. /\ \A k \in 1..(n - 1) : k + 1 \in 1..n /\ k + 1 # 1 /\ (k + 1 = n <=> k = n - 1)
      /\ \A k \in 2..n : k - 1 \in 1..(n - 1)
  BY <1>2
<1>7. \A k \in 1..(n - 1) : o[k] = order[k + 1] /\ o[k] \in rem
  BY <1>3, <1>4, <1>6
<1>8. o \in [1..(n - 1) -> rem]
  BY <1>7
<1>9. \A x \in rem : \E k \in 1..(n - 1) : o[k] = x
  <2> SUFFICES ASSUME NEW x \in rem PROVE \E k \in 1..(n - 1) : o[k] = x
    OBVIOUS
  <2>1. PICK k \in 1..n : order[k] = x
    BY <1>3
  <2>2. k \in 2..n
    BY <1>3, <2>1
  <2>3. k - 1 \in 1..(n - 1) /\ o[k - 1] = order[(k - 1) + 1] /\ (k - 1) + 1 = k
    BY <1>6, <1>7, <2>2
  <2> QED BY <2>1, <2>3
<1>10. \A j, k \in 1..(n - 1) : o[j] = o[k] => j = k
  <2> SUFFICES ASSUME NEW j \in 1..(n - 1), NEW k \in 1..(n - 1), o[j] = o[k]
               PROVE  j = k
    OBVIOUS
  <2>1. j + 1 = k + 1
    BY <1>3, <1>6, <1>7
  <2> QED BY <1>2, <2>1
<1>11. ASSUME NEW k \in 1..(n - 1)
       PROVE  /\ nxt[o[k]] = IF k = n - 1 THEN NULL ELSE o[k + 1]
              /\ prv[o[k]] = IF k = 1 THEN NULL ELSE o[k - 1]
  <2>1. o[k] = order[k + 1] /\ o[k] \in rem /\ k + 1 \in 1..n
    BY <1>6, <1>7
  <2>2. nxt[o[k]] = IF k = n - 1 THEN NULL ELSE o[k + 1]
    <3>1. l.next[order[k + 1]] = IF k + 1 = n THEN NULL ELSE order[(k + 1) + 1]
      BY <1>3, <2>1
    <3>2. k # n - 1 => k + 1 \in 1..(n - 1) /\ o[k + 1] = order[(k + 1) + 1]
      BY <1>2, <1>7
    <3> QED BY <1>3, <1>6, <2>1, <3>1, <3>2
  <2>3. prv[o[k]] = IF k = 1 THEN NULL ELSE o[k - 1]
    <3>1. k + 1 = 2 <=> k = 1
      OBVIOUS
    <3>2. order[k + 1] = order[2] <=> k = 1
      BY <1>3, <1>4, <2>1, <3>1
    <3>3. k # 1 => o[k - 1] = order[k]
      <4>1. k # 1 => k - 1 \in 1..(n - 1) /\ (k - 1) + 1 = k
        BY <1>2
      <4> QED BY <1>7, <4>1
    <3>4. l.prev[order[k + 1]] = order[k]
      <4>1. (k + 1) - 1 = k /\ k + 1 # 1
        BY <1>2
      <4> QED BY <1>3, <2>1, <4>1
    <3> QED BY <1>3, <2>1, <3>2, <3>3, <3>4
  <2> QED BY <2>2, <2>3
<1>12. o[1] = order[2] /\ o[n - 1] = order[n] /\ n - 1 \in Nat \ {0}
  <2>1. 1 \in 1..(n - 1) /\ n - 1 \in 1..(n - 1) /\ 1 + 1 = 2 /\ (n - 1) + 1 = n
    BY <1>2
  <2> QED BY <1>7, <2>1
<1>13. /\ nxt \in [rst -> rst \cup {NULL}] /\ prv \in [rst -> rst \cup {NULL}]
       /\ order[2] \in rem /\ order[n] \in rem
  <2>1. ASSUME NEW x \in rem
        PROVE  nxt[x] \in rst \cup {NULL} /\ prv[x] \in rst \cup {NULL}
    <3>1. PICK k \in 1..(n - 1) : o[k] = x
      BY <1>9
    <3>2. (k # n - 1 => o[k + 1] \in rem) /\ (k # 1 => o[k - 1] \in rem)
      <4>1. (k # n - 1 => k + 1 \in 1..(n - 1)) /\ (k # 1 => k - 1 \in 1..(n - 1))
        BY <1>2
      <4> QED BY <1>7, <4>1
    <3>3. nxt[x] \in rem \cup {NULL} /\ prv[x] \in rem \cup {NULL}
      <4> HIDE DEF nxt, prv, rem, o
      <4> QED BY <1>11, <3>1, <3>2
    <3> QED BY <1>3, <3>3
  <2>2. ASSUME NEW x \in rst, x \notin rem
        PROVE  nxt[x] \in rst \cup {NULL} /\ prv[x] \in rst \cup {NULL}
    <3>1. x \in dom \ nodes /\ l.next[x] # l.start /\ l.prev[x] # l.start
      BY <2>2
    <3> QED BY <1>3, <3>1
  <2>3. DOMAIN nxt = rst /\ DOMAIN prv = rst
    OBVIOUS
  <2>4. \A x \in rst : nxt[x] \in rst \cup {NULL} /\ prv[x] \in rst \cup {NULL}
    BY <2>1, <2>2
  <2>5. nxt = [x \in rst |-> nxt[x]] /\ prv = [x \in rst |-> prv[x]]
    OBVIOUS
  <2>6. order[2] \in rem /\ order[n] \in rem
    BY <1>3, <1>4
  <2> HIDE DEF nxt, prv, rst, rem
  <2> QED BY <2>4, <2>5, <2>6
<1>14. rem \subseteq rst /\ SameElsewhere(l, m, rst, rem)
  <2>1. \A x \in rst \ rem : x # order[2]
    BY <1>3, <1>4
  <2> QED BY <1>3, <1>5, <2>1 DEF SameElsewhere
<1> HIDE DEF m, nxt, prv, o, rem, rst
<1>15. ListTypeOK(m, rst, rem)
  BY <1>5, <1>13, <1>14 DEF ListTypeOK
<1>16. ListOrder(m, rem, n - 1, o)
  BY <1>5, <1>8, <1>9, <1>10, <1>11, <1>12 DEF ListOrder, Linked
<1>17. IsList(m, rst, rem, n - 1)
  BY <1>8, <1>12, <1>15, <1>16 DEF IsList
<1> QED BY <1>14, <1>17 DEF m, rem, rst

-----------------------------------------------------------------------------
\* The k-th page of the slabs created at base.
NewPage(base, k) == base + (k - 1) * PageSize

LEMMA RegionPages ==
  ASSUME PageSize = PageMask, NEW base \in Nat \ {NULL}, NEW count \in Nat \ {0}
  PROVE  /\ \A k \in 1..count : NewPage(base, k) \in Region(base, count)
         /\ \A x \in Region(base, count) : \E k \in 1..count : NewPage(base, k) = x
         /\ \A j, k \in 1..count : NewPage(base, j) = NewPage(base, k) => j = k
         /\ \A k \in 1..count :
              /\ NewPage(base, k) \in Nat \ {NULL}
              /\ NewPage(base, k + 1) = NewPage(base, k) + PageSize
              /\ NewPage(base, k - 1) = NewPage(base, k) - PageSize
         /\ NewPage(base, 1) = base
         /\ NewPage(base, count) = base + (count - 1) * PageSize
<1>1. PageSize = 4096
  BY DEF PageMask
<1>2. \A k \in Int : NewPage(base, k) = base + (k - 1) * 4096
  BY <1>1 DEF NewPage
<1>3. Region(base, count) = {base + i * 4096 : i \in 0..(count - 1)}
  BY <1>1 DEF Region
<1>4. ASSUME NEW k \in 1..count PROVE NewPage(base, k) \in Region(base, count)
  <2>1. k - 1 \in 0..(count - 1) /\ NewPage(base, k) = base + (k - 1) * 4096
    BY <1>2
  <2> QED BY <1>3, <2>1
<1>5. ASSUME NEW x \in Region(base, count)
      PROVE  \E k \in 1..count : NewPage(base, k) = x
  <2>1. PICK i \in 0..(count - 1) : x = base + i * 4096
    BY <1>3
  <2>2. i + 1 \in 1..count /\ NewPage(base, i + 1) = x
    BY <1>2, <2>1
  <2> QED BY <2>2
<1>6. \A j, k \in 1..count : NewPage(base, j) = NewPage(base, k) => j = k
  BY <1>2
<1>7. \A k \in 1..count :
        /\ NewPage(base, k) \in Nat \ {NULL}
        /\ NewPage(base, k + 1) = NewPage(base, k) + PageSize
        /\ NewPage(base, k - 1) = NewPage(base, k) - PageSize
  BY <1>1, <1>2 DEF NULL
<1>8. NewPage(base, 1) = base /\ NewPage(base, count) = base + (count - 1) * PageSize
  BY <1>1 DEF NewPage
<1> QED BY <1>4, <1>5, <1>6, <1>7, <1>8

\* The order of a list once count slabs have been linked in front of it.
InFront(base, count, order, n) ==
  [k \in 1..(count + n) |-> IF k <= count THEN NewPage(base, k) ELSE order[k - count]]

\* mem_slab_create_several in front of a list, or (n = 0) of nothing.
LEMMA SeveralLinkedOrder ==
  ASSUME PageSize = PageMask, NEW base \in Nat \ {NULL}, NEW count \in Nat \ {0},
         NEW l, NEW dom, NULL \notin dom, NEW nodes, ListTypeOK(l, dom, nodes),
         Region(base, count) \cap dom = {},
         NEW n \in Nat, NEW order, Linked(order, n, nodes, l.next, l.prev, NULL),
         NEW list_next, list_next = IF n = 0 THEN NULL ELSE order[1]
  PROVE  LET m   == SeveralLinked(l, base, count, list_next)
             all == dom \cup Region(base, count)
             own == nodes \cup Region(base, count)
         IN  /\ m = [start |-> base, end |-> l.end, next |-> m.next, prev |-> m.prev]
             /\ m.next \in [all -> all \cup {NULL}]
             /\ m.prev \in [all -> all \cup {NULL}]
             /\ Linked(InFront(base, count, order, n), count + n, own,
                       m.next, m.prev, NULL)
             /\ SameElsewhere(l, m, dom, nodes)
<1> DEFINE m     == SeveralLinked(l, base, count, list_next)
           new   == Region(base, count)
           all   == dom \cup new
           own   == nodes \cup new
           o     == InFront(base, count, order, n)
           page(k) == NewPage(base, k)
           last  == page(count)
           nxt   == [p \in all |-> IF p = last THEN list_next
                                   ELSE IF p \in new THEN p + PageSize ELSE l.next[p]]
           prv   == [p \in all |-> IF p = base THEN NULL
                                   ELSE IF p \in new THEN p - PageSize
                                   ELSE IF p = list_next THEN last ELSE l.prev[p]]
<1>1. /\ \A k \in 1..count : page(k) \in new
      /\ \A x \in new : \E k \in 1..count : page(k) = x
      /\ \A j, k \in 1..count : page(j) = page(k) => j = k
      /\ \A k \in 1..count : /\ page(k) \in Nat \ {NULL}
                             /\ page(k + 1) = page(k) + PageSize
                             /\ page(k - 1) = page(k) - PageSize
      /\ page(1) = base
      /\ last = base + (count - 1) * PageSize
      /\ 1 \in 1..count /\ count \in 1..count
  BY RegionPages
<1>2. /\ order \in [1..n -> nodes]
      /\ \A x \in nodes : \E k \in 1..n : order[k] = x
      /\ \A j, k \in 1..n : order[j] = order[k] => j = k
      /\ \A k \in 1..n : /\ l.next[order[k]] = IF k = n THEN NULL ELSE order[k + 1]
                         /\ l.prev[order[k]] = IF k = 1 THEN NULL ELSE order[k - 1]
  BY DEF Linked
<1>3. /\ l = [start |-> l.start, end |-> l.end, next |-> l.next, prev |-> l.prev]
      /\ DOMAIN l.next = dom /\ DOMAIN l.prev = dom /\ nodes \subseteq dom
      /\ l.next \in [dom -> dom \cup {NULL}]
      /\ l.prev \in [dom -> dom \cup {NULL}]
  BY DEF ListTypeOK
<1>4. /\ m = [start |-> base, end |-> l.end, next |-> m.next, prev |-> m.prev]
      /\ m.next = [p \in dom \cup new |->
                    CASE p = last -> list_next
                      [] p \in new \ {last} -> p + PageSize
                      [] OTHER -> l.next[p]]
      /\ m.prev = [p \in dom \cup new |->
                    CASE p = base -> NULL
                      [] p \in new \ {base} -> p - PageSize
                      [] p = list_next -> last
                      [] OTHER -> l.prev[p]]
  <2> DEFINE lst == base + (count - 1) * PageSize
  <2>1. lst = last
    BY <1>1
  <2>2. m = [start |-> base, end |-> l.end,
             next |-> [p \in DOMAIN l.next \cup new |->
                         CASE p = lst -> list_next
                           [] p \in new \ {lst} -> p + PageSize
                           [] OTHER -> l.next[p]],
             prev |-> [p \in DOMAIN l.prev \cup new |->
                         CASE p = base -> NULL
                           [] p \in new \ {base} -> p - PageSize
                           [] p = list_next -> lst
                           [] OTHER -> l.prev[p]]]
    BY DEF SeveralLinked
  <2> HIDE DEF m, new, lst, last
  <2> QED BY <1>3, <2>1, <2>2
<1>5. list_next \notin new
  <2>1. n # 0 => order[1] \in dom
    BY <1>2, <1>3
  <2> QED BY <1>1, <2>1
<1> HIDE DEF m, new, last, page
<1>6. m.next = nxt /\ m.prev = prv
  <2>1. m.next = nxt
    BY <1>1, <1>4
  <2>2. m.prev = prv
    BY <1>1, <1>4, <1>5
  <2> QED BY <2>1, <2>2
<1>7. \A k \in 1..(count + n) :
        \/ k \in 1..count /\ o[k] = page(k)
        \/ k - count \in 1..n /\ k \notin 1..count /\ o[k] = order[k - count]
  BY DEF InFront, page
<1>8. \A k \in 1..n : k + count \in 1..(count + n) /\ o[k + count] = order[k]
  <2> TAKE k \in 1..n
  <2>1. k + count \in 1..(count + n) /\ ~(k + count <= count) /\ (k + count) - count = k
    OBVIOUS
  <2> QED BY <2>1 DEF InFront
<1>9. \A k \in 1..count : k \in 1..(count + n) /\ o[k] = page(k)
  BY DEF InFront, page
<1>10. \A k \in 1..(count + n) :
         /\ k \in 1..count => o[k] \in new /\ o[k] \notin nodes
         /\ k \notin 1..count => o[k] \in nodes /\ o[k] \notin new
  <2>1. new \cap nodes = {}
    BY <1>3 DEF new
  <2>2. \A j \in 1..n : order[j] \in nodes
    BY <1>2
  <2> HIDE DEF o
  <2> QED BY <1>1, <1>7, <2>1, <2>2
<1> HIDE DEF o, nxt, prv
<1>11. o \in [1..(count + n) -> own]
  <2>1. \A k \in 1..(count + n) : o[k] \in own
    BY <1>10
  <2>2. o = [k \in 1..(count + n) |-> o[k]]
    BY DEF o, InFront
  <2> QED BY <2>1, <2>2
<1>12. \A x \in own : \E k \in 1..(count + n) : o[k] = x
  <2> SUFFICES ASSUME NEW x \in own PROVE \E k \in 1..(count + n) : o[k] = x
    OBVIOUS
  <2>1. CASE x \in new
    BY <1>1, <1>9, <2>1
  <2>2. CASE x \in nodes
    BY <1>2, <1>8, <2>2
  <2> QED BY <2>1, <2>2
<1>13. \A j, k \in 1..(count + n) : o[j] = o[k] => j = k
  <2> SUFFICES ASSUME NEW j \in 1..(count + n), NEW k \in 1..(count + n), o[j] = o[k]
               PROVE  j = k
    OBVIOUS
  <2>1. CASE j \in 1..count
    BY <1>1, <1>9, <1>10, <2>1
  <2>2. CASE j \notin 1..count
    <3>1. k \notin 1..count
      BY <1>10, <2>2
    <3>2. /\ j - count \in 1..n /\ o[j] = order[j - count]
          /\ k - count \in 1..n /\ o[k] = order[k - count]
      BY <1>7, <2>2, <3>1
    <3>3. j - count = k - count
      BY <1>2, <3>2
    <3> QED BY <3>3
  <2> QED BY <2>1, <2>2
<1>14. ASSUME NEW k \in 1..(count + n)
       PROVE  nxt[o[k]] = IF k = count + n THEN NULL ELSE o[k + 1]
  <2>1. CASE k \in 1..count /\ k # count
    <3>1. k + 1 \in 1..count /\ o[k] = page(k) /\ o[k + 1] = page(k + 1)
      BY <1>9, <2>1
    <3>2. o[k] # last
      BY <1>1, <2>1, <3>1 DEF last
    <3> QED BY <1>1, <2>1, <3>1, <3>2 DEF nxt
  <2>2. CASE k = count
    <3>1. nxt[o[k]] = list_next
      BY <1>1, <1>9, <2>2 DEF nxt, last
    <3>2. n # 0 => o[k + 1] = order[1]
      <4>1. n # 0 => 1 \in 1..n
        OBVIOUS
      <4> QED BY <1>8, <2>2, <4>1
    <3> QED BY <2>2, <3>1, <3>2
  <2>3. CASE k \notin 1..count
    <3>1. k - count \in 1..n /\ o[k] = order[k - count] /\ o[k] \in nodes /\ o[k] \notin new
      BY <1>7, <1>10, <2>3
    <3>2. nxt[o[k]] = l.next[order[k - count]]
      BY <1>1, <1>3, <3>1 DEF nxt, last
    <3>3. k # count + n => o[k + 1] = order[(k - count) + 1]
      <4>1. k # count + n => /\ (k - count) + 1 \in 1..n
                             /\ ((k - count) + 1) + count = k + 1
        BY <3>1
      <4> QED BY <1>8, <4>1
    <3>4. k = count + n <=> k - count = n
      BY <3>1
    <3> QED BY <1>2, <3>1, <3>2, <3>3, <3>4
  <2> QED BY <2>1, <2>2, <2>3
<1>15. ASSUME NEW k \in 1..(count + n)
       PROVE  prv[o[k]] = IF k = 1 THEN NULL ELSE o[k - 1]
  <2>1. CASE k = 1
    BY <1>1, <1>9, <2>1 DEF prv
  <2>2. CASE k \in 1..count /\ k # 1
    <3>1. k - 1 \in 1..count /\ o[k] = page(k) /\ o[k - 1] = page(k - 1)
      BY <1>9, <2>2
    <3>2. o[k] # base
      BY <1>1, <2>2, <3>1
    <3> QED BY <1>1, <2>2, <3>1, <3>2 DEF prv
  <2>3. CASE k = count + 1
    <3>1. 1 \in 1..n /\ o[k] = order[1] /\ o[k] \in nodes /\ o[k] \notin new
      <4>1. k \notin 1..count /\ k - count = 1
        BY <2>3
      <4> QED BY <1>7, <1>10, <4>1
    <3>2. prv[o[k]] = last
      BY <1>1, <1>3, <3>1 DEF prv
    <3>3. o[k - 1] = last
      BY <1>1, <1>9, <2>3 DEF last
    <3> QED BY <2>3, <3>2, <3>3
  <2>4. CASE k \notin 1..count /\ k # count + 1
    <3>1. /\ k - count \in 1..n /\ k - count # 1
          /\ o[k] = order[k - count] /\ o[k] \in nodes /\ o[k] \notin new
      BY <1>7, <1>10, <2>4
    <3>2. o[k] # list_next
      <4>1. 1 \in 1..n
        BY <3>1
      <4> QED BY <1>2, <3>1, <4>1
    <3>3. prv[o[k]] = l.prev[order[k - count]]
      BY <1>1, <1>3, <3>1, <3>2 DEF prv
    <3>4. o[k - 1] = order[(k - count) - 1]
      <4>1. (k - count) - 1 \in 1..n /\ ((k - count) - 1) + count = k - 1
        BY <3>1
      <4> QED BY <1>8, <4>1
    <3> QED BY <1>2, <2>4, <3>1, <3>3, <3>4
  <2> QED BY <2>1, <2>2, <2>3, <2>4
<1>16. \A x \in dom \ nodes : nxt[x] = l.next[x] /\ prv[x] = l.prev[x]
  <2>1. ASSUME NEW x \in dom \ nodes PROVE x \notin new /\ x # last /\ x # base
    BY <1>1 DEF new, last
  <2>2. ASSUME NEW x \in dom \ nodes PROVE x # list_next
    <3>1. n # 0 => 1 \in 1..n
      OBVIOUS
    <3> QED BY <1>2, <3>1
  <2> QED BY <2>1, <2>2 DEF nxt, prv
<1>17. nxt \in [all -> all \cup {NULL}] /\ prv \in [all -> all \cup {NULL}]
  <2>1. own \subseteq all
    BY <1>3
  <2>2. ASSUME NEW x \in own
        PROVE  nxt[x] \in all \cup {NULL} /\ prv[x] \in all \cup {NULL}
    <3>1. PICK k \in 1..(count + n) : o[k] = x
      BY <1>12
    <3>2. (k # count + n => o[k + 1] \in own) /\ (k # 1 => o[k - 1] \in own)
      <4>1. /\ k # count + n => k + 1 \in 1..(count + n)
            /\ k # 1 => k - 1 \in 1..(count + n)
        OBVIOUS
      <4> QED BY <1>11, <4>1
    <3> QED BY <1>14, <1>15, <2>1, <3>1, <3>2
  <2>3. ASSUME NEW x \in dom \ nodes
        PROVE  nxt[x] \in all \cup {NULL} /\ prv[x] \in all \cup {NULL}
    BY <1>3, <1>16
  <2>4. \A x \in all : nxt[x] \in all \cup {NULL} /\ prv[x] \in all \cup {NULL}
    BY <2>2, <2>3
  <2>5. nxt = [x \in all |-> nxt[x]] /\ prv = [x \in all |-> prv[x]]
    BY DEF nxt, prv
  <2> QED BY <2>4, <2>5
<1>18. Linked(o, count + n, own, nxt, prv, NULL)
  BY <1>11, <1>12, <1>13, <1>14, <1>15 DEF Linked
<1>19. SameElsewhere(l, m, dom, nodes)
  BY <1>6, <1>16 DEF SameElsewhere
<1> QED BY <1>4, <1>6, <1>17, <1>18, <1>19 DEF m, new, o

\* In front of a pool's list.
LEMMA SeveralLinkedOK ==
  ASSUME PageSize = PageMask, NEW base \in Nat \ {NULL}, NEW count \in Nat \ {0},
         NEW l, NEW dom, NULL \notin dom, NEW nodes, NEW n, IsList(l, dom, nodes, n),
         Region(base, count) \cap dom = {}
  PROVE  LET m   == SeveralLinked(l, base, count, l.start)
             new == Region(base, count)
         IN  /\ IsList(m, dom \cup new, nodes \cup new, count + n)
             /\ m.start = base /\ base \in new /\ base \in nodes \cup new
             /\ SameElsewhere(l, m, dom, nodes)
<1> DEFINE m   == SeveralLinked(l, base, count, l.start)
           new == Region(base, count)
<1>1. PICK order \in [1..n -> nodes] :
        /\ Linked(order, n, nodes, l.next, l.prev, NULL)
        /\ Shape(l, dom, nodes, n, order)
  BY ListShape
<1> DEFINE o == InFront(base, count, order, n)
<1>2. n \in Nat \ {0} /\ n \in Nat /\ ListTypeOK(l, dom, nodes)
  BY ListShape
<1>3. l.start = order[1] /\ l.end = order[n] /\ l.end \in nodes
  BY <1>1 DEF Shape
<1>4. /\ m = [start |-> base, end |-> l.end, next |-> m.next, prev |-> m.prev]
      /\ m.next \in [dom \cup new -> (dom \cup new) \cup {NULL}]
      /\ m.prev \in [dom \cup new -> (dom \cup new) \cup {NULL}]
      /\ Linked(o, count + n, nodes \cup new, m.next, m.prev, NULL)
      /\ SameElsewhere(l, m, dom, nodes)
  <2>1. l.start = IF n = 0 THEN NULL ELSE order[1]
    BY <1>2, <1>3
  <2> QED BY <1>1, <1>2, <2>1, SeveralLinkedOrder, Zenon
<1>5. base \in new /\ NewPage(base, 1) = base
  <2>1. 1 \in 1..count
    OBVIOUS
  <2> QED BY <2>1, RegionPages
<1>6. o[1] = base /\ o[count + n] = l.end
  <2>1. 1 \in 1..(count + n) /\ 1 <= count
    BY <1>2
  <2>2. count + n \in 1..(count + n) /\ ~(count + n <= count) /\ (count + n) - count = n
    BY <1>2
  <2> QED BY <1>3, <1>5, <2>1, <2>2 DEF InFront
<1> HIDE DEF m, new, o
<1>7. ListTypeOK(m, dom \cup new, nodes \cup new)
  BY <1>2, <1>3, <1>4, <1>5 DEF ListTypeOK
<1>8. ListOrder(m, nodes \cup new, count + n, o)
  BY <1>4, <1>6 DEF ListOrder
<1>9. count + n \in Nat \ {0} /\ o \in [1..(count + n) -> nodes \cup new]
  BY <1>2, <1>4 DEF Linked
<1>10. IsList(m, dom \cup new, nodes \cup new, count + n)
  BY <1>7, <1>8, <1>9 DEF IsList
<1>11. m.start = base
  BY <1>4
<1> QED BY <1>4, <1>5, <1>10, <1>11 DEF m, new

-----------------------------------------------------------------------------
\* get_last_from_list is a recursive function.  That it has a value, and which
\* one, follows from a least element of the set of those places of the list
\* where it had another.

\* What get_last_from_list returns for each slab, if it always ends.
Lasts(next, dom, g) ==
  g = [p \in dom |-> IF next[p] = NULL THEN p ELSE g[next[p]]]

\* It ends when the slabs nodes are a list, and it does so for all others,
\* which do not lead into that list.
LEMMA LastsExist ==
  ASSUME NEW dom, NULL \notin dom, NEW nodes, nodes \subseteq dom,
         NEW next, NEW prev, NEW n \in Nat \ {0}, NEW order,
         Linked(order, n, nodes, next, prev, NULL),
         NEW g, \A p \in dom \ nodes :
                  g[p] = IF next[p] = NULL THEN p ELSE g[next[p]],
         \A p \in dom \ nodes : next[p] = NULL \/ next[p] \in dom \ nodes
  PROVE  Lasts(next, dom, [p \in dom |-> IF p \in nodes THEN order[n] ELSE g[p]])
<1> DEFINE h == [p \in dom |-> IF p \in nodes THEN order[n] ELSE g[p]]
<1>1. ASSUME NEW p \in nodes
      PROVE  /\ next[p] = NULL => p = order[n]
             /\ next[p] # NULL => next[p] \in nodes
  <2>1. PICK k \in 1..n : order[k] = p
    BY DEF Linked
  <2>2. next[p] = (IF k = n THEN NULL ELSE order[k + 1]) /\ order \in [1..n -> nodes]
    BY <2>1 DEF Linked
  <2>3. k # n => order[k + 1] \in nodes
    <3>1. k # n => k + 1 \in 1..n
      OBVIOUS
    <3> QED BY <2>2, <3>1
  <2> QED BY <2>1, <2>2, <2>3
<1>2. ASSUME NEW p \in dom
      PROVE  h[p] = IF next[p] = NULL THEN p ELSE h[next[p]]
  <2>1. CASE p \in nodes
    BY <1>1, <2>1
  <2>2. CASE p \notin nodes
    BY <2>2
  <2> QED BY <2>1, <2>2
<1>3. h = [p \in dom |-> h[p]]
  OBVIOUS
<1> HIDE DEF h
<1>4. h = [p \in dom |-> IF next[p] = NULL THEN p ELSE h[next[p]]]
  BY <1>2, <1>3
<1>5. Lasts(next, dom, h)
  BY <1>4 DEF Lasts
<1> QED BY <1>5 DEF h

\* The last slab of a list is the last one of its order.
LEMMA LastFromListOK ==
  ASSUME NEW l, NEW dom, NULL \notin dom, l.next \in [dom -> dom \cup {NULL}],
         NEW g, Lasts(l.next, dom, g),
         NEW nodes, nodes \subseteq dom, NEW n \in Nat \ {0}, NEW order,
         Linked(order, n, nodes, l.next, l.prev, NULL)
  PROVE  LastFromList(l, order[1]) = order[n]
<1> DEFINE F(f) == [p \in dom |-> IF l.next[p] = NULL THEN p ELSE f[l.next[p]]]
           last == CHOOSE f : f = F(f)
<1>1. /\ order \in [1..n -> nodes] /\ 1 \in 1..n /\ n \in 1..n
      /\ \A k \in 1..n : l.next[order[k]] = IF k = n THEN NULL ELSE order[k + 1]
      /\ \A k \in 1..n : order[k] \in dom
  BY DEF Linked
<1>2. g = F(g)
  BY DEF Lasts
<1>3. last = F(last)
  <2> HIDE DEF F
  <2> QED BY <1>2
<1>4. LastFromList(l, order[1]) = last[order[1]]
  <2>1. DOMAIN l.next = dom
    OBVIOUS
  <2> QED BY <2>1 DEF LastFromList
<1> HIDE DEF last
<1>5. \A k \in 1..n : last[order[k]] = IF k = n THEN order[n] ELSE last[order[k + 1]]
  <2> TAKE k \in 1..n
  <2>1. last[order[k]] = IF l.next[order[k]] = NULL THEN order[k]
                         ELSE last[l.next[order[k]]]
    BY <1>1, <1>3
  <2>2. k # n => order[k + 1] # NULL
    <3>1. k # n => k + 1 \in 1..n
      OBVIOUS
    <3> QED BY <1>1, <3>1
  <2> QED BY <1>1, <2>1, <2>2
\* How far from the end it is wrong.
<1> DEFINE wrong == {j \in 0..(n - 1) : last[order[n - j]] # order[n]}
<1>6. wrong = {}
  <2> SUFFICES ASSUME wrong # {} PROVE FALSE
    OBVIOUS
  <2>1. PICK j \in wrong : \A k \in wrong : j <= k
    <3>1. wrong \in SUBSET Nat
      OBVIOUS
    <3> HIDE DEF wrong
    <3> QED BY <3>1, LeastElement
  <2>2. j \in 0..(n - 1) /\ n - j \in 1..n /\ last[order[n - j]] # order[n]
    OBVIOUS
  <2>3. j # 0
    BY <1>5, <2>2
  <2>4. j - 1 \in 0..(n - 1) /\ n - (j - 1) = (n - j) + 1 /\ n - j # n
    BY <2>2, <2>3
  <2>5. j - 1 \notin wrong
    BY <2>1, <2>2
  <2>6. last[order[n - (j - 1)]] = order[n]
    BY <2>4, <2>5
  <2> QED BY <1>5, <2>2, <2>4, <2>6
<1>7. last[order[1]] = order[n]
  <2>1. n - 1 \in 0..(n - 1) /\ n - (n - 1) = 1
    OBVIOUS
  <2> QED BY <1>6, <2>1
<1> QED BY <1>4, <1>7

\* slab_pool_create: mem_slab_create_several behind nothing, and its last slab.
LEMMA NewListOK ==
  ASSUME PageSize = PageMask, NEW base \in Nat \ {NULL}, NEW count \in Nat \ {0},
         NEW l, NEW dom, NULL \notin dom, ListTypeOK(l, dom, {}),
         Region(base, count) \cap dom = {},
         NEW g, Lasts(l.next, dom, g)
  PROVE  LET s   == SeveralLinked(l, base, count, NULL)
             m   == [s EXCEPT !.end = LastFromList(s, base)]
             new == Region(base, count)
         IN  /\ IsList(m, dom \cup new, new, count)
             /\ m.start = base /\ base \in new
             /\ SameElsewhere(l, m, dom, {})
             /\ m = [start |-> base, end |-> m.end, next |-> m.next, prev |-> m.prev]
<1> DEFINE s    == SeveralLinked(l, base, count, NULL)
           new  == Region(base, count)
           all  == dom \cup new
           none == [k \in 1..0 |-> 0]
           o    == InFront(base, count, none, 0)
           last == LastFromList(s, base)
           m    == [s EXCEPT !.end = last]
<1>1. /\ s = [start |-> base, end |-> l.end, next |-> s.next, prev |-> s.prev]
      /\ s.next \in [all -> all \cup {NULL}]
      /\ s.prev \in [all -> all \cup {NULL}]
      /\ Linked(o, count + 0, {} \cup new, s.next, s.prev, NULL)
      /\ SameElsewhere(l, s, dom, {})
  <2>1. Linked(none, 0, {}, l.next, l.prev, NULL) /\ 0 \in Nat
    BY DEF Linked
  <2>2. NULL = IF 0 = 0 THEN NULL ELSE none[1]
    OBVIOUS
  <2> HIDE DEF none
  <2> QED BY <2>1, <2>2, SeveralLinkedOrder
<1>2. Linked(o, count, new, s.next, s.prev, NULL)
  <2>1. count + 0 = count /\ {} \cup new = new
    OBVIOUS
  <2> HIDE DEF o, new, s
  <2> QED BY <1>1, <2>1
<1>3. base \in new /\ NewPage(base, 1) = base /\ NULL \notin new /\ 1 \in 1..count
  <2>1. 1 \in 1..count
    OBVIOUS
  <2> QED BY <2>1, RegionPages
<1>4. o[1] = base
  <2>1. 1 \in 1..(count + 0) /\ 1 <= count
    OBVIOUS
  <2> QED BY <1>3, <2>1 DEF InFront
<1> HIDE DEF o
<1>5. last = o[count] /\ last \in new
  <2>1. NULL \notin all /\ new \subseteq all
    BY <1>3
  <2>2. ASSUME NEW p \in dom
        PROVE  /\ s.next[p] = l.next[p] /\ p \notin new
               /\ g[p] = IF s.next[p] = NULL THEN p ELSE g[s.next[p]]
               /\ s.next[p] = NULL \/ s.next[p] \in all \ new
    <3>1. s.next[p] = l.next[p] /\ p \notin new
      BY <1>1 DEF SameElsewhere
    <3>2. g[p] = IF l.next[p] = NULL THEN p ELSE g[l.next[p]]
      BY DEF Lasts
    <3>3. l.next[p] \in dom \cup {NULL}
      BY DEF ListTypeOK
    <3> QED BY <3>1, <3>2, <3>3
  <2> DEFINE h == [p \in all |-> IF p \in new THEN o[count] ELSE g[p]]
  <2>3. Lasts(s.next, all, h)
    <3>1. \A p \in all \ new : /\ g[p] = IF s.next[p] = NULL THEN p ELSE g[s.next[p]]
                               /\ s.next[p] = NULL \/ s.next[p] \in all \ new
      BY <2>2
    <3> HIDE DEF s, all, new
    <3> QED BY <1>2, <2>1, <3>1, LastsExist
  <2>4. LastFromList(s, o[1]) = o[count]
    <3> HIDE DEF s, all, new, h
    <3> QED BY <1>1, <1>2, <2>1, <2>3, LastFromListOK
  <2>5. o[count] \in new
    <3>1. count \in 1..count
      OBVIOUS
    <3> QED BY <1>2, <3>1 DEF Linked
  <2> QED BY <1>4, <2>4, <2>5
<1> HIDE DEF s, last
<1>6. m = [start |-> base, end |-> last, next |-> s.next, prev |-> s.prev]
  BY <1>1
<1> HIDE DEF m
<1>7. /\ m.start = base /\ m.end = last /\ m.next = s.next /\ m.prev = s.prev
      /\ m = [start |-> base, end |-> m.end, next |-> m.next, prev |-> m.prev]
  BY <1>6
<1>8. IsList(m, all, new, count)
  <2>1. ListTypeOK(m, all, new)
    BY <1>1, <1>3, <1>5, <1>7 DEF ListTypeOK
  <2>2. ListOrder(m, new, count, o)
    BY <1>2, <1>4, <1>5, <1>7 DEF ListOrder
  <2>3. o \in [1..count -> new]
    BY <1>2 DEF Linked
  <2> QED BY <2>1, <2>2, <2>3 DEF IsList
<1>9. SameElsewhere(l, m, dom, {})
  BY <1>1, <1>7 DEF SameElsewhere
<1> QED BY <1>3, <1>7, <1>8, <1>9 DEF m, s, last

-----------------------------------------------------------------------------
(* Many slabs, by page: each is in order, and what is in use of all.       *)
SlabsOK(all) == \A p \in DOMAIN all : PageAligned(p) /\ WellFormed(p, all[p])

BusyOf(all) == UNION {BusyPtrs(all[p]) : p \in DOMAIN all}

\* Where the buffers of a slab are.
LEMMA BusyInPage ==
  ASSUME NEW page, PageAligned(page), NEW s, WellFormed(page, s),
         NEW ptr \in PtrsOf(s, Slots(s))
  PROVE  /\ ptr \in Nat /\ ptr # NULL
         /\ PagePointer(ptr) = page
         /\ page + HeaderSize <= ptr /\ ptr + s.size <= page + PageSize
         /\ SlotOf(s, ptr) \in Slots(s)
         /\ ptr = BufferPtr(s.allocable_buffer, s.size, SlotOf(s, ptr))
<1>1. PICK i \in Slots(s) : ptr = BufferPtr(s.allocable_buffer, s.size, i)
  BY DEF PtrsOf
<1>2. /\ s.size \in Nat \ {0} /\ s.max_refs = NumBuffers(s.size)
      /\ s.allocable_buffer = AllocableBuffer(page, s.size)
  BY DEF WellFormed
<1>3. SlotOf(s, ptr) = i
  BY <1>1, <1>2, SlotPtr
<1>4. /\ ptr \in Nat /\ ptr # NULL
      /\ PagePointer(ptr) = page
      /\ page + HeaderSize <= ptr /\ ptr + s.size <= page + PageSize
  BY <1>1, <1>2, SlotPtr
<1> QED BY <1>1, <1>3, <1>4

LEMMA BusyFacts ==
  ASSUME NEW all, SlabsOK(all), NEW ptr \in BusyOf(all)
  PROVE  LET p == PagePointer(ptr) IN
         /\ p \in DOMAIN all
         /\ ptr \in BusyPtrs(all[p])
         /\ SlotOf(all[p], ptr) \in BusySlots(all[p])
         /\ ptr = BufferPtr(all[p].allocable_buffer, all[p].size, SlotOf(all[p], ptr))
         /\ ptr \in Nat /\ ptr # NULL
<1>1. PICK p \in DOMAIN all : ptr \in BusyPtrs(all[p])
  BY DEF BusyOf
<1>2. PICK i \in BusySlots(all[p]) :
        ptr = BufferPtr(all[p].allocable_buffer, all[p].size, i)
  BY <1>1 DEF BusyPtrs, PtrsOf
<1>3. PageAligned(p) /\ WellFormed(p, all[p]) /\ i \in Slots(all[p])
  BY DEF SlabsOK, BusySlots
<1>4. /\ all[p].size \in Nat \ {0} /\ all[p].max_refs = NumBuffers(all[p].size)
      /\ all[p].allocable_buffer = AllocableBuffer(p, all[p].size)
  BY <1>3 DEF WellFormed
<1>5. /\ SlotOf(all[p], ptr) = i /\ PagePointer(ptr) = p
      /\ ptr \in Nat /\ ptr # NULL
  BY <1>2, <1>3, <1>4, SlotPtr
<1> QED BY <1>1, <1>2, <1>5

\* The buffer of a slot overlaps none in use of another slot, of whatever
\* slab.
LEMMA SlotIsApart ==
  ASSUME NEW all, SlabsOK(all), NEW p \in DOMAIN all,
         NEW i \in Slots(all[p]), NEW q \in BusyOf(all),
         p = PagePointer(q) => i # SlotOf(all[p], q)
  PROVE  LET ptr == BufferPtr(all[p].allocable_buffer, all[p].size, i) IN
         \/ ptr + all[p].size <= q
         \/ q + all[PagePointer(q)].size <= ptr
<1> DEFINE ptr == BufferPtr(all[p].allocable_buffer, all[p].size, i)
           pq  == PagePointer(q)
           j   == SlotOf(all[pq], q)
<1>1. /\ pq \in DOMAIN all /\ j \in BusySlots(all[pq]) /\ j \in Slots(all[pq])
      /\ q = BufferPtr(all[pq].allocable_buffer, all[pq].size, j)
      /\ q \in Nat
  BY BusyFacts DEF BusySlots
<1>2. /\ PageAligned(p) /\ PageAligned(pq)
      /\ WellFormed(p, all[p]) /\ WellFormed(pq, all[pq])
  BY <1>1 DEF SlabsOK
<1>3. /\ ptr \in PtrsOf(all[p], Slots(all[p])) /\ q \in PtrsOf(all[pq], Slots(all[pq]))
  BY <1>1 DEF PtrsOf
<1>4. /\ ptr \in Nat /\ PagePointer(ptr) = p
      /\ p + HeaderSize <= ptr /\ ptr + all[p].size <= p + PageSize
  BY <1>2, <1>3, BusyInPage
<1>5. /\ pq + HeaderSize <= q /\ q + all[pq].size <= pq + PageSize
  BY <1>1, <1>2, <1>3, BusyInPage
<1>6. all[p].size \in Nat \ {0} /\ all[pq].size \in Nat \ {0}
  BY <1>2 DEF WellFormed
<1>7. CASE pq = p
  <2>1. i # j /\ i \in Nat /\ j \in Nat /\ all[p].allocable_buffer \in Nat
    BY <1>1, <1>2, <1>7 DEF Slots, WellFormed, SlabTypeOK
  <2>2. CASE i < j
    BY <1>1, <1>6, <1>7, <2>1, <2>2, BuffersApart
  <2>3. CASE j < i
    BY <1>1, <1>6, <1>7, <2>1, <2>3, BuffersApart
  <2> QED BY <2>1, <2>2, <2>3
<1>8. CASE pq # p
  <2>1. /\ p \in Nat /\ pq \in Nat
        /\ p = (p \div 4096) * 4096 /\ pq = (pq \div 4096) * 4096
    BY <1>2 DEF PageAligned, PagePointer, PageMask
  <2>2. PageSize \in Nat /\ PageSize <= 4096
    BY PageSizeAssumption DEF PageMask
  <2>3. p + 4096 <= pq \/ pq + 4096 <= p
    BY <1>8, <2>1
  <2>4. ptr + all[p].size <= q \/ q + all[pq].size <= ptr
    <3> HIDE DEF ptr, pq
    <3> QED BY <1>1, <1>4, <1>5, <1>6, <2>1, <2>2, <2>3 DEF HeaderSize
  <2> QED BY <2>4
<1> QED BY <1>7, <1>8

\* So a buffer that is not in use overlaps none that is, and no two in use
\* overlap.
LEMMA FreeIsApart ==
  ASSUME NEW all, SlabsOK(all), NEW p \in DOMAIN all,
         NEW i \in Slots(all[p]), i \notin BusySlots(all[p]),
         NEW q \in BusyOf(all)
  PROVE  LET ptr == BufferPtr(all[p].allocable_buffer, all[p].size, i) IN
         \/ ptr + all[p].size <= q
         \/ q + all[PagePointer(q)].size <= ptr
<1>1. p = PagePointer(q) => i # SlotOf(all[p], q)
  BY BusyFacts
<1> QED BY <1>1, SlotIsApart

LEMMA BusyAreApart ==
  ASSUME NEW all, SlabsOK(all), NEW q \in BusyOf(all), NEW r \in BusyOf(all), q # r
  PROVE  \/ r + all[PagePointer(r)].size <= q
         \/ q + all[PagePointer(q)].size <= r
<1> DEFINE p == PagePointer(r)
           i == SlotOf(all[p], r)
<1>1. /\ p \in DOMAIN all /\ i \in Slots(all[p])
      /\ r = BufferPtr(all[p].allocable_buffer, all[p].size, i)
  BY BusyFacts DEF BusySlots
<1>2. p = PagePointer(q) => i # SlotOf(all[p], q)
  BY <1>1, BusyFacts
<1> HIDE DEF p, i
<1>3. \/ r + all[p].size <= q
      \/ q + all[PagePointer(q)].size <= r
  BY <1>1, <1>2, SlotIsApart
<1> QED BY <1>3 DEF p

\* A slab with no reference has no busy slot.
LEMMA EmptySlab ==
  ASSUME NEW page, NEW s, WellFormed(page, s), s.ref_count = 0
  PROVE  BusySlots(s) = {}
<1>1. PICK order \in [1..s.max_refs -> Slots(s)] : FreelistOrder(s, order)
  BY DEF WellFormed, FreelistOK
<1>2. s.max_refs \in Nat
  BY NonExistantNat DEF WellFormed, SlabTypeOK
<1>3. /\ \A i \in Slots(s) : \E k \in 1..s.max_refs : order[k] = i
      /\ \A k \in 1..s.max_refs :
           s.is_free[order[k]] = SLOT_FREE <=> k <= s.max_refs - s.ref_count
  BY <1>1 DEF FreelistOrder, Linked
<1>4. \A i \in Slots(s) : s.is_free[i] = SLOT_FREE
  BY <1>2, <1>3
<1> QED BY <1>4 DEF BusySlots, SLOT_FREE, SLOT_BUSY

-----------------------------------------------------------------------------
\* mem_slab_alloc on one of the slabs, unless a page has room for one buffer
\* only.
LEMMA AllocOfOne ==
  ASSUME NEW all, all = [p \in DOMAIN all |-> all[p]], SlabsOK(all),
         NEW page \in DOMAIN all, HasFreeSlot(all[page])
  PROVE  LET s   == all[page]
             ptr == AllocatedPtr(s)
             now == [all EXCEPT ![page] = SlabAlloc(s)]
         IN  /\ ptr \in Nat /\ ptr # NULL
             /\ ptr \notin BusyOf(all)
             /\ PagePointer(ptr) = page
             /\ \A q \in BusyOf(all) :
                  ptr + s.size <= q \/ q + all[PagePointer(q)].size <= ptr
             /\ SlabTypeOK(SlabAlloc(s)) /\ SlabAlloc(s).size = s.size
             /\ DOMAIN now = DOMAIN all
             /\ s.max_refs >= 2 =>
                  /\ SlabsOK(now)
                  /\ BusyOf(now) = BusyOf(all) \cup {ptr}
                  /\ AllocTouches(s) \subseteq Slots(s)
             /\ s.max_refs < 2 => ~(AllocTouches(s) \subseteq Slots(s))
<1> DEFINE s   == all[page]
           i   == s.freelist_start_index
           ptr == AllocatedPtr(s)
           t   == SlabAlloc(s)
           now == [all EXCEPT ![page] = t]
<1>1. PageAligned(page) /\ WellFormed(page, s)
  BY DEF SlabsOK
<1>2. /\ SlabTypeOK(s) /\ s.max_refs \in Nat /\ s.max_refs = NumBuffers(s.size)
      /\ s.size \in Nat \ {0} /\ s.allocable_buffer = AllocableBuffer(page, s.size)
  BY <1>1, NonExistantNat DEF WellFormed, SlabTypeOK
<1> HIDE DEF s
<1>3. i \in Slots(s) /\ i \notin BusySlots(s)
  <2>1. CASE s.max_refs >= 2
    BY <1>1, <2>1, AllocOK DEF s
  <2>2. CASE ~(s.max_refs >= 2)
    <3>1. i \in Slots(s)
      BY <1>1, <1>2, <2>2, AllocSingle DEF s
    <3> QED BY <3>1 DEF s, HasFreeSlot, BusySlots, SLOT_FREE, SLOT_BUSY
  <2> QED BY <2>1, <2>2
<1>4. ptr = BufferPtr(s.allocable_buffer, s.size, i)
  BY DEF AllocatedPtr
<1> HIDE DEF i, ptr
<1>5. ptr \in Nat /\ ptr # NULL /\ SlotOf(s, ptr) = i /\ PagePointer(ptr) = page
  BY <1>1, <1>2, <1>3, <1>4, SlotPtr
<1>6. ptr \notin BusyOf(all)
  <2> SUFFICES ASSUME ptr \in BusyOf(all) PROVE FALSE
    OBVIOUS
  <2>1. SlotOf(all[PagePointer(ptr)], ptr) \in BusySlots(all[PagePointer(ptr)])
    BY BusyFacts
  <2> QED BY <1>3, <1>5, <2>1 DEF s
<1>7. \A q \in BusyOf(all) :
         ptr + s.size <= q \/ q + all[PagePointer(q)].size <= ptr
  BY <1>3, <1>4, FreeIsApart DEF s
<1>8. SlabTypeOK(t) /\ t.size = s.size
  BY <1>2, <1>3, AllocTypeOK DEF i
<1>9. DOMAIN now = DOMAIN all
  OBVIOUS
<1>10. ASSUME s.max_refs >= 2
       PROVE  /\ SlabsOK(now)
              /\ BusyOf(now) = BusyOf(all) \cup {ptr}
              /\ AllocTouches(s) \subseteq Slots(s)
  <2>1. /\ WellFormed(page, t) /\ t.size = s.size
        /\ t.allocable_buffer = s.allocable_buffer
        /\ AllocTouches(s) \subseteq Slots(s)
        /\ BusySlots(t) = BusySlots(s) \cup {i}
    BY <1>1, <1>10, AllocOK DEF s, i
  <2> HIDE DEF t
  <2>2. SlabsOK(now)
    BY <1>1, <2>1 DEF SlabsOK
  <2>3. BusyPtrs(t) = BusyPtrs(s) \cup {ptr}
    <3>1. BusySlots(s) \in SUBSET Slots(s)
      BY DEF BusySlots
    <3>2. PtrsOf(t, BusySlots(s) \cup {i}) = PtrsOf(s, BusySlots(s)) \cup {ptr}
      BY <1>1, <1>2, <1>3, <1>4, <2>1, <3>1, PtrsOfChange
    <3> QED BY <2>1, <3>2 DEF BusyPtrs
  <2>4. BusyOf(now) = BusyOf(all) \cup {ptr}
    <3>1. now[page] = t /\ \A p \in DOMAIN all : p # page => now[p] = all[p]
      OBVIOUS
    <3> HIDE DEF now
    <3> QED BY <1>9, <2>3, <3>1 DEF BusyOf, s
  <2> QED BY <2>1, <2>2, <2>4
<1>11. s.max_refs < 2 => ~(AllocTouches(s) \subseteq Slots(s))
  BY <1>1, AllocSingle DEF s
<1> QED BY <1>5, <1>6, <1>7, <1>8, <1>9, <1>10, <1>11 DEF s, ptr

\* mem_slab_dealloc of a buffer in use, on the slab that get_page_pointer
\* finds; an unmapped empty slab takes nothing with it.
LEMMA DeallocOfOne ==
  ASSUME NEW all, all = [p \in DOMAIN all |-> all[p]], SlabsOK(all),
         NEW ptr \in BusyOf(all)
  PROVE  LET page == PagePointer(ptr)
             s    == all[page]
             slot == SlotOf(s, ptr)
             t    == SlabDealloc(s, slot)
             now  == [all EXCEPT ![page] = t]
             rest == [p \in DOMAIN all \ {page} |-> all[p]]
         IN  /\ page \in DOMAIN all
             /\ WellFormed(page, t)
             /\ t.size = s.size
             /\ SlabsOK(now) /\ BusyOf(now) = BusyOf(all) \ {ptr}
             /\ DeallocTouches(s, slot) \subseteq Slots(s)
             /\ t.ref_count = 0 =>
                  SlabsOK(rest) /\ BusyOf(rest) = BusyOf(all) \ {ptr}
<1> DEFINE page == PagePointer(ptr)
           s    == all[page]
           slot == SlotOf(s, ptr)
           t    == SlabDealloc(s, slot)
           now  == [all EXCEPT ![page] = t]
           rest == [p \in DOMAIN all \ {page} |-> all[p]]
<1>1. /\ page \in DOMAIN all
      /\ slot \in BusySlots(s)
      /\ ptr = BufferPtr(s.allocable_buffer, s.size, slot)
  BY BusyFacts
<1>2. PageAligned(page) /\ WellFormed(page, s) /\ slot \in Slots(s)
  BY <1>1 DEF SlabsOK, BusySlots
<1>3. \A p \in DOMAIN all : p # page => ptr \notin BusyPtrs(all[p])
  <2> SUFFICES ASSUME NEW p \in DOMAIN all, p # page, ptr \in BusyPtrs(all[p])
               PROVE  FALSE
    OBVIOUS
  <2>1. PageAligned(p) /\ WellFormed(p, all[p])
    BY DEF SlabsOK
  <2>2. ptr \in PtrsOf(all[p], Slots(all[p]))
    BY DEF BusyPtrs, BusySlots, PtrsOf
  <2>3. PagePointer(ptr) = p
    BY <2>1, <2>2, BusyInPage
  <2> QED BY <2>3
<1> HIDE DEF page, s, slot
<1>4. /\ WellFormed(page, t)
      /\ t.size = s.size
      /\ t.allocable_buffer = s.allocable_buffer
      /\ DeallocTouches(s, slot) \subseteq Slots(s)
      /\ BusySlots(t) = BusySlots(s) \ {slot}
  BY <1>1, <1>2, DeallocOK
<1> HIDE DEF t
<1>5. BusyPtrs(t) = BusyPtrs(s) \ {ptr}
  <2>1. BusySlots(s) \in SUBSET Slots(s)
    BY DEF BusySlots
  <2>2. /\ s.size \in Nat \ {0} /\ s.max_refs = NumBuffers(s.size)
        /\ s.allocable_buffer = AllocableBuffer(page, s.size)
    BY <1>2 DEF WellFormed
  <2>3. PtrsOf(t, BusySlots(s) \ {slot}) = PtrsOf(s, BusySlots(s)) \ {ptr}
    BY <1>1, <1>2, <1>4, <2>1, <2>2, PtrsOfChange
  <2> QED BY <1>4, <2>3 DEF BusyPtrs
<1>6. SlabsOK(now) /\ BusyOf(now) = BusyOf(all) \ {ptr}
  <2>1. /\ now[page] = t /\ DOMAIN now = DOMAIN all
        /\ \A p \in DOMAIN all : p # page => now[p] = all[p]
    BY <1>1
  <2> HIDE DEF now
  <2>2. SlabsOK(now)
    BY <1>2, <1>4, <2>1 DEF SlabsOK
  <2>3. BusyOf(now) = BusyOf(all) \ {ptr}
    BY <1>1, <1>3, <1>5, <2>1 DEF BusyOf, s
  <2> QED BY <2>2, <2>3
<1>7. ASSUME t.ref_count = 0
      PROVE  SlabsOK(rest) /\ BusyOf(rest) = BusyOf(all) \ {ptr}
  <2>1. BusyPtrs(t) = {}
    <3>1. BusySlots(t) = {}
      BY <1>4, <1>7, EmptySlab
    <3> QED BY <3>1 DEF BusyPtrs, PtrsOf
  <2>2. SlabsOK(rest)
    BY DEF SlabsOK
  <2>3. BusyOf(rest) = BusyOf(all) \ {ptr}
    BY <1>1, <1>3, <1>5, <2>1 DEF BusyOf, s
  <2> QED BY <2>2, <2>3
<1> QED BY <1>1, <1>4, <1>6, <1>7 DEF page, s, slot, t

\* The slabs after count new ones were added to those there were: none of the
\* new ones is in use.
Created(all, now, new, size) ==
  /\ DOMAIN now = DOMAIN all \cup new
  /\ now = [p \in DOMAIN now |-> now[p]]
  /\ \A p \in DOMAIN all : now[p] = all[p]
  /\ \A p \in new : /\ now[p] = PreparedSlab(p, size)
                    /\ SlabTypeOK(now[p]) /\ now[p].size = size
                    /\ now[p].ref_count = 0
  /\ NumBuffers(size) >= 1 /\ SlabsOK(all) =>
       SlabsOK(now) /\ BusyOf(now) = BusyOf(all)

\* mem_slab_create_several.
LEMMA CreatedOK ==
  ASSUME NEW all, NEW base, NEW count, NEW size \in Nat \ {0},
         \A p \in Region(base, count) : PageAligned(p),
         Region(base, count) \cap DOMAIN all = {}
  PROVE  Created(all, SeveralCreated(all, base, count, size), Region(base, count), size)
<1> DEFINE new == Region(base, count)
           now == SeveralCreated(all, base, count, size)
<1>1. /\ DOMAIN now = DOMAIN all \cup new
      /\ now = [p \in DOMAIN now |-> now[p]]
      /\ \A p \in DOMAIN all : now[p] = all[p]
      /\ \A p \in new : now[p] = PreparedSlab(p, size)
  BY DEF SeveralCreated
<1> HIDE DEF now
<1>2. ASSUME NEW p \in new
      PROVE  SlabTypeOK(now[p]) /\ now[p].size = size /\ now[p].ref_count = 0
  <2>1. PageAligned(p)
    OBVIOUS
  <2>2. /\ SlabTypeOK(PreparedSlab(p, size))
        /\ PreparedSlab(p, size).size = size /\ PreparedSlab(p, size).ref_count = 0
    BY <2>1, PreparedTypeOK, ZenonT(60)
  <2> QED BY <1>1, <2>2
<1>3. ASSUME NumBuffers(size) >= 1, SlabsOK(all)
      PROVE  SlabsOK(now) /\ BusyOf(now) = BusyOf(all)
  <2>1. ASSUME NEW p \in new
        PROVE  PageAligned(p) /\ WellFormed(p, now[p]) /\ BusyPtrs(now[p]) = {}
    <3>1. PageAligned(p)
      OBVIOUS
    <3>2. WellFormed(p, PreparedSlab(p, size)) /\ BusySlots(PreparedSlab(p, size)) = {}
      BY <1>3, <3>1, PreparedOK
    <3> QED BY <1>1, <3>1, <3>2 DEF BusyPtrs, PtrsOf
  <2> HIDE DEF new
  <2>2. SlabsOK(now)
    BY <1>1, <1>3, <2>1 DEF SlabsOK
  <2>3. BusyOf(now) = BusyOf(all)
    BY <1>1, <2>1 DEF BusyOf
  <2> QED BY <2>2, <2>3
<1> QED BY <1>1, <1>2, <1>3 DEF now, Created
=============================================================================
