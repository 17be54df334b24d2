----------------------------- MODULE SlabMemory -----------------------------
(***************************************************************************)
(* One slab and a program that also writes to the buffers it holds.  The   *)
(* bufctls and the data share the page, so what the program writes is      *)
(* carried over into the bufctls byte by byte (little-endian fields, as on *)
(* the targets the code is built for).                                     *)
(***************************************************************************)
EXTENDS Slab

CONSTANT Bytes   \* the values the program fills its buffers with

\* Byte k of bufctl i is one of the size bytes from ptr on.
Overlaps(ptr, i, k) ==
  LET byte == FreelistBuffer(Page) + BufctlSize * i + k
  IN  ptr <= byte /\ byte < ptr + slab.size

\* A uint16_t at byte k of bufctl i, after all bytes of the buffer became b.
Filled16(old, ptr, b, i, k) ==
  (IF Overlaps(ptr, i, k + 1) THEN b ELSE old \div 256) * 256
    + (IF Overlaps(ptr, i, k) THEN b ELSE old % 256)

\* The program's memset(ptr, b, size) of a buffer it holds.
fill(ptr, b) ==
  /\ Usable
  /\ slab' = [slab EXCEPT
       !.next_index = [i \in DOMAIN @ |-> Filled16(@[i], ptr, b, i, 0)],
       !.prev_index = [i \in DOMAIN @ |-> Filled16(@[i], ptr, b, i, 2)],
       !.is_free    = [i \in DOMAIN @ |-> IF Overlaps(ptr, i, 4) THEN b ELSE @[i]]]
  /\ UNCHANGED <<mapped, live, ret, wild>>

MemoryNext ==
  \/ Next
  \/ \E ptr \in live, b \in Bytes : fill(ptr, b)

MemorySpec == Init /\ [][MemoryNext]_vars

(* mem_slab_dealloc asserts that the slot it is given is busy, which it is *)
(* for a buffer the program holds, whatever the program wrote to it.       *)
DeallocFindsBusy ==
  Usable => \A ptr \in live : slab.is_free[SlotOf(slab, ptr)] = SLOT_BUSY
=============================================================================
