--------------------------- MODULE BlockAllocator ---------------------------
(***************************************************************************)
(* What any allocator owes its caller: each allocation returns a block     *)
(* that overlaps no block still in use, and never fails; a block given     *)
(* back may be handed out again.                                           *)
(***************************************************************************)
EXTENDS Integers

CONSTANTS Ptr,       \* all addresses
          Size,      \* the size of a block
          NoResult   \* the result slot after a call that returns no block

VARIABLES live, ret

vars == <<live, ret>>

Apart(p, q) == p + Size <= q \/ q + Size <= p

Init == live = {} /\ ret = NoResult

Alloc == /\ ret' \in Ptr
         /\ \A q \in live : Apart(ret', q)
         /\ live' = live \cup {ret'}

Dealloc == \E ptr \in live :
             /\ live' = live \ {ptr}
             /\ ret' = NoResult

Next == Alloc \/ Dealloc

Spec == Init /\ [][Next]_vars
=============================================================================
