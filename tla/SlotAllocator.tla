---------------------------- MODULE SlotAllocator ----------------------------
(***************************************************************************)
(* What a slab promises its caller, without freelist, indices or page: a   *)
(* fixed set of buffers, each either free or live.  alloc hands out a free *)
(* buffer whenever there is one and NULL only when there is none; dealloc  *)
(* takes back a live one; the slab is given up only when nothing is live.  *)
(***************************************************************************)
CONSTANTS Ptr,       \* all buffer addresses
          NoPtr,     \* what a failed allocation returns
          NoResult   \* the result slot after a call that returns no buffer

VARIABLES free, live, ret

vars == <<free, live, ret>>

Init == free = {} /\ live = {} /\ ret = NoResult

Create == /\ free = {} /\ live = {}
          /\ free' \in SUBSET Ptr
          /\ ret' = NoResult
          /\ UNCHANGED live

Alloc == /\ ret' \in free
         /\ free' = free \ {ret'}
         /\ live' = live \cup {ret'}

AllocFails == /\ free = {}
              /\ ret' = NoPtr
              /\ UNCHANGED <<free, live>>

Dealloc == \E ptr \in live :
             /\ live' = live \ {ptr}
             /\ free' = free \cup {ptr}
             /\ ret' = NoResult

Free == /\ live = {}
        /\ free' = {}
        /\ ret' = NoResult
        /\ UNCHANGED live

Next == Create \/ Alloc \/ AllocFails \/ Dealloc \/ Free

Spec == Init /\ [][Next]_vars
=============================================================================
