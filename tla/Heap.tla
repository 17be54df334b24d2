-------------------------------- MODULE Heap --------------------------------
(***************************************************************************)
(* What malloc, realloc and free owe a program: a block overlaps no other  *)
(* block in use, keeps what the program wrote until it is freed, and keeps *)
(* it also when realloc moves the block.  A call that finds no memory      *)
(* changes nothing.                                                        *)
(***************************************************************************)
EXTENDS Integers

CONSTANTS Ptr,    \* all addresses
          Sizes,  \* the sizes the program asks for
          Data    \* what may stand in a block

VARIABLE heap     \* the blocks in use: size and data, by address

Blocks == DOMAIN heap

\* Nothing but the blocks in others is in the way of one of size bytes at ptr.
Fits(ptr, size, others) ==
  \A q \in others : ptr + size <= q \/ q + heap[q].size <= ptr

With(others, ptr, block) ==
  [q \in others \cup {ptr} |-> IF q = ptr THEN block ELSE heap[q]]

Init == heap = [ptr \in {} |-> 0]

Malloc == \E ptr \in DOMAIN heap' \ Blocks :
            /\ ptr \in Ptr
            /\ heap'[ptr] \in [size : Sizes, data : Data]
            /\ Fits(ptr, heap'[ptr].size, Blocks)
            /\ heap' = With(Blocks, ptr, heap'[ptr])

Realloc == \E old \in Blocks, ptr \in DOMAIN heap' :
             /\ ptr \in Ptr
             /\ heap'[ptr].size \in Sizes
             /\ heap'[ptr].data = heap[old].data
             /\ Fits(ptr, heap'[ptr].size, Blocks \ {old})
             /\ heap' = With(Blocks \ {old}, ptr, heap'[ptr])

Free == \E ptr \in Blocks : heap' = [q \in Blocks \ {ptr} |-> heap[q]]

Write == \E ptr \in Blocks, data \in Data :
           heap' = [heap EXCEPT ![ptr].data = data]

Next == Malloc \/ Realloc \/ Free \/ Write

Spec == Init /\ [][Next]_heap
=============================================================================
