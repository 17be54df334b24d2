---------------------------- MODULE DoublyLinked ----------------------------
(***************************************************************************)
(* What it means for next and prev pointers to form one doubly linked list *)
(* of a set of nodes.  The allocator has two such lists, both spread over  *)
(* the objects they link: the bufctls of a slab (by index, slab.c) and the *)
(* slabs of a pool (by address, slab_pool.c).                              *)
(***************************************************************************)
EXTENDS Integers

\* order[1], ..., order[n] visits every node once, next and prev lead from
\* each node to its neighbours, and nil ends both directions.
Linked(order, n, nodes, next, prev, nil) ==
  /\ order \in [1..n -> nodes]
  /\ \A x \in nodes : \E k \in 1..n : order[k] = x
  /\ \A j, k \in 1..n : order[j] = order[k] => j = k
  /\ \A k \in 1..n :
       /\ next[order[k]] = IF k = n THEN nil ELSE order[k + 1]
       /\ prev[order[k]] = IF k = 1 THEN nil ELSE order[k - 1]

\* The orders that result from moving the first node to the end, and from
\* moving the p-th node to the front.
FirstToEnd(order, n) == [k \in 1..n |-> IF k = n THEN order[1] ELSE order[k + 1]]

ToFront(order, n, p) ==
  [k \in 1..n |-> IF k = 1 THEN order[p]
                  ELSE IF k <= p THEN order[k - 1] ELSE order[k]]
=============================================================================
