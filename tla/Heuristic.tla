------------------------------ MODULE Heuristic ------------------------------
(***************************************************************************)
(* The decisions a pool leaves to heuristic.c: by how many slabs to grow,  *)
(* and whether to give an empty slab back.  Of the pool's data they read   *)
(* only grow_count - shrink_count, the balance.                            *)
(***************************************************************************)
EXTENDS Integers

CONSTANTS
  StartSize,       \* POOL_START_SIZE
  GrowRate,        \* POOL_GROW_RATE
  MaxGrowRate      \* POOL_MAX_GROW_RATE

ASSUME HeuristicAssumption ==
  StartSize \in Nat \ {0} /\ GrowRate \in Nat \ {0} /\ MaxGrowRate \in Nat

MinimumEmptySlabs == GrowRate + MaxGrowRate

heuristic_decision_grow_count == GrowRate

heuristic_decision_does_free_slab(balance) == balance <= MinimumEmptySlabs

\* shrink_count goes up by one, and a mutant that does not count.
BalanceUncounted(old) == old

BalanceWithout(old) == old - 1
=============================================================================
