------------------------------ MODULE SlabPool ------------------------------
(***************************************************************************)
(* A pool of slabs of one size (slab_pool.c) and the program that          *)
(* allocates from it.  The slabs are on a doubly linked list, spread       *)
(* over their headers.  The pool allocates from the first slab, tries one  *)
(* more slab when that is full, and otherwise maps GrowRate more; a slab   *)
(* something is given back to moves to the front, and is unmapped when it  *)
(* is empty and the heuristic agrees.  mmap may fail at any time.          *)
(***************************************************************************)
EXTENDS SlabList, Heuristic

CONSTANTS
  Pages,           \* where the kernel can map slabs
  AllocationSize   \* allocation_size, the size of the buffers

ASSUME PoolAssumption ==
  /\ \A page \in Pages : PageAligned(page)
  /\ PageSize = PageMask
  /\ AllocationSize \in Nat \ {0}

VARIABLES
  slabs,    \* what is in each mapped page
  list,     \* list_start, list_end, and the next and prev of each header
  balance,  \* grow_count - shrink_count: the code reads only the difference
  live,     \* the buffers the program holds
  ret,      \* what the last call returned
  wild      \* a call has followed NULL or touched a bufctl beyond its array;
            \* behaviour is undefined from here on, and the model stops

vars == <<slabs, list, balance, live, ret, wild>>

VOID == -1  \* ret after a call that returns no buffer

Mapped == DOMAIN slabs

Mappable(count) == MappableIn(Pages \ Mapped, count)

-----------------------------------------------------------------------------
Init ==
  /\ slabs = [p \in {} |-> 0]
  /\ list = [start |-> NULL, end |-> NULL, next |-> [p \in {} |-> 0],
             prev |-> [p \in {} |-> 0]]
  /\ balance = 0
  /\ live = {}
  /\ ret = VOID
  /\ wild = FALSE

slab_pool_create(base) ==
  /\ balance = 0 /\ ~wild
  /\ base \in Mappable(StartSize)
  /\ LET l == SeveralLinked(list, base, StartSize, NULL) IN
       list' = [l EXCEPT !.end = LastFromList(l, base)]
  /\ slabs' = SeveralCreated(slabs, base, StartSize, AllocationSize)
  /\ balance' = StartSize
  /\ wild' = ~(PreparedTouches(slabs'[base]) \subseteq Slots(slabs'[base]))
  /\ UNCHANGED <<live, ret>>

\* mmap fails, and get_last_from_list(NULL) reads NULL->next.
slab_pool_create_fails ==
  /\ balance = 0 /\ ~wild
  /\ wild' = TRUE
  /\ UNCHANGED <<slabs, list, balance, live, ret>>

Usable == balance > 0 /\ ~wild

\* mem_slab_alloc(pool->list_start), with the list and the slabs as they are
\* by then.  That prepare_slab_header stays within the page is settled by
\* slab_pool_create: all slabs have the same size.
AllocFromFirst(l, all) ==
  LET s == all[l.start] IN
    /\ list' = l
    /\ slabs' = [all EXCEPT ![l.start] = AfterAlloc(s)]
    /\ ret' = AllocReturns(s)
    /\ live' = live \cup ({ret'} \ {NULL})
    /\ wild' = (HasFreeSlot(s) /\ ~(AllocTouches(s) \subseteq Slots(s)))

slab_pool_allocate ==
  /\ Usable
  /\ ~IsFull(slabs[list.start])
  /\ AllocFromFirst(list, slabs)
  /\ UNCHANGED balance

slab_pool_allocate_second ==
  /\ Usable
  /\ IsFull(slabs[list.start])
  /\ ~IsFull(slabs[SecondFirst(list).start])
  /\ AllocFromFirst(SecondFirst(list), slabs)
  /\ UNCHANGED balance

slab_pool_allocate_grow(base) ==
  /\ Usable
  /\ FirstTwoFull(list, slabs)
  /\ base \in Mappable(heuristic_decision_grow_count)
  /\ AllocFromFirst(
       SeveralLinked(ThirdFirst(list), base, heuristic_decision_grow_count,
                     ThirdFirst(list).start),
       SeveralCreated(slabs, base, heuristic_decision_grow_count, AllocationSize))
  /\ balance' = balance + heuristic_decision_grow_count

\* mmap fails: list_start becomes NULL and mem_slab_alloc(NULL) reads from it.
slab_pool_allocate_fails ==
  /\ Usable
  /\ FirstTwoFull(list, slabs)
  /\ list' = [ThirdFirst(list) EXCEPT !.start = NULL]
  /\ balance' = balance + heuristic_decision_grow_count
  /\ wild' = TRUE
  /\ UNCHANGED <<slabs, live, ret>>

\* The slab of a buffer and what mem_slab_dealloc makes of it.
SlabOf(ptr) == PagePointer(ptr)

Given(ptr) == SlabDealloc(slabs[SlabOf(ptr)], SlotOf(slabs[SlabOf(ptr)], ptr))

\* Whether slab_pool_deallocate unmaps the slab once it is at the start of
\* list l, and a mutant that does not look at ref_count.
UnmapsAnyway(ptr, l) ==
  /\ ~IsLonely(l, SlabOf(ptr))
  /\ heuristic_decision_does_free_slab(balance)

Unmaps(ptr, l) ==
  /\ Given(ptr).ref_count = 0
  /\ ~IsLonely(l, SlabOf(ptr))
  /\ heuristic_decision_does_free_slab(balance)

\* The first part of slab_pool_deallocate, up to the heuristic.
GiveBack(ptr) ==
  /\ Usable
  /\ live' = live \ {ptr}
  /\ ret' = VOID
  /\ LET s == slabs[SlabOf(ptr)] IN
       wild' = ~(DeallocTouches(s, SlotOf(s, ptr)) \subseteq Slots(s))

slab_pool_deallocate(ptr) ==
  /\ GiveBack(ptr)
  /\ ~Unmaps(ptr, MoveToStart(list, SlabOf(ptr)))
  /\ list' = MoveToStart(list, SlabOf(ptr))
  /\ slabs' = [slabs EXCEPT ![SlabOf(ptr)] = Given(ptr)]
  /\ UNCHANGED balance

slab_pool_deallocate_unmap(ptr) ==
  /\ GiveBack(ptr)
  /\ Unmaps(ptr, MoveToStart(list, SlabOf(ptr)))
  /\ list' = Unlinked(MoveToStart(list, SlabOf(ptr)), SlabOf(ptr))
  /\ slabs' = [p \in Mapped \ {SlabOf(ptr)} |-> slabs[p]]
  /\ balance' = BalanceWithout(balance)

Next ==
  \/ \E base \in Pages : slab_pool_create(base)
  \/ slab_pool_create_fails
  \/ slab_pool_allocate
  \/ slab_pool_allocate_second
  \/ \E base \in Pages : slab_pool_allocate_grow(base)
  \/ slab_pool_allocate_fails
  \/ \E ptr \in live : slab_pool_deallocate(ptr)
  \/ \E ptr \in live : slab_pool_deallocate_unmap(ptr)

Spec == Init /\ [][Next]_vars

-----------------------------------------------------------------------------
(* Type correctness: list_start and list_end are NULL or lead to a mapped  *)
(* slab, and so do all links; every slab has the types of its header.      *)
PoolTypeOK ==
  LET Link == Mapped \cup {NULL} IN
    /\ Mapped \subseteq Pages
    /\ \A p \in Mapped : SlabTypeOK(slabs[p])
    /\ list \in [start : Link, end : Link, next : [Mapped -> Link], prev : [Mapped -> Link]]
    /\ balance \in Nat
    /\ live \subseteq Nat
    /\ ret \in Nat \cup {VOID}
    /\ wild \in BOOLEAN

(* Whatever moves to the start or the end, is added or unmapped, the pool  *)
(* has one doubly linked list of all mapped slabs from list_start to       *)
(* list_end, and never loses its last slab.                                *)
ListIntact ==
  Usable =>
    LET n == Cardinality(Mapped) IN
      /\ n > 0
      /\ \E order \in [1..n -> Mapped] :
           /\ Linked(order, n, Mapped, list.next, list.prev, NULL)
           /\ order[1] = list.start
           /\ order[n] = list.end

(* The buffers the program holds are the busy ones of the mapped slabs: no *)
(* slab is unmapped with a buffer in use, none is handed out twice, and    *)
(* get_page_pointer finds the slab a buffer is from.                       *)
PoolLiveAreBusy ==
  Usable => /\ \A p \in Mapped : WellFormed(p, slabs[p])
            /\ live = UNION {BusyPtrs(slabs[p]) : p \in Mapped}
            /\ \A ptr \in live : ptr \in BusyPtrs(slabs[PagePointer(ptr)])

(* The heuristic's data agree with the list: grow_count - shrink_count is  *)
(* the number of slabs.                                                    *)
BalanceCountsSlabs == Usable => balance = Cardinality(Mapped)

(* The assertion result != NULL after each mem_slab_alloc: a slab whose    *)
(* ref_count is below max_refs has a free slot at the start of its list.   *)
AllocateNeverNull == ret # NULL

(* Only a failing mmap makes the pool follow a NULL pointer or leave a     *)
(* bufctl array.                                                           *)
WildOnlyWithoutMemory == wild => list.start = NULL

(* The pool does what an allocator owes its caller, whatever it does to    *)
(* its slabs.                                                              *)
Blocks == INSTANCE BlockAllocator WITH
  Ptr <- Nat \ {NULL}, Size <- AllocationSize, NoResult <- VOID

ImplementsBlockAllocator == Blocks!Spec

-----------------------------------------------------------------------------
(* What the code says of itself and does not do. *)

(* slab_pool.h: the pool creates slabs when all of its slabs are full.     *)
GrowsOnlyWhenFull ==
  [][Cardinality(Mapped') > Cardinality(Mapped)
       => \A p \in Mapped : IsFull(slabs[p])]_vars

(* mem_slab_alloc asserts slab != NULL: the pool calls it with its first   *)
(* slab.                                                                   *)
FirstSlabExists == balance > 0 => list.start # NULL

(* The parameter minimum_empty_slabs of the heuristic: a slab is unmapped   *)
(* only when that many empty slabs are left.                               *)
EmptySlabs == {p \in Mapped : slabs[p].ref_count = 0}

ShrinkKeepsMinimumEmpty ==
  [][Cardinality(Mapped') < Cardinality(Mapped)
       => Cardinality(EmptySlabs') >= MinimumEmptySlabs]_vars
=============================================================================
