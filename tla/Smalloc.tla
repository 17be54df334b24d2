------------------------------- MODULE Smalloc -------------------------------
(***************************************************************************)
(* The malloc replacement (smalloc.c): one pool for each cache size and    *)
(* the malloc of the C library for everything larger, under a program that *)
(* writes to the blocks it holds.  mem is all that smalloc.c reaches: the  *)
(* slabs by page, the links in their headers (shared by all pools, as      *)
(* memory is), the pools, and the blocks of the C library.  A call is a    *)
(* function from mem to the set of its outcomes, so that srealloc can be   *)
(* written as the calls it makes.                                          *)
(*                                                                         *)
(* A block's data stand for the bytes the program asked for.  The first    *)
(* buffers of every slab lie over its bufctls: the call or the write that  *)
(* first puts bytes there is the last step of a behaviour, a fault.        *)
(* SlabMemory follows a slab beyond it.                                    *)
(***************************************************************************)
EXTENDS SlabList, Heuristic, FiniteSetsExt, SequencesExt

CONSTANTS
  Pages,            \* where the kernel can map slabs
  CacheSizes,       \* cache_sizes; a pool is named by its size
  MallocPtrs,       \* where the C library has room for a block, of any size
  RequestSizes,     \* the sizes the program asks for
  Values,           \* what it writes
  MaxHeld,          \* bound: how many blocks it holds at a time
  MaxInits          \* bound: how often smalloc_initialize runs

\* The first eight bytes of the page of a block of the C library are never
\* SLAB_MAGIC_NUMBER: get_page_pointer sees a slab on the pages of slabs only.
\* And malloc hands out no memory that mmap has: its blocks overlap no page.
ASSUME SmallocAssumption ==
  /\ \A page \in Pages : PageAligned(page)
  /\ PageSize = PageMask
  /\ IsFiniteSet(CacheSizes)
  /\ \A c \in CacheSizes : c \in Nat \ {0} /\ NumBuffers(c) >= 2
  /\ MallocPtrs \subseteq Nat \ {NULL}
  /\ \A ptr \in MallocPtrs : PagePointer(ptr) \notin Pages
  /\ \A ptr \in MallocPtrs, page \in Pages, size \in RequestSizes :
       ptr + size <= page \/ page + PageSize <= ptr
  /\ \A p, q \in MallocPtrs : p < q => \A size \in RequestSizes : p + size <= q
  /\ RequestSizes \subseteq Nat \ {0}
  /\ MaxHeld \in Nat /\ MaxInits \in Nat

VARIABLES
  mem,    \* [slabs, next, prev, pools, chunks]
  held,   \* the blocks the program holds: size asked for and data, by address
  inits,  \* how often smalloc_initialize has run
  fault   \* "none", or why behaviour is undefined from here on

vars == <<mem, held, inits, fault>>

Junk == "junk"  \* the data of a block nobody has written to

Outcome(m, ptr, why) == [mem |-> m, ptr |-> ptr, fault |-> why]

Mapped(m) == DOMAIN m.slabs

\* get_page_pointer(ptr)->slab_magic == SLAB_MAGIC_NUMBER
IsSlabBlock(m, ptr) == PagePointer(ptr) \in Mapped(m)

\* A block whose first bytes are bufctls: allocable_buffer is num_buffers bytes
\* behind the start of the array, not num_buffers bufctls.
OverBufctls(m, ptr) ==
  LET page == PagePointer(ptr) IN
    /\ page \in Mapped(m)
    /\ ptr < FreelistBuffer(page) + BufctlSize * m.slabs[page].max_refs

\* A pool as slab_pool.c sees it, and mem once it has changed.
ListOf(m, i) == [start |-> m.pools[i].start, end |-> m.pools[i].end,
                 next |-> m.next, prev |-> m.prev]

WithPool(m, i, l, slabs, balance) ==
  [slabs |-> slabs, next |-> l.next, prev |-> l.prev, chunks |-> m.chunks,
   pools |-> [m.pools EXCEPT ![i] = [start   |-> l.start,
                                     end     |-> l.end,
                                     balance |-> balance]]]

-----------------------------------------------------------------------------
(* slab_pool_create, slab_pool_allocate and slab_pool_deallocate on mem.   *)

\* grow_count - shrink_count of a new pool, and a mutant that adds to what
\* was counted before.
BalanceKept(m, i) == m.pools[i].balance + StartSize

BalanceOfNew(m, i) == StartSize

PoolCreate(m, i, base) ==
  LET none == [start |-> NULL, end |-> NULL, next |-> m.next, prev |-> m.prev]
      l    == SeveralLinked(none, base, StartSize, NULL)
  IN WithPool(m, i, [l EXCEPT !.end = LastFromList(l, base)],
              SeveralCreated(m.slabs, base, StartSize, i), BalanceOfNew(m, i))

FromFirst(m, i, l, slabs, balance) ==
  Outcome(WithPool(m, i, l, [slabs EXCEPT ![l.start] = AfterAlloc(@)], balance),
          AllocReturns(slabs[l.start]), "none")

PoolAllocate(m, i) ==
  LET l       == ListOf(m, i)
      balance == m.pools[i].balance
      count   == heuristic_decision_grow_count
      bases   == MappableIn(Pages \ Mapped(m), count)
  IN IF ~IsFull(m.slabs[l.start]) THEN {FromFirst(m, i, l, m.slabs, balance)}
     ELSE IF ~FirstTwoFull(l, m.slabs)
     THEN {FromFirst(m, i, SecondFirst(l), m.slabs, balance)}
     ELSE {Outcome(m, NULL, "mmap failed")} \cup
          {FromFirst(m, i,
             SeveralLinked(ThirdFirst(l), base, count, ThirdFirst(l).start),
             SeveralCreated(m.slabs, base, count, i),
             balance + count) : base \in bases}

\* move_slab_to_start_of_the_list follows prev of any slab but the first.
FollowsNull(l, slab) == l.start # slab /\ l.prev[slab] = NULL

PoolDeallocate(m, i, ptr) ==
  LET slab    == PagePointer(ptr)
      given   == SlabDealloc(m.slabs[slab], SlotOf(m.slabs[slab], ptr))
      l       == MoveToStart(ListOf(m, i), slab)
      balance == m.pools[i].balance
      unmaps  == /\ given.ref_count = 0
                 /\ ~IsLonely(l, slab)
                 /\ heuristic_decision_does_free_slab(balance)
  IN IF FollowsNull(ListOf(m, i), slab) THEN Outcome(m, NULL, "NULL followed")
     ELSE IF unmaps
     THEN Outcome(WithPool(m, i, Unlinked(l, slab),
                           [p \in Mapped(m) \ {slab} |-> m.slabs[p]],
                           BalanceWithout(balance)),
                  NULL, "none")
     ELSE Outcome(WithPool(m, i, l, [m.slabs EXCEPT ![slab] = given], balance),
                  NULL, "none")

-----------------------------------------------------------------------------
(* smalloc, sfree and srealloc. *)

\* The pools whose buffers are large enough, and a mutant of the test that is
\* off by one.  smalloc takes the first: cache_sizes is sorted.
SuitableOffByOne(size) == {c \in CacheSizes : size <= c + 1}

Suitable(size) == {c \in CacheSizes : size <= c}

Malloced(m) ==
  {Outcome([m EXCEPT !.chunks = @ \cup {ptr}], ptr, "none") :
     ptr \in MallocPtrs \ m.chunks} \cup {Outcome(m, NULL, "none")}

SmallocOf(m, size) ==
  IF Suitable(size) = {} THEN Malloced(m) ELSE PoolAllocate(m, Min(Suitable(size)))

\* sfree gives a buffer to the pool of its slab's size, and a mutant that
\* gives it to the last one.
LastPool(m, ptr) == Max(CacheSizes)

PoolOf(m, ptr) == m.slabs[PagePointer(ptr)].size

SfreeOf(m, ptr) ==
  IF IsSlabBlock(m, ptr)
  THEN PoolDeallocate(m, PoolOf(m, ptr), ptr)
  ELSE Outcome([m EXCEPT !.chunks = @ \ {ptr}], NULL, "none")

\* How many bytes memcpy may write at ptr.
Capacity(m, ptr, size) ==
  IF IsSlabBlock(m, ptr) THEN m.slabs[PagePointer(ptr)].size ELSE size

\* srealloc leaves a block where it is when the new size is below that of
\* its slab, and a mutant that never does.
StaysNever(m, ptr, size) == FALSE

Stays(m, ptr, size) == size < m.slabs[PagePointer(ptr)].size

\* How many bytes the copy takes, and a mutant that takes the new size less
\* what the slab has.
CopiesDifference(m, ptr, size) == size - m.slabs[PagePointer(ptr)].size

CopyLength(m, ptr, size) == m.slabs[PagePointer(ptr)].size

\* The fault of the copy that follows smalloc, if any.
CopyFault(m, new, length, size) ==
  IF new.fault # "none" THEN new.fault
  ELSE IF new.ptr = NULL THEN "malloc failed"
  ELSE IF length > Capacity(new.mem, new.ptr, size) THEN "copy overflows"
  ELSE IF OverBufctls(new.mem, new.ptr) THEN "bufctls overwritten"
  ELSE "none"

\* The data of a block of which length bytes are copied.
Copied(block, length) == IF length >= block.size THEN block.data ELSE Junk

-----------------------------------------------------------------------------
\* realloc of the C library: in place, elsewhere, or not at all (NULL, the
\* block stays).
Realloced(m, ptr) ==
  {Outcome([m EXCEPT !.chunks = (@ \ {ptr}) \cup {q}], q, "none") :
     q \in {ptr} \cup (MallocPtrs \ m.chunks)} \cup {Outcome(m, NULL, "none")}

Init ==
  /\ mem = [slabs |-> [p \in {} |-> 0], next |-> [p \in {} |-> 0],
            prev |-> [p \in {} |-> 0], chunks |-> {},
            pools |-> [i \in CacheSizes |-> [start |-> NULL, end |-> NULL, balance |-> 0]]]
  /\ held = [ptr \in {} |-> 0]
  /\ inits = 0
  /\ fault = "none"

\* One pool after another is created.
Initialized(m, bases) ==
  FoldSet(LAMBDA i, n : PoolCreate(n, i, bases[i]), m, CacheSizes)

\* All pools, wherever the kernel maps their slabs, in place of those there
\* were; when it maps nothing, slab_pool_create follows NULL.  A program that
\* runs it again, as the tests and benchmarks do, holds no block by then.
smalloc_initialize(bases) ==
  LET Start(i) == Region(bases[i], StartSize)
  IN /\ fault = "none" /\ inits < MaxInits
     /\ DOMAIN held = {}
     /\ \A i \in CacheSizes : bases[i] \in MappableIn(Pages \ Mapped(mem), StartSize)
     /\ \A i, j \in CacheSizes : i # j => Start(i) \cap Start(j) = {}
     /\ mem' = Initialized(mem, bases)
     /\ inits' = inits + 1
     /\ UNCHANGED <<held, fault>>

smalloc_initialize_fails ==
  /\ fault = "none" /\ inits < MaxInits
  /\ DOMAIN held = {}
  /\ fault' = "mmap failed"
  /\ UNCHANGED <<mem, held, inits>>

Usable == inits > 0 /\ fault = "none"

Without(ptrs) == [p \in DOMAIN held \ ptrs |-> held[p]]

\* held with a new block, unless the call returned NULL.
Holding(others, ptr, block) ==
  IF ptr = NULL THEN held
  ELSE [p \in DOMAIN others \cup {ptr} |-> IF p = ptr THEN block ELSE others[p]]

\* smalloc, and srealloc(NULL, size), which is the same.
smalloc(size) ==
  /\ Usable /\ Cardinality(DOMAIN held) < MaxHeld
  /\ \E new \in SmallocOf(mem, size) :
       /\ mem' = new.mem
       /\ fault' = new.fault
       /\ held' = Holding(held, new.ptr, [size |-> size, data |-> Junk])
  /\ UNCHANGED inits

\* The block of the C library is the C library's to resize.
srealloc_malloced(ptr, size) ==
  /\ Usable /\ ~IsSlabBlock(mem, ptr)
  /\ \E new \in Realloced(mem, ptr) :
       /\ mem' = new.mem
       /\ held' = Holding(Without({ptr}), new.ptr, [held[ptr] EXCEPT !.size = size])
  /\ UNCHANGED <<inits, fault>>

srealloc_stays(ptr, size) ==
  /\ Usable /\ IsSlabBlock(mem, ptr) /\ Stays(mem, ptr, size)
  /\ held' = [held EXCEPT ![ptr].size = size]
  /\ UNCHANGED <<mem, inits, fault>>

\* smalloc, memcpy, sfree: what sfree finds is what smalloc left.
srealloc_moves(ptr, size) ==
  /\ Usable /\ IsSlabBlock(mem, ptr) /\ ~Stays(mem, ptr, size)
  /\ \E new \in SmallocOf(mem, size) :
       LET length == CopyLength(mem, ptr, size)
           why    == CopyFault(mem, new, length, size)
           freed  == SfreeOf(new.mem, ptr)
       IN IF why # "none"
          THEN fault' = why /\ UNCHANGED <<mem, held>>
          ELSE /\ mem' = freed.mem
               /\ fault' = freed.fault
               /\ held' = Holding(Without({ptr}), new.ptr,
                            [size |-> size, data |-> Copied(held[ptr], length)])
  /\ UNCHANGED inits

sfree(ptr) ==
  /\ Usable
  /\ mem' = SfreeOf(mem, ptr).mem
  /\ fault' = SfreeOf(mem, ptr).fault
  /\ held' = Without({ptr})
  /\ UNCHANGED inits

\* The program writes to a block it holds, and to the bufctls that it covers.
write(ptr, value) ==
  /\ Usable
  /\ held' = [held EXCEPT ![ptr].data = value]
  /\ fault' = IF OverBufctls(mem, ptr) THEN "bufctls overwritten" ELSE "none"
  /\ UNCHANGED <<mem, inits>>

Next ==
  \/ \E bases \in [CacheSizes -> Pages] : smalloc_initialize(bases)
  \/ smalloc_initialize_fails
  \/ \E size \in RequestSizes : smalloc(size)
  \/ \E ptr \in DOMAIN held :
       \/ \E size \in RequestSizes : \/ srealloc_malloced(ptr, size)
                                     \/ srealloc_stays(ptr, size)
                                     \/ srealloc_moves(ptr, size)
       \/ sfree(ptr)
       \/ \E value \in Values : write(ptr, value)

Spec == Init /\ [][Next]_vars

-----------------------------------------------------------------------------
(* Type correctness: pools and links lead to mapped slabs or nowhere, each *)
(* header has its types, and the program holds addresses of blocks.        *)
SmallocTypeOK ==
  LET Link == Mapped(mem) \cup {NULL} IN
    /\ Mapped(mem) \subseteq Pages
    /\ \A p \in Mapped(mem) : SlabTypeOK(mem.slabs[p])
    /\ mem.next \in [Mapped(mem) -> Link] /\ mem.prev \in [Mapped(mem) -> Link]
    /\ mem.pools \in [CacheSizes -> [start : Link, end : Link, balance : Nat]]
    /\ mem.chunks \subseteq MallocPtrs
    /\ \A ptr \in DOMAIN held :
         held[ptr] \in [size : RequestSizes, data : Values \cup {Junk}]
    /\ inits \in 0..MaxInits
    /\ fault \in {"none", "mmap failed", "malloc failed", "NULL followed",
                 "copy overflows", "bufctls overwritten"}

\* The slabs from the start of a pool's list on, in order.
Chain(i) ==
  LET list[p \in Mapped(mem) \cup {NULL}] ==
        IF p = NULL THEN <<>> ELSE <<p>> \o list[mem.next[p]]
  IN list[mem.pools[i].start]

(* Each pool has a list of its own, linked both ways between its two ends, *)
(* of slabs of its own size; every slab with a buffer in use is on one.    *)
(* The calls on one pool, and srealloc's on two, leave the lists apart.    *)
PoolsApart ==
  Usable =>
    /\ \A i \in CacheSizes :
         /\ Linked(Chain(i), Len(Chain(i)), Range(Chain(i)),
                   [p \in Range(Chain(i)) |-> mem.next[p]],
                   [p \in Range(Chain(i)) |-> mem.prev[p]], NULL)
         /\ Last(Chain(i)) = mem.pools[i].end
         /\ Len(Chain(i)) = mem.pools[i].balance
         /\ \A p \in Range(Chain(i)) : mem.slabs[p].size = i
    /\ \A i, j \in CacheSizes : i # j => Range(Chain(i)) \cap Range(Chain(j)) = {}
    /\ \A p \in Mapped(mem) :
         mem.slabs[p].ref_count > 0 => \E i \in CacheSizes : p \in Range(Chain(i))

(* The blocks the program holds are the C library's blocks and the busy    *)
(* buffers of the slabs, whatever moved between the two, and none is       *)
(* larger than its buffer: sfree and srealloc tell the two apart rightly   *)
(* and nothing leaks.  No bufctl lies in what the program or srealloc's    *)
(* copy has written: no later call, on whichever slot, changes it.         *)
HeldAreBusy ==
  Usable =>
    /\ DOMAIN held =
         mem.chunks \cup UNION {BusyPtrs(mem.slabs[p]) : p \in Mapped(mem)}
    /\ \A ptr \in DOMAIN held :
         held[ptr].size <= Capacity(mem, ptr, held[ptr].size)
    /\ \A ptr \in DOMAIN held :
         held[ptr].data # Junk => ~OverBufctls(mem, ptr)

(* Behaviour becomes undefined in three ways only: the kernel or the C     *)
(* library has no memory, or something is written over the bufctls of a    *)
(* slab.  srealloc copies no more than fits, and sfree follows no NULL.    *)
NoOverflowNoNull ==
  fault \in {"none", "mmap failed", "malloc failed", "bufctls overwritten"}

(* As long as nothing is written over bufctls, the program sees a heap:    *)
(* srealloc keeps what it wrote when the block moves between pools or to   *)
(* the C library, while other slabs move, are mapped or unmapped; no two   *)
(* blocks overlap.  The promise ends with the first write to a block that  *)
(* covers bufctls, as the first buffers of every slab do.                  *)
TheHeap == INSTANCE Heap WITH
  Ptr <- Nat \ {NULL}, Sizes <- RequestSizes, Data <- Values \cup {Junk}, heap <- held

ImplementsHeap == TheHeap!Spec

=============================================================================
