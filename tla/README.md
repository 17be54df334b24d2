# A verification of the userspace slab allocator and its benchmarks

The modules in this directory model, in TLA+, the allocator under `src/src/`
(the slab, the pool of slabs, the heuristic that grows and shrinks a pool, and
smalloc, the replacement for malloc built on them) and the two programs that
run on it as benchmarks: cfrac, which factors numbers, and dash, a shell.  TLC
checks all of them on small instances.  TLAPS proves, for every value of the
constants, every invariant and every refinement that is checked of the
allocator, the storage of cfrac's numbers, and every invariant and
action property that is checked of the shell.  Paths below are relative to the
repository (`slab.c` is `src/src/slab.c` in PROJECT.json, `jobs.c` is
`src/bench/dash/src/jobs.c`).

## 1. Inventory

The allocator is a library called from one thread.  It has no locks (`slab.h`
carries a TODO for them), no callbacks and nothing that survives the process.
What is hard in it is not interleaving but *sequence*: each call leaves behind
two kinds of intrusive doubly linked lists whose order encodes what the next
call may assume, and the program decides the order of calls.  The benchmarks
have more to offer: the shell forks and is interrupted by signals and children,
cfrac's arithmetic works at the edge of its integers, and both manage memory in
ways of their own on top of smalloc.

| Part | Files | State | Operations | Correct when |
|---|---|---|---|---|
| slab | `slab.c`, `slab.h` | one page: header (`ref_count`, `max_refs`, start and end of the freelist, address of the data), bufctl array, data | `mem_slab_create`, `mem_slab_create_several`, `mem_slab_alloc`, `mem_slab_dealloc`, `mem_slab_free` | every buffer is free or live, never both; a slab with room never refuses; buffers do not overlap; the freelist holds every slot once, free ones first |
| page helpers | `utils.h` | none | `get_page_pointer`, `is_ptr_in_page` | the page of a buffer is its slab |
| slab pool | `slab_pool.c` | `list_start`, `list_end`, `next`/`prev` in the headers, statistics | `slab_pool_create`, `slab_pool_allocate`, `slab_pool_deallocate` | the list holds exactly the mapped slabs; a slab in use is never unmapped; the pool grows when it is full |
| heuristic | `heuristic.c` | none | `heuristic_decision_grow_count`, `heuristic_decision_does_free_slab` | spare slabs are kept, superfluous ones given up |
| smalloc | `smalloc.c` | six pools | `smalloc_initialize`, `smalloc`, `srealloc`, `sfree` | a pointer is freed by who allocated it; pools stay apart; `srealloc` keeps the contents |
| cfrac: arithmetic | `bench/cfrac/p*.c` | two numbers in hand | `padd`, `psub`, `pmul`, `pdivmod`, `ppowmod`, `psqrt`, `pgcd`, ... | every routine is exact and its result in normal form |
| cfrac: text | `atop.c`, `ptoa.c`, `fgetp.c`, `fputp.c` | a text | reading and writing in clumps | text and number determine each other; the buffer is large enough |
| cfrac: memory | `pops.c` | cells with 16 bit counts, a cache of lists | `pnew`, `pset`, `pparm`, `presult`, `pdestroy` | counts are the references there are; a cell is freed once, by the last |
| cfrac: factoring | `pcfrac.c`, `primes.c`, `cfrac.c` | convergents, relations, matrix | the continued fraction, `pfactorQ`, elimination | relations hold; the search ends |
| dash: stack | `memalloc.c` | a chain of blocks, objects, marks, a growing string | `stalloc`, `stunalloc`, `setstackmark`, `popstackmark`, `growstackblock`, `growstackto` | no object overlaps another; a mark survives reallocation |
| dash: jobs | `jobs.c` | job table and list, children | fork, `waitforjob`, `dowait`, `fg`, `bg`, `wait`, SIGCHLD | every child is reaped once and its status kept while somebody may ask |
| dash: redirections | `redir.c` | descriptors, saved copies | `redirect`, `pushredir`, `popredir`, `unwindredir`, `savefd` | an end undoes what a beginning did |
| dash: traps and errors | `trap.c`, `error.c` | `trap`, `sigmode`, `gotsig`, `pending_sig`, `intpending` | `setsignal`, `onsig`, `dotrap`, `onint`, `trapcmd` | no trapped signal is lost; a signal does what its trap says |
| dash: input, aliases | `input.c`, `alias.c` | stack of files and strings, aliases in use | `pgetc`, `pungetc`, `pushstring`, `popstring`, `setalias`, `unalias` | a value is not freed while it is read |
| dash: variables | `var.c` | variables with texts, locals | `setvareq`, `unsetvar`, `mklocal`, `poplocalvars` | a text has one owner; saved values come back |
| dash: options, parameters | `options.c` | `shellparam`, `optlist` | `set`, `shift`, `getopts`, `setparam`, `freeparam` | `getopts` gives every option once |
| dash: directory | `cd.c` | `curdir`, `physdir`, PWD, OLDPWD | `cd`, `pwd` | the name leads to the directory |
| dash: evaluation | `eval.c`, `main.c` | `evalskip`, `loopnest`, `exitstatus`, flags | `evaltree` and what it calls | a skip reaches its loop or function; `-e` exits when it must |
| dash: lookup | `exec.c` | hash table of commands | `find_command`, `hashcd`, `changepath`, `defun`, `unsetfunc` | what is run is what PATH, functions and builtins say |

Interactions: the program calls smalloc; smalloc picks a pool by size and
calls it, or calls malloc; `sfree` and `srealloc` find the slab by masking the
pointer and recognise it by a magic number; the pool calls the slab it chose
and asks the heuristic; slabs come from `mmap` and go by `munmap`.  The pool
and the slabs share the slab's header: the slab owns the counters and the
freelist, the pool the links.  The benchmarks reach the allocator through
`malloc`, `realloc` and `free` only, which are macros for smalloc's; the shell's
stack is the client that reallocates most.  Inside dash the parts call each
other in both directions (evaluation redirects, forks, looks up and expands; a
trap evaluates; an error unwinds all of them), but share little state: each part
is modelled with an environment that calls it in every order its callers may.

Hard behaviours:

* the orders in which buffers come back, and what they make of the two lists;
* slabs with few buffers, one buffer, or none (sizes from 404 and from 807);
* `mmap` failing in the middle of an allocation;
* unmapping a slab while lists, counters and the program may refer to it;
* contents across `srealloc` between pools and to the C library;
* digits of 16 bits in accumulators of 32, two different division routines;
* reference counts that go to zero before the result is taken;
* children that end between a check and a wait, signals between two commands;
* blocks that move while marks, objects and strings point into them;
* values freed while a reader is in them: aliases, parameters, variables;
* unwinding: redirections, locals, loops and functions left by an error.

PROJECT.json lists each at its line, with the properties that watch over it.

## 2. Modules

    SlabLayout       addresses, sizes, widths             (slab.c, utils.h)
    DoublyLinked     what a doubly linked list is
      SlabFreelist   operations on one slab               (slab.c)
        Slab         one slab and its user                implements SlotAllocator
          SlabMemory   ... a user who writes to buffers
        SlabList     the list of a pool, as functions     (slab_pool.c, slab.c)
    Heuristic        the decisions                        (heuristic.c)
          SlabPool   a pool and its user                  implements BlockAllocator
          Smalloc    several pools, malloc, their user    implements Heap
    SlotAllocator, BlockAllocator, Heap                   abstract specifications

    Precision -> PrecisionText -> Calculator   } Cfrac, one part at a time;
    PrecisionMemory                            } MCCfrac for TLC
    Pcfrac                                     }

    StackAlloc, Var, Options, Cd, Eval          -> Shell, MCShell
    Jobs, Redir, Trap, Input, Exec              -> ShellProcesses, MCShellProcesses

    DoublyLinkedProofs, SlabListProofs, SlabProofs, SlabPoolProofs,
    SmallocProofs, CfracProofs, ShellProofs, ShellProcessesProofs   theorems

### The allocator

**SlabLayout.**  Addresses are natural numbers, `NULL` is 0, a slab is named
by the address of its page.  `sizeof` values are those of an LP64 target (64
for the header, 5 for the packed bufctl).  Everything stored into a
`uint16_t` goes through `UInt16`.  `NumBuffers` divides by
`size * sizeof(bufctl)` and `AllocableBuffer` adds bytes, as the code does.

**SlabFreelist.**  A slab is a record of its header's fields and of the bufctl
array, one function of the index per field.  `PreparedSlab`, `SlabAlloc` and
`SlabDealloc` are `prepare_slab_header`, `mem_slab_alloc` and
`mem_slab_dealloc` as functions from the page before the call to the page
after it, including the early returns (`HasFreeSlot`, `StaysInPlace`).  C
would follow an index out of the array; a TLA+ function is undefined there.
So each operation also has the set of indices it touches, and an action whose
set leaves the array sets `wild`: behaviour is undefined from there on and the
model stops.  `FreelistOK` says what the operations maintain: there is an
order of all slots that start, end, `next_index` and `prev_index` agree with,
in which the free slots come first, as many as references are missing.
`alignment` and `slab_magic` are left out: the first is never read, the second
written once and read only by assertions and by smalloc.

**Slab.**  One action per function of `slab.h`.  The program is any program
that frees what it holds (`live`) and unmaps a slab when it holds nothing.
`mem_slab_alloc_full` is the early return of `NULL`.  A failing `mmap` in
`mem_slab_create` changes nothing and is a stuttering step.  The program may
write to its buffers, but not where the bufctls lie; this is the one thing
`Slab` takes for granted that the code does not provide, and `SlabMemory` is
`Slab` without it: `fill` writes a byte value over a buffer and carries what
hits the bufctls over into their fields, byte by byte.

**SlabList.**  The four list manipulations as functions from the links before
a call to the links after it: `SeveralLinked` (in `mem_slab_create_several`),
`MoveToEnd`, `MoveToStart` and `Unlinked`, assignment by assignment with every
case of the code, the one for a slab without a predecessor included although
the callers never need its alternative.  `get_last_from_list` follows `next`,
as a recursive function of the page.

**Heuristic.**  The two decisions.  They read `grow_count - shrink_count` only,
so the models keep that number, `balance`; the two other statistics are never
read.

**SlabPool.**  `slabs` maps each mapped page to its slab; `list` holds
`list_start`, `list_end` and the `next` and `prev` of the headers.  Each
function of `slab_pool.h` is split into actions by the path it takes: allocate
from the first slab, from the second, after growing, or with `mmap` failing;
deallocate keeping the slab or unmapping it.  Every action is the whole call:
moving, allocating, counting.  A region of several slabs is mapped anywhere it
fits (`Mappable`).

**Smalloc.**  `mem` is all that `smalloc.c` reaches: the slabs by page, the
links in their headers (one pair of functions for all pools, as memory is), the
pools, and the C library's blocks.  Each call is a function from `mem` to the
set of its outcomes, `mmap` and `malloc` failing among them, so that `srealloc`
is written as the calls it makes: look at the page for the magic number,
allocate, copy, free.  The program holds blocks (`held`), each with the size
asked for and what was written last; a copy that reads or writes beyond a
buffer, or follows `NULL`, sets `fault`, and the model stops.  So does whatever
is written over bufctls, by the program (`write`) or by `srealloc`'s copy: the
data begin inside the bufctl array (`slab.c:106`), so the first buffers of
every slab cover bufctls (`OverBufctls`), half of all with 8 bytes, one of three
with 256.  A write there may change what is free and where the freelist
leads, and the next call may write into the data; what that does to one slab is
`SlabMemory`'s subject, and `Smalloc` ends there.  `smalloc_initialize` may run
again when the program holds nothing, which loses the slabs of the pools there
were; blocks of old slabs freed after it are not covered.  The C library is external: its blocks overlap neither each
other nor a page of the allocator, and the page of one never begins with the
magic number (`SmallocAssumption`).

**SlotAllocator, BlockAllocator, Heap** are what the slab, the pool and
smalloc promise.  The first knows a fixed set of buffers, free or live, and
fails only when none is free.  The second knows live blocks of one size that do
not overlap, wherever they come from, and never fails; a pool implements it up
to the `mmap` that fails.  The third is malloc, realloc and free: blocks of any
size that do not overlap and keep what was written, also when realloc moves them.
Smalloc implements it up to the first fault; a write over bufctls is one,
so this is no promise that the real smalloc keeps whatever is written.

### cfrac

**Precision** has the routines of the multiple precision library, digit by
digit with accumulators of `Wide` = `Base`^2 values: what does not fit is lost,
as in C.  `Base` is 4 for TLC and 2^16 in the program; everything but the size
of the digits is as the code has it, both division routines included.
**PrecisionText** has the conversions (`atop`, `ptoa`, `fgetp`), clump by
clump.  **Calculator** applies any routine to any two numbers, negative zero
among them, for `psub` makes it.

**PrecisionMemory** is `pops.c` and the conventions of its macros: functions
that count their parameters on entry (`pparm`), hand a result on with its count
one lower (`presult`), and the cache of freed cells.  The program is any
sequence of calls, assignments and nested arguments the macros allow.

**Pcfrac** is the search: a step for each convergent, for the trial division
with early aborts, for the relation it yields, and for each column of the
elimination, on integers.  What floating point decides (the multiplier, the
bounds of the early aborts) are constants, any of which may only make the
search longer.

**Cfrac** puts the three together: they share no state, so each behaviour is
about one of them, fixed by the variable `part`, and the others rest.  `Shell`
and `ShellProcesses` do the same.  It is sound because nothing a part does
reads or writes what another has; it makes one run of three models.

### dash

Each part has as its environment what its callers may do, in any order; where
the callers promise something (a redirection is popped by the frame that pushed
it), the environment keeps the promise because the caller's code does.

**StackAlloc** (`memalloc.c`).  A chain of blocks; an address is a block's name
and an offset, and a freed name may be used again for the next block, as a
freed address is.  Objects are cut off with `stalloc`, given back with
`stunalloc`, a string grows byte by byte in what is left, and the block under it
is reallocated or replaced.  Marks remember a position and `popstackmark` frees
everything above.  Ghost variables `objects` and `intact` say what the program
believes it has.

**Input** (`input.c`, `alias.c`).  Files and, on each, pushed texts; reading,
ungetting, the end of a text; aliases defined, expanded, changed and removed
while in use.  **Var** (`var.c`): a variable's struct and its text, who owns
the text, locals, saved copies, unwinding by an error.  **Options**
(`options.c`): parameters with the addresses of their words, `getopts` and
OPTIND, functions that have parameters of their own, `set` failing half way.
**Cd** (`cd.c`): paths as sequences of names over a small tree with links, CDPATH,
a directory that is removed.  **Eval** (`eval.c`, `main.c`): `evaltree` as a
stack of calls; which program is evaluated is chosen as it comes to it, so that
all programs up to a depth are covered.  **Exec** (`exec.c`): the table's entry
for one name under changes of PATH, directory, functions and `hash`.

**Jobs** (`jobs.c`).  The table, which moves when it grows, the list of jobs,
and the kernel's view of the children, who end, stop and go on at any moment.
Waiting is modelled step by step, with SIGCHLD arriving between the check and
the wait; what happens between two waits is one step.  **Redir** (`redir.c`):
the kernel's table of descriptors, the redirtabs, errors in the middle of a
list of redirections, subshells.  A subshell forgets the redirtabs, and the
copies they made stay open in it (`inherited`) until it calls exec.  **Trap** (`trap.c`, `error.c`): what the
kernel does with each signal, what was noted and not yet handled, traps that run
in traps, errors and interrupts in them.

## 3. Runs

| Run | Checks | Shows |
|---|---|---|
| `slab` | the invariants of `Slab` and `ImplementsSlotAllocator` | every sequence of calls on slabs of 5, 4, 3, 2, 1 and 0 buffers |
| `slab_overlap` | `DataBehindBufctls` | *violated*: the data begin inside the bufctls |
| `slab_memory` | `DeallocFindsBusy` | *violated*: filling a buffer frees its slot |
| `slab_single` | `StartExists` | *violated*: one buffer, and the list loses its start |
| `pool` | the invariants of `SlabPool` and `ImplementsBlockAllocator` | every sequence of calls on a pool of up to four slabs of two buffers |
| `pool_growth` | `GrowsOnlyWhenFull` | *violated*: grows with an empty slab third in the list |
| `pool_no_memory` | `FirstSlabExists` | *violated*: a failing `mmap` costs the pool its list |
| `pool_shrink` | `ShrinkKeepsMinimumEmpty` | *violated*: the heuristic counts all slabs as empty |
| `smalloc` | the invariants of `Smalloc` and `ImplementsHeap` | every sequence of calls on two pools and the C library, initialised twice, up to the first write over bufctls |
| `cfrac` | `ArithmeticExact`, `TextExact`, `MemorySound`, `RelationsSound`, `PcfracEnds` | the library on all small numbers, its storage, and whole factorisations |
| `shell_processes` | `JobsSound`, `DescriptorsSound`, `TrapsSound`, `AliasesSound`, `WaitEnds`, `RedirectionsUndone`, `UngotComesBack`, `CommandsSound` | the shell's jobs, descriptors, signals, input and commands |
| `shell` | one invariant for each of the five parts, `LocalsRestored`, `SkipsArrive`, `LogicalIsPhysical` | what the shell keeps for itself |

The violated ones are each a sentence, assertion or drawing of the repository
that the code contradicts; PROJECT.json quotes it under `findings`.

Where a part has several invariants that need one another to be worth much,
they are named and the run checks their conjunction:

| Invariant | Conjuncts |
|---|---|
| `ArithmeticExact` | the routines are exact, `DivisionExact`, `SingleDigitAgrees`, `ComparisonRight`, `LoopsExact` |
| `MemorySound` | `CountsExact`, `NothingDangles`, `CacheSound` |
| `RelationsSound` | `ConvergentsSquare`, `RelationsHold`, `Echelon`, `NeverDegenerate` |
| `JobsSound` | `JobListExact`, `JobStateAgrees`, `NoChildForgotten`, `WaitedForJob` |
| `DescriptorsSound` | `NoDescriptorLeaks`, `MarkedAreClosed` |
| `TrapsSound` | `TrapsCounted`, `ModesRight`, `TrapsInForce`, `CommandsInherit`, `SignalsRemembered` |
| `StackSound` | `SpaceAgrees`, `ObjectsStay`, `MarksReached`, `StringWhole` |
| `AliasesSound` | `InUseExact`, `ValuesKept` |
| `VariablesSound` | `TextsOwned`, `CallbacksTold` |
| `ControlSound` | `FunctionContext`, `NothingRunsSkipping`, `TestedExact`, `ExitOnlyLast` |
| `SkipsArrive` | `SkipsRightLoop`, `ReturnStatus` |
| `CommandsSound` | `LookupRight`, `DescribedRight`, `FunctionsCounted` |
| `ParametersSound` | `GetoptsRight`, `GetoptsInList`, `ParamsOwned`, `JobControlFollows` |
| `DirectorySound` | `PwdNamesDirectory`, `NamesOwned` |

**Bounds of `slab`.**  The page is the real one of 4096 bytes, so the sizes
are real too; 160, 201, 256, 300, 500 and 900 give 5, 4, 3, 2, 1 and no
buffer.  Each action touches at most four bufctls (the slot, its neighbours,
the first and the last); five slots leave room for all of them to be
different, fewer make each coincidence of two of them happen.  Beyond these
sizes stand the proofs.

**Bounds of `pool`.**  Two buffers per slab make empty, partly used and full
slabs different.  Four pages allow two regions of two, lists of one to four
slabs, growth after slabs have been unmapped, and addresses used again.  With
`MinimumEmptySlabs = 3` a pool of three slabs shrinks and one of four does
not.  The real constants are 10, 10 and 5.  Growth is bounded by `Pages` alone;
a pool that needs more than there is can only see `mmap` fail, which is
possible anyway.

**Bounds of `smalloc`.**  Two pools (sizes 300 and 400) show all that six do to
each other: a request may fit the first, just miss it, or fit none (300, 301,
500); reallocation goes up, down and to the C library and back.  Four pages let
both pools grow; three blocks held fill a slab and begin another; two
initialisations are the least that lose slabs.  The C library has two addresses
to choose from, so that its `realloc` may move a block.  The first buffer of a
slab covers bufctls, the second does not.

**Bounds of `cfrac`.**  With digits to the base 4, three of them reach every
carry, borrow and quotient correction that any number of them does, for each
looks at two digits and a carry at a time; the text base 2 with clumps of two
digits has full and partial clumps.  Three cells of two sizes let a cell be
operand, result and reused at once.  The composites have two prime factors of
the same size, different sizes, and equal ones; with the multipliers and factor
bases every way `pcfrac` ends occurs.  `MaxCount` bounds the convergents as the
program's own limit does.

**Bounds of `shell_processes`.**  Two processes make one job with a pipeline or
two jobs; the table grows by one, so it moves.  Two descriptors below 10
(`Low` is 2) and two nested frames let one frame save what another has saved.
A subshell forks inside one frame at most and nests one of its own: its parent's
copies and its own are then open together.  `MaxFd` is 10, so no copy lacks a
descriptor.  Two signals, of which one may stop the shell
(INT and TSTP differ in what `setsignal` does); traps nest twice.  Two files,
two texts and one alias of two values: a value is read while the alias has
another, or none, in the same file or in the one below.  One command name:
different names never meet in the code but in hash chains, which are sets here.
Two directories, and PATH with absolute and relative ones, `%builtin` or none.

**Bounds of `shell`.**  Blocks of two names, so that a freed one comes back;
sizes that fit, just miss and exceed the rest of a block; two marks at the same
place or apart.  One variable, for the same reason as one command.  Two texts of variables
are allocated at most (`VarTexts`).  Two nested
functions, two saved values, loops nested twice, levels 1 and 2 for `break`.
The lists for `set` have options that are refused, that begin a cluster, that
want an argument and find it in the same word, in the next, in an empty one or
nowhere, and the letter `:`; four parameters are allocated at most.
Rare kinds of commands (`MCShell`'s `Rare`) occur outermost only, for they pass
on what the others pass on.

`CHECK_DEADLOCK FALSE` everywhere: the allocator's model stops where C's
behaviour is undefined, and the programs end.

**Fairness.**  None for the allocator and for what the shell keeps for itself:
every function runs to its end in the caller's thread, and nothing obliges the
program to call.  `PcfracStep` is weakly fair, because the program runs on
until it ends; `PcfracEnds` then says that it does.  In `ShellProcesses` the
steps of a shell that waits are weakly fair, because they are a loop in one
process, and so is the end of each child, which `wait` itself presumes;
`WaitEnds` says that no wait goes on for ever.  Children that stop are not
obliged to continue: a waiting shell comes back from stopped jobs, too.

**Mutants.**  Next to some operators stands a mutated form, named in a comment
(`ReleasedKeepsSlot` next to `Released`, for instance).  Nothing uses them;
PROJECT.json pairs each property with the mutant that breaks it.

## 4. Proofs

Every invariant and the refinement of the runs `slab`, `pool` and `smalloc` is
a theorem; so are `MemorySound` of run `cfrac`, every safety property of run
`shell_processes`, and every property of run `shell`:

| Module | Theorems | What they say |
|---|---|---|
| `SlabProofs` | `Invariance`, `TypeCorrect`, `FreelistStaysIntact`, `LiveAreTheBusyOnes`, `NullOnlyWhenFull`, `BuffersStayApart`, `WildOnlyOnTinySlabs`, `Refinement` | one slab, for every page address, every set of positive sizes and every page size up to 4096 |
| `SlabPoolProofs` | `PoolInvariance`, `PoolTypeCorrect`, `PoolListIntact`, `PoolLiveBusy`, `PoolBalance`, `PoolNeverNull`, `PoolFollowsNoNull`, `PoolImplementsBlockAllocator` | a pool, for every set of pages, buffer size, start size and setting of the heuristic |
| `SmallocProofs` | `SmallocInvariance`, `SmallocTypeCorrect`, `PoolsStayApart`, `HeldStayBusy`, `FaultsAreFailures`, `SmallocImplementsHeap` | smalloc, for every set of cache sizes, requests, pages and blocks of the C library, any number of blocks held and of initialisations |
| `CfracProofs` | `MemoryInvariance`, `MemoryStaysSound` | the storage of cfrac's numbers, for every number of cells, sizes, limits of the cache, depth of calls and number of arguments |
| `ShellProofs` | `StackInvariance`, `StackStaysSound` | the shell's stack, for every alignment, size of blocks, number and length of objects, strings and marks |
| | `EvalInvariance`, `ControlStaysSound`, `SkipsDoArrive` | evaluation, for every nesting of commands and every level of `break` and `continue` |
| | `VarInvariance`, `VariablesStaySound`, `LocalsComeBack` | variables, for any names, texts, functions and saved values |
| | `OptionsInvariance`, `ParametersStaySound` | parameters and `getopts`, for any words, option letters, lists and nesting of functions |
| | `CdInvariance`, `DirectoryStaysSound`, `ByNameAsByKernel` | the directory, for every tree, links, CDPATH and path |
| `ShellProcessesProofs` | `JobsInvariance`, `JobsStaySound` | jobs, for any number of children, of processes in a job, and any growth of the table |
| | `RedirInvariance`, `DescriptorsStaySound`, `RedirectionsComeUndone` | redirections, for any number of descriptors, files and nested tables |
| | `TrapInvariance`, `TrapsStaySound` | traps, for any signals and any depth of traps |
| | `InputInvariance`, `AliasesStaySound`, `UngotIsReadAgain` | input, for any aliases, values, files and texts |
| | `ExecInvariance`, `CommandsStaySound` | lookup, for every set of directories, values of PATH, functions and depth of calls |

The lemmas they share: `DoublyLinkedProofs` (relinking as C does makes `next`
and `prev` agree with the new order, for lists over any set of nodes; numbers
and finite sets of them: `DivMod`, `TimesMonotone`, `LeastElement`, `Largest`,
`SmallerPlaces`, `UptoPlace`, `AllNaturals`) and `SlabListProofs` (addresses,
one operation on one slab, one operation on a pool's list).

The theorems about `Slab`, `SlabPool` and `Smalloc` are about the module's own
specification, those about cfrac and the shell about `Spec` of `Cfrac`, `ShellSpec`
and `ProcessesSpec`.  None of the properties is inductive alone; each proof is
one invariant, one lemma for each action, and the properties as consequences.

### One slab

None of the invariants is inductive alone.  `NullMeansFull` needs to know that a busy first slot means no free slot, which is the order in
`FreelistOK`; `LiveAreBusy` needs the freelist to be in order, for otherwise an
allocation would take a busy slot; `BuffersDisjointInPage` needs the live
addresses to be those of slots, and the header's fields to be the ones the
size determines.  `IInv` puts together

* `TypeOK`;
* `Placed`: a mapped slab's header agrees with its size and its page, and live
  buffers are addresses of its slots;
* `NothingUnmapped`: without a slab nothing is live;
* `Consistent`: a usable slab is `WellFormed`, `live` are its busy buffers and
  `ref_count` their number;
* `NullWithoutFreeSlot`: after `NULL` the first slot is busy;
* `WildOnlyBelowTwoBuffers`.

`Invariance` shows it inductive, one lemma per action.  The work is in the
operators, one module below: `SlabListProofs` shows with `AllocOK` and
`DeallocOK` that each operation takes a well formed slab to a well formed
slab, changes exactly one slot, and touches only bufctls that exist.  For that
it names the new order: `FirstToEnd` after an allocation, `ToFront` after a
deallocation that moves its slot, the old one otherwise.
`DoublyLinkedProofs` shows that relinking the neighbours as C does makes
`next` and `prev` agree with these orders, for lists over any set of nodes and
any nil, so that it serves the pool's list as well.  `NumBuffersFit`,
`BufferInPage` and `BuffersApart` are the arithmetic: a buffer's index is
recovered from its address, buffers do not overlap, all of them lie in the page.  The last one is not obvious: the data
begin too early (see `slab_overlap`), and `num_buffers` is smaller than the
page would allow because the code multiplies size and bufctl size where its
comment means to add; the lemma shows that with this number the end of the
data stays in the page.

### A pool

`PoolInv` is `PoolTypeOK` with: a pool that was not created has nothing
(`NothingCreated`); the slabs are one list as long as `balance`, each slab is
`WellFormed` and of the pool's size, and the program holds exactly the busy
buffers (`PoolSound`); what makes a pool wild (`WildOnlyForAReason`).  The
properties need each other: that a slab may be unmapped follows from its
`ref_count` counting the program's buffers, that unlinking it leaves a list
follows from its neighbours being the ones its header names, and that
`slab_pool_allocate` never returns `NULL` from both: after the first two slabs
fail, the region that was mapped begins with an empty slab.

`SlabListProofs` does the list: `IsList` says that there is an order of the
slabs that the links and both ends agree with.  `SeveralLinked`, `MoveToEnd`,
`MoveToStart` and `Unlinked` each take an order to an order, which is named in
each case.  With an arbitrary number of new slabs `SeveralLinked` is a loop,
and its `next` and `prev` are functions of the page's place.

`PoolFollowsNoNull` holds of buffers two of which fit into a page.  The sizes
smalloc uses (8 to 256) have that; the others are what `slab_single` is about.

### Smalloc

`SmallocInv` says that between two calls the links of all slabs together end
(`Acyclic`), that each pool has a list of slabs of its own, of its size, that
the slabs of no pool (those lost to a second initialisation) are empty and lead
only to one another, and that the program holds exactly the busy buffers and the
C library's blocks in use, none with a request larger than its buffer
(`HeldOK`).  The properties state the pools' chains by following `next`, the
invariant by an order, because an order is what an operation maps to an order.

* A call on one pool leaves the other pools' lists alone although the links are
  one function of the page: what is written is reached from the pool's own ends,
  and lists are disjoint.  This is the main lemma of each operation.
* `srealloc` is the composition of an allocation, a copy and a release, possibly
  in two pools.  The state between the calls is not `SmallocInv`'s (two blocks
  stand for one of the program's), so the lemmas are about `mem` and a set of
  busy blocks, not about `held`.
* `get_last_from_list` and the chains in `PoolsApart` are recursive functions
  of the page.  That they have values at all is shown from `Acyclic`, by the
  least counterexample (`LeastElement`), so it needs no induction theorem.
* No bufctl lies under what was written: `CopyFault` and `write` decide by
  `OverBufctls`, and whether a block covers bufctls depends on its address and the
  slab's `max_refs` alone, which no later call changes (`SameLayout`).
* `SmallocImplementsHeap` maps `held` to the heap's blocks, and promises what
  it does up to the first write over bufctls.  A step of it asks
  that a new block overlaps no old one, which for two buffers is
  `BuffersStayApart` in one page, distinct pages else, and for the C library the
  assumption about malloc.

Two things came out of these proofs.  `SmallocAssumption` said too little: that
the C library's blocks overlap neither one another nor the allocator's pages
had only been true of the constants in `Smalloc.cfg`.  And two arms of a `CASE`
in the model of the copy overlapped, so that its value was not determined.

### The shell's stack

`StackSound` says that space and pointers agree, no object is overlapped or in
a freed block, every mark's block is in the chain, and a string is whole.  To
show that a step keeps this one has to know why `popstackmark` ends: because
blocks are freed from the top only, and a mark's block is never the one that
moves.  `StackInv` therefore adds

* alignment: `nxt`, what is left and the sizes of all blocks are multiples of
  the alignment.  `growstackblock` adds up `stacknleft` and what it takes back
  with `stunalloc`, which `stalloc` has rounded; only with multiples is it
  exact;
* blocks have different addresses and the static one is the first;
* objects and marks lie in the order they were made: what is older than a mark
  is before it, in its block or in an earlier one, what is younger is behind;
* the block of a mark, unless it is the static one, is not empty: an empty last
  block is what `growstackblock` reallocates, and would leave the mark behind.

The last is a fact about the callers: `setstackmark` takes one character where
the block is empty, the others call `pushstackmark` with what is in use.  One
caller may break it, `expbackq` in `expand.c:496` with a mark of length 0 at the
start of a block; the guard of `pushstackmark_string` leaves this case
out, and section 5 lists it.

The theorems are about `ShellSpec`, so the steps of the other four parts appear
as steps that leave the stack alone.  It is the same with all theorems about
parts of the shell.

### Folds

The code walks lists: restoring what a function made local, resetting each
signal, following a path name by name.  The models say this with `FoldLeft`,
whose definition is recursive, and induction over a sequence needs an operator
as parameter.  The way around it is in both modules about the shell: a function
on the sets of places (`FoldedAt`, `Turned`), whose value at a set is given by
the set without its largest place; that there is such a function, and that the
fold is its value at all places, is proved once from `AllNaturals` for the steps
that occur (`FoldValues`, `TurnedExists`).  What a fold keeps is then shown for
one step.

### Jobs

`JobsSound` compares a job's state with its processes, the list with the table,
and the children with both.  `JobsInv` is

* the list has exactly the slots in use, each once, and no two places of the
  table, in one job or in two, have the same pid: otherwise `waitone` would note
  the end of a child at one place and leave the other running;
* a process of a job is a child until its end is noted, and a child is an
  orphan of a fork that failed or in a job that is not done: `freejob` and the
  search in `getjob` are safe because of the first, and nobody is forgotten
  because of the second;
* the state of a job is the one its processes have, as `getstatus` counts them;
* what `dowait` waits for is in use, and when it returns for a job that it was
  asked for, this job runs no longer (`WaitRight`).  It needs all of `jobpc`:
  between the look at the children and the wait signals are blocked, and a
  SIGCHLD that came before is in `gotsigchld`.

### Redirections

`RedirInv` says of the tables from the outermost to the innermost what `TablesHold`
says: each copy above `Low` that is open was made by exactly one table for
one descriptor, or a subshell has inherited it from the tables it forgot, and
no table has the number of such a copy (`CopiesNew`); what is open there is
what the descriptor was before that table; what a table marks as closed was
closed.  `RedirectionsUndone` then is a
step: `popredir` finds the copy, and nothing between has closed it or
reused its number.  That `redirect` never lacks a descriptor for a copy comes
from `RedirAssumption`, which makes room for the copies of a subshell's tables
on top of those it has inherited (`Few`, `BothTaken`).  A shell
out of descriptors is not modelled: `savefd` closes the old descriptor before
it raises the error (`redir.c:452`).  Descriptors that a subshell opens although they count as
closed are `overlooked`, and left out in the code's behaviour and in the
property (section 5).

### Traps

A signal has five descriptions: its trap, `sigmode`, the kernel's disposition,
what was found on entry, and after `execute` the new program's.  `TrapInv`
relates them for every signal (`SignalOK`): `sigmode` is unknown or agrees with
the kernel's; what was ignored on entry of a shell that is not interactive
stays ignored (`Hard`); otherwise the disposition is the one the trap and the
interactive shell's own needs ask for.  `Remembered` says that a caught signal
whose trap has not run is either `pending_sig`'s business, or one of the calls
of `dotrap` has not yet come to it: this is where `dotrap` looks at signals
in order, one call inside another.  Before this proof `CommandsInherit` was
stated as if SIGTSTP were treated like the other signals; `setsignal`
(`trap.c:238`) leaves what stops a job as it was found, and so does the property
now.

### Input

`AliasesSound` says which aliases are in use, not by whom.  `InputInv` adds

* `UsesApart`, `FilesHold`: no alias is used at two levels of a file, by a text
  being read or by one that is done and not yet freed, nor by two files: so
  `freestrings` may clear `ALIASINUSE` without asking who else reads it;
* `AliasesHold`: what is read is allocated, is the value of no other alias and
  is read for one alias only; two aliases have different values.  A value that
  is read and no longer its alias's is the reader's to free, and this is all
  that keeps `popstring` and `setalias` from freeing it twice;
* `FileRight`: `lastc` has what was given back and what the parser read last, in
  the innermost text and in each that was interrupted.  A text is pushed where
  one character is given back, or none and another follows, so that at the end
  of the text there is always a character below.

`UngotIsReadAgain` is about one step, `pgetc` with something to read again, and
follows from `FileRight`.  Its hard case is a text that ends: the character is
one of the text below, and is entered in `lastc` twice.

### Variables

`TextsOwned` says that what is used is allocated.  To free a text safely one has
to know that no one else has it: `VarInv` says that each allocated text
is owned by exactly one of the variables and of all that was saved of them
(`OwnersApart`); that a text two of them have is fixed in the newer, which
`setvareq` therefore does not free (`SavesRight`); and that whoever watches a
variable was told its present text (`Told`).  Saved values are
considered in one sequence over all functions, for an error unwinds several at
once; `LocalsComeBack` follows because putting them back in the reverse order
gives the values before the oldest, whatever came between and however often
one variable was made local.

### Evaluation

`EvalInv` describes the stack of calls by place.  `FlagsRight` says which flags
a call may have where it stands: tested (`EV_TESTED`) if and only if some call
around it tests its status and neither a `.` nor a background command lies
between; `EV_EXIT` only where
nothing around it has anything left to do.  `ContextRight` says that
`loopnest` counts the loops since the last function that has its own, and
that `shellparam` is the innermost function's.  `SkipRight` says where a skip
is: the loop it is about is a call that exists, and `skipcount` is the number of
loops between.  `SkipsDoArrive` is the step that ends a skip.  An error that is
caught and swallowed (`swallowed`) suspends what is said about loops: there the
code is wrong (section 5).

### Lookup

`CommandsSound` says that a command is found as a search would find it.
`ExecInv` says how a table entry may stay although PATH and the directory
change: no absolute directory before the k-th has the command, the k-th has it
if it is absolute (`PrefixRight`), and either the entry is marked `rehash` or a
search of PATH would find it there now (`EntryRight`).  `hashcd` marks, because
what a relative directory has changes with the directory; `changepath` clears
what depends on PATH.  `builtinloc` is the place of `%builtin` in the present
PATH, or -1.  `CountsRight`: the count of a function is one for its
definition and one for each call that runs it, less one, so that it is freed by
the last of them, also when it redefines itself.

### Parameters and getopts

`GetoptsRight` compares the calls of `getopts`, each of which knows only
`optind` and `optoff`, with a reading of the whole list, word by word (`Read`).
The reading is that of the guidelines for utilities but for one letter: in
silent mode `getopts` finds `:` in its option string, where the search begins
(`options.c:465`), and both take it for an option without argument (`Listed`;
section 5).
A reading is a fold, and the proof takes all its steps at once: g is the
sequence of what was read after each word (`ReadsBy`), and what it says of one
word is a lemma about that word (`OptionRead`).  `OptionsInv` is

* `OnCourse`: while getopts is called alike, there is such a g, and `optind`
  and `optoff` are a place of it (`AtPlace`): either letters of an option are
  left, and the options given are those of the words before and the letters
  before (`InWord`), or all of the words before are read, and the options given
  are those of g there, one more if the last was missing its argument
  (`Between`).  `getoptsGives` says that a call comes from
  one such place to the next, and gives an option or ends;
* the same of each place that is saved, for the callers of a function go on
  with `getopts` where they were;
* `Own`: of all lists, the present one and the saved ones, each parameter that
  is allocated is in one place.  `setparam` takes new addresses before it frees
  the old ones, `shift` frees those it drops;
* job control follows the option `m` unless the last `set` was refused, and what
  was said last is what the reading says.

### The directory

`DirectorySound` relates names to a tree with links.  `CdInv` says that each name
the shell knows, `curdir` and OLDPWD, leads where the shell is or was when the
kernel follows it (`Leads`), or passes through the removed leaf and leads
nowhere; that `physdir` is the directory itself; and that the strings of the two
are the allocated ones (`PlacesOwned`).  `LogicalIsPhysical` compares two folds,
the kernel's over a path and `updatepwd`'s, which drops a name at each `..`.
Links make them differ, which is why the property is about paths without
`..`; that they agree without is what the theorem shows for every tree.


### The storage of cfrac's numbers

`MemorySound` says that a count is the number of holders, that nobody holds a
freed cell, and that the cache has dead cells of the right size.  The first does
not survive a step by itself: `presult` counts a result down without freeing
it, so a cell with count 0 may be alive, and the next `pparm` or `pset` takes
it.  What has to be known is who may have such a cell.  `MemoryInv` is

* `StoreOK`: the count of every living cell is the number of variables and
  parameters that have it (`HoldersIn`); a living cell with count 0 waits among
  the arguments of some call; what is held or waits is alive; the lists of the
  cache have no cell twice, only cells of their size, and never more than the
  limit;
* `PendingOK`: an argument that waits is held by the function that evaluated it
  or by one further down, for as long as it waits, or it is held by nobody and
  occurs once.  This is what makes nested calls right, `f(g(x), y)`: whatever
  the inner call counts down, it cannot free what waits outside; and two callers
  never both take a result that has count 0;
* `FramesOK`: the types and bounds of the frames.

`DestroyOK` and its like are one operation on the store with the count of one
holder more or less.  `DestroyAllOK` and `ParmOK` are the loops that count all
parameters down or up: folds over a sequence, whose values cell by cell come from
`PlaceByPlace`, which needs no induction theorem (`AllNaturals`).  A holder is a
place, a frame with an index, and the lemmas about `OccursExcept` and
`HoldersAppend` say how the number of places changes with an assignment, a call
and a return.  One lemma for each action puts them together; in a return the
result keeps its holder until the parameters and the other variables are counted
down, so that it may be one of the parameters as well.

`PrecisionMemoryAssumption` says that a 16 bit count is larger than the number
of places: `RefLimit` is compared with the depth of calls times the variables and
parameters of each.  The program has a holder the model leaves out, the lists of
solutions, and section 5 has the hazard.

### Assumptions

What the constants are assumed to be.  TLC evaluates each on every run.

* `PageSizeAssumption`: the page holds a header and is at most the 4 KiB
  `get_page_pointer` masks, as its note says.  `PageAssumption`,
  `PoolAssumption`: `mmap` returns aligned pages other than 0, of 4 KiB.
* `SizesAssumption`: the assertion `size > 0`.  `HeuristicAssumption`: a pool
  starts with and grows by at least one slab.
* `SmallocAssumption`: the C library as described in section 2; finitely many
  pools, each with two buffers or more in a page.
* `PrecisionMemoryAssumption`: finitely many cells, and a count larger than the
  number of places.
* `StackAssumption`: alignment and sizes positive, the least size of a block a
  multiple of the alignment.
* `OptionsAssumption`: words, empty ones among them, are sequences of
  characters, to which `?` and `:` belong; no character is the mark for none, and
  `:` is no option's letter but where it begins the option string;
  finitely many addresses, other than NULL.
* `ExecAssumption`: PATH consists of absolute and relative directories and
  `%builtin`, which the default path has not.  `EvalAssumption`: `break` counts
  from 1.  `VarAssumption`: `-` is no variable's name.
* `CdAssumption`: what a file system is: each directory but the root is the
  entry of its name in its parent, the leaf that may be removed has nothing in it.
* `JobsAssumption`: pids are 1..n, finitely many; the table grows by at least
  one.  `TrapAssumption`: the signals are four that differ in what `setsignal`
  does with them.
* `RedirAssumption`: there are as many descriptors above `Low` as the tables of a
  shell and those of its subshell may copy together, which is a bound on their
  nesting (`MaxFrames`).
* `InputAssumption`: addresses of values are positive, and no alias is named
  like the mark for texts that are none.

### Only model-checked

* **Liveness**: `PcfracEnds`, `WaitEnds`.  Liveness under fairness is out of
  TLAPS's reach.
* **cfrac but for its storage**: `ArithmeticExact`, `TextExact`.  That
  `Precision`'s routines are exact for every number is an induction over its
  digits, with nonlinear arithmetic in each step; `RelationsSound` is about
  products over all primes of the factor base.  The library's induction theorems
  take an operator as parameter, which none of the provers here instantiates.

## 5. Not modelled

Parts without a module, with the reason:

* `internal_assert.h`: with assertions compiled out a failing one does
  nothing, so assertions are properties here and never guards.
* `get_freelist_size`, `get_list_size`: they change nothing, and the build
  never calls them (the Makefile misspells the macro).
* tests, benchmark drivers, scripts, plots: no logic of their own.
* cfrac's files that its makefile does not build (`ptob.c`, `ltop.c`,
  `pfactor.c`, `asm16bit.h`, `seive.h`), its floating point (`pfloat.c`), and
  `errorp.c`, which prints and aborts.
* dash's parser and expansion (`parser.c`, `expand.c`, `mystring.c`, `arith*`):
  functions of text, large and with little state beyond the stack and the input,
  which are modelled; `output.c`, `system.c`: input and output; generators
  (`mk*.c`) and the built-in commands `test`, `printf`, `times`.

Excluded inside the parts that are modelled:

* slab, pool, smalloc: pages larger than 4 KiB and threads (the code excludes
  both); in smalloc what follows a write over bufctls (for one slab see
  `slab_memory`); `smalloc_initialize` while the program holds blocks; `srealloc` and
  `sfree` of `NULL`; an accidental magic number in a page of the C library's.
* cfrac: counts that wrap at 16 bits (`pone` is counted up by each solution and
  never down); `psqrt` of negative numbers and division by zero, which
  `errorp` reports; 0 modulo 1; a negative zero given to `pcmp`, for no caller
  compares one; a factor base of one prime, where `pfactorQ` reads past its end.
* stack: the mark of length 0 in an empty block that moves (see above).
* jobs: a pid that the kernel uses again while the table still has it.
* redirections: no free descriptors; a subshell in a subshell; a subshell of a
  redirection that opens a descriptor that counts as closed (`overlooked`):
  `redirect` without flags does not clear `closed_redirs`.
* traps: the action of the EXIT trap, and traps run inside `evaltree`.
* input: text of a here-document pushed back at the end of an alias; an alias
  that ends in a backslash.
* options: the names of `set -o`; an uninitialised byte read by `unset`.
* directory: `//` at the start, PWD from the environment with dots, links that
  loop.
* evaluation: one error that is caught and swallowed.  Lookup: `%func` in PATH;
  files that come and go.

What the code does that its authors may not want, seen while modelling and not
covered by a run of its own (the models follow the code):

* cfrac: `psub(-3, -3)` and the single digit branch of `pdivmod` return
  negative zeros, against `pdefs.h:91`; `ppowmod(u, 0, 1)` is 1; `pidiv` and
  `pimod` truncate their argument to 16 bits; `findk` frees with `free` what it
  got from `allocate`.
* dash, jobs: `stoppedjobs` warns of one stopped job and misses the others; a
  `fork` that fails in a pipeline orphans the processes before it.
* dash, redirections: `exec 3>&-; ( { echo hi >&3; } 3>g; echo x >&3 ) 3>f`
  fails, from the bit that stays in `closed_redirs`.
* dash, traps: an exception out of a trap leaves `gotsig` set and `pending_sig`
  clear, so that the other traps wait for the next signal (`cutshort`).
* dash, evaluation: `command eval 'while :; do readonly x=1; x=2; done'`
  leaves `loopnest` counted up, and a later `break` outside any loop ends the
  rest of the input; a `return` without a number in the condition of a loop
  forgets its status.
* dash, options: with an option string that begins with `:` the word `-:` is
  answered by `:` and an empty OPTARG, as if an argument were missing, instead of
  by `?` and `:`, because the search for a letter begins at the leading `:`
  (`options.c:465`); `local OPTIND` in a function called inside a cluster of
  options makes `getopts` skip the rest; `set +m -Z` leaves `mflag` and job
  control apart.
* dash, variables: a readonly variable that was given a local value keeps
  `VTEXTFIXED`.  Aliases: `setalias` twice on an alias in use leaks the value
  between.

## 6. Plan

1. *(done)* The allocator: slab, pool, smalloc; invariants, abstract
   specifications, findings.
2. *(done)* cfrac: arithmetic, text, memory, factoring.
3. *(done)* dash: stack, jobs, redirections, traps, input, variables, options,
   directory, evaluation, lookup.
4. *(done)* Proofs of all invariants and refinements of the allocator, of the
   stack, and of the storage of cfrac's numbers.
5. *(done)* Proofs of the invariants and action properties of jobs,
   redirections, traps, input, variables, parameters, directory, evaluation and
   lookup.
6. *(open)* The parser and `expand.c` with the stack as their memory.
