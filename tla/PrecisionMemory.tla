-------------------------- MODULE PrecisionMemory --------------------------
(***************************************************************************)
(* The storage of the multiple precision numbers (bench/cfrac/pops.c).     *)
(* Numbers are cells with a 16 bit reference count.  A function counts its *)
(* parameters up when it is entered (pparm) and down when it returns       *)
(* (pdestroy), assigns to variables with pset, and hands out its result    *)
(* with a count that is already one lower (presult), so that a result that *)
(* nobody has taken yet has count 0.  Cells of few digits go to a cache of *)
(* lists by size when they are freed.                                      *)
(***************************************************************************)
EXTENDS Integers, Sequences, FiniteSets, SequencesExt

CONSTANTS
  Cells,       \* addresses of numbers: 1..n, the first one is pzero
  Sizes,       \* sizes asked for
  CacheSize,   \* CACHESIZE
  CacheLimit,  \* CACHELIMIT
  RefLimit,    \* values of a prefc
  MaxCalls,    \* bound: functions that have been entered
  MaxPending   \* bound: arguments evaluated for a call

ASSUME PrecisionMemoryAssumption ==
  /\ IsFiniteSet(Cells) /\ Cells = 1..Cardinality(Cells) /\ Cells # {}
  /\ Sizes \subseteq Nat \ {0}
  /\ {CacheSize, CacheLimit, MaxCalls, MaxPending} \subseteq Nat
  /\ RefLimit \in Nat /\ RefLimit > (MaxCalls + 1) * (MaxPending + 2) + 2

pUndef == 0
pzeroCell == 1

VARIABLES
  refcount,    \* of every cell
  alloc,       \* the size of every cell, 0 while the allocator has it
  pcache,      \* for every size the list of cached cells
  frames       \* functions entered, main first: their parameters, their two
               \* variables, and what has been evaluated for the next call

memoryVars == <<refcount, alloc, pcache, frames>>

Frame(params) == [params |-> params, locals |-> <<pUndef, pUndef>>, pending |-> <<>>]

MemoryInit ==
  /\ refcount = [c \in Cells |-> IF c = pzeroCell THEN 1 ELSE 0]
  /\ alloc = [c \in Cells |-> IF c = pzeroCell THEN 1 ELSE 0]
  /\ pcache = [s \in Sizes |-> <<>>]
  /\ frames = <<Frame(<<>>)>>

Cached == UNION {ToSet(pcache[s]) : s \in Sizes}

-----------------------------------------------------------------------------
(* Counting up and down; a store is the three variables about cells.       *)

Store == [ref |-> refcount, alloc |-> alloc, cache |-> pcache]

Becomes(s) == refcount' = s.ref /\ alloc' = s.alloc /\ pcache' = s.cache

Up(s, c) == IF c = pUndef THEN s ELSE [s EXCEPT !.ref[c] = (@ + 1) % RefLimit]

\* presult
Down(s, c) == IF c = pUndef THEN s ELSE [s EXCEPT !.ref[c] = (@ - 1) % RefLimit]

\* Whether a freed cell goes to the cache, and a mutant that lets the lists
\* grow by one too many.
CacheTakesOneMore(s, size) == size < CacheSize /\ Len(s.cache[size]) <= CacheLimit
CacheTakes(s, size) == size < CacheSize /\ Len(s.cache[size]) < CacheLimit

pfree(s, c) ==
  LET size == s.alloc[c]
  IN IF CacheTakes(s, size) THEN [s EXCEPT !.cache[size] = <<c>> \o @]
     ELSE [s EXCEPT !.alloc[c] = 0]

pdestroy(s, c) ==
  IF c = pUndef THEN s
  ELSE LET t == Down(s, c) IN IF t.ref[c] = 0 THEN pfree(t, c) ELSE t

\* What psetq does with the counts of the new and the old value, in this
\* order; and a mutant with the order swapped, wrong when both are the same.
SetDownFirst(s, new, old) == Up(pdestroy(s, old), new)
Set(s, new, old) == pdestroy(Up(s, new), old)

DestroyAll(s, cells) == FoldLeft(pdestroy, s, cells)

-----------------------------------------------------------------------------
Top == Last(frames)
WithTop(f) == Append(Front(frames), f)

\* A variable or a parameter is evaluated as the next argument.
Evaluate ==
  /\ Len(Top.pending) < MaxPending
  /\ \E c \in (ToSet(Top.params) \cup ToSet(Top.locals) \cup {pzeroCell}) \ {pUndef} :
       frames' = WithTop([Top EXCEPT !.pending = Append(@, c)])
  /\ UNCHANGED <<refcount, alloc, pcache>>

\* What entering a function does with the counts of its arguments, and a
\* mutant that leaves them alone.
ParmNothing(s, args) == s
Parm(s, args) == FoldLeft(Up, s, args)

\* A function is called with all that has been evaluated.
Enter ==
  /\ Len(frames) <= MaxCalls
  /\ Top.pending # <<>>
  /\ frames' = Append(WithTop([Top EXCEPT !.pending = <<>>]), Frame(Top.pending))
  /\ Becomes(Parm(Store, Top.pending))

\* Only the last argument is passed on to a call nested in the list of
\* arguments: those before wait, unprotected, until it returns.
EnterNested ==
  /\ Len(frames) <= MaxCalls
  /\ Len(Top.pending) = 2
  /\ frames' = Append(WithTop([Top EXCEPT !.pending = Front(@)]), Frame(<<Last(Top.pending)>>))
  /\ Becomes(Parm(Store, <<Last(Top.pending)>>))

\* A local variable gets a new number: from the cache, or from the allocator.
palloc ==
  \E i \in 1..2, size \in Sizes :
    /\ Top.locals[i] = pUndef
    /\ Top.pending = <<>>
    /\ \E s \in
         IF size < CacheSize /\ pcache[size] # <<>>
         THEN {[cell |-> Head(pcache[size]), cache |-> [pcache EXCEPT ![size] = Tail(@)]]}
         ELSE {[cell |-> c, cache |-> pcache] :
                 c \in {d \in Cells : alloc[d] = 0 /\ \A e \in 1..d - 1 : alloc[e] # 0}} :
         /\ refcount' = [refcount EXCEPT ![s.cell] = 1]
         /\ alloc' = [alloc EXCEPT ![s.cell] = size]
         /\ pcache' = s.cache
         /\ frames' = WithTop([Top EXCEPT !.locals[i] = s.cell])

\* pset(&x, ...) with a result or a variable: a statement of its own.
psetLocal ==
  /\ Len(Top.pending) = 1
  /\ \E i \in 1..2 :
       /\ Becomes(Set(Store, Top.pending[1], Top.locals[i]))
       /\ frames' = WithTop([Top EXCEPT !.locals[i] = Top.pending[1], !.pending = <<>>])

\* pset(&v, w) of a parameter, as pdivmod does it.
psetParam ==
  /\ Top.pending = <<>>
  /\ \E i \in 1..2, j \in DOMAIN Top.params :
       /\ Top.locals[i] # pUndef
       /\ Becomes(Set(Store, Top.locals[i], Top.params[j]))
       /\ frames' = WithTop([Top EXCEPT !.params[j] = Top.locals[i]])

\* A function returns one of its variables (return presult(w)), or no number
\* at all as pcmp does; parameters and other variables are destroyed.
ReturnResult ==
  /\ Len(frames) > 1 /\ Top.pending = <<>>
  /\ \E i \in 1..2 :
       /\ Top.locals[i] # pUndef
       /\ Becomes(Down(DestroyAll(Store, Append(Top.params, Top.locals[3 - i])), Top.locals[i]))
       /\ frames' = LET rest == Front(frames)
                    IN Append(Front(rest),
                              [Last(rest) EXCEPT !.pending = Append(@, Top.locals[i])])

ReturnNothing ==
  /\ Len(frames) > 1 /\ Top.pending = <<>>
  /\ Becomes(DestroyAll(Store, Top.params \o Top.locals))
  /\ frames' = Front(frames)

\* A function sets a variable of its caller, as pdivmod does with the quotient
\* and the remainder: after the parameters, one of which may be that variable.
ReturnInto ==
  /\ Len(frames) > 1 /\ Top.pending = <<>>
  /\ LET rest == Front(frames)
         caller == Last(rest)
     IN /\ caller.pending = <<>>
        /\ \E i \in 1..2, a \in 1..2 :
             /\ Top.locals[i] # pUndef
             /\ Becomes(DestroyAll(Set(DestroyAll(Store, Top.params),
                                       Top.locals[i], caller.locals[a]), Top.locals))
             /\ frames' = Append(Front(rest), [caller EXCEPT !.locals[a] = Top.locals[i]])

MemoryNext ==
  \/ Evaluate \/ Enter \/ EnterNested \/ palloc \/ psetLocal \/ psetParam
  \/ ReturnResult \/ ReturnNothing \/ ReturnInto

-----------------------------------------------------------------------------
(* Properties.                                                             *)

Holders(c) ==
  (IF c = pzeroCell THEN 1 ELSE 0)
  + Cardinality({p \in (1..Len(frames)) \X (1..2) : frames[p[1]].locals[p[2]] = c})
  + Cardinality({p \in (1..Len(frames)) \X (1..MaxPending) :
                   p[2] <= Len(frames[p[1]].params) /\ frames[p[1]].params[p[2]] = c})

Waiting(c) == \E k \in DOMAIN frames : c \in ToSet(frames[k].pending)

Alive(c) == alloc[c] # 0 /\ c \notin Cached

\* The count of a cell is the number of variables and parameters that refer
\* to it, whatever functions do with their arguments: none is missed, so none
\* is freed too early, and no cell with count 0 is kept unless it is a result
\* on its way to where it will be taken (pops.c, NOTES).
CountsExact ==
  \A c \in Cells : Alive(c) => refcount[c] = Holders(c) /\ (Holders(c) = 0 => Waiting(c))

\* Whatever a function can reach is alive: neither given back to the allocator
\* nor on a list of the cache, from where palloc would hand it out again.
NothingDangles ==
  \A k \in DOMAIN frames :
    \A c \in (ToSet(frames[k].params) \cup ToSet(frames[k].locals)
              \cup ToSet(frames[k].pending)) \ {pUndef} : Alive(c)

\* The lists of the cache are short, share no cell, and have cells of their
\* size only: palloc takes the size of a list for the size of the cell.
CacheSound ==
  \A s \in Sizes :
    /\ Len(pcache[s]) <= CacheLimit
    /\ s >= CacheSize => pcache[s] = <<>>
    /\ \A i, j \in DOMAIN pcache[s] : pcache[s][i] = pcache[s][j] => i = j
    /\ \A c \in ToSet(pcache[s]) : alloc[c] = s

(* Every number lives as long as somebody has it, and no longer (pops.c).  *)
MemorySound ==
  /\ CountsExact
  /\ NothingDangles
  /\ CacheSound
=============================================================================
