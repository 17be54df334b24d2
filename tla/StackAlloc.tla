----------------------------- MODULE StackAlloc -----------------------------
(***************************************************************************)
(* The stack allocator of the shell benchmark (bench/dash/src/memalloc.c), *)
(* a client of smalloc and srealloc.  Memory is a chain of blocks; objects *)
(* are cut from the last one.  A string may grow in the unused rest of the *)
(* last block: growing it reallocates the block when nothing else is in it *)
(* and copies it to a new block otherwise.  Marks remember a position and  *)
(* free everything above it; they must survive a reallocation.             *)
(* Addresses are pairs of a block's name and an offset into its space.     *)
(***************************************************************************)
EXTENDS Integers, Sequences, SequencesExt, FiniteSetsExt

CONSTANTS
  Ids,         \* the addresses ckmalloc and ckrealloc choose from; 0 is stackbase
  Align,       \* SHELL_SIZE + 1
  MinSize,     \* MINSIZE
  MinGrow,     \* 128, the power of two growstackblock adds to min
  Lengths,     \* lengths of objects and strings the shell asks for
  MarkLengths, \* what pushstackmark is called with where a string begins
  MaxObjects,  \* bound: objects at a time
  MaxMarks,    \* bound: nested marks
  MaxLeft      \* bound: no string grows once this much space is left

ASSUME StackAssumption ==
  /\ Ids \subseteq Nat \ {0}
  /\ {Align, MinSize, MinGrow} \subseteq Nat \ {0}
  /\ MinSize % Align = 0
  /\ Lengths \subseteq Nat \ {0} /\ MarkLengths \subseteq Nat
  /\ {MaxObjects, MaxMarks, MaxLeft} \subseteq Nat

VARIABLES
  chain,       \* the blocks from stackbase to stackp: [id, size]
  stacknxt,    \* offset in the last block
  stacknleft,
  sstrend,     \* offset in the last block
  string,      \* how many characters the string at stacknxt has
  intact,      \* how many of its first characters are still what was put there
  objects,     \* what has been allocated, oldest first: [id, off, len]
  marks        \* the marks set and not yet popped: a position, how many
               \* objects there were, and the string that goes on behind it

stackVars == <<chain, stacknxt, stacknleft, sstrend, string, intact, objects, marks>>

stackp == Last(chain)

SHELL_ALIGN(n) == ((n + Align - 1) \div Align) * Align

\* ckmalloc takes the lowest address that is free: one that was just freed is
\* used again at once.
Fresh ==
  LET free == Ids \ {chain[k].id : k \in DOMAIN chain}
  IN IF free = {} THEN {} ELSE {Min(free)}

-----------------------------------------------------------------------------
(* The position in the stack, as one value. *)

Position == [chain |-> chain, nxt |-> stacknxt, left |-> stacknleft, end |-> sstrend]

Become(pos) ==
  /\ chain' = pos.chain /\ stacknxt' = pos.nxt
  /\ stacknleft' = pos.left /\ sstrend' = pos.end

\* The size of a block that is to hold an object.
BlockSize(aligned) == Max({aligned, MinSize})

\* stalloc: the positions it may lead to, and where the space is that it
\* returns.  A block from ckmalloc has some fresh address.
Stalloc(pos, nbytes) ==
  LET aligned   == SHELL_ALIGN(nbytes)
      blocksize == BlockSize(aligned)
      from(p)   == [pos |-> [p EXCEPT !.nxt = @ + aligned, !.left = @ - aligned],
                    at  |-> [id |-> Last(p.chain).id, off |-> p.nxt]]
  IN IF aligned <= pos.left THEN {from(pos)}
     ELSE {from([chain |-> Append(pos.chain, [id |-> id, size |-> blocksize]),
                 nxt |-> 0, left |-> blocksize, end |-> blocksize]) : id \in Fresh}

\* min | MinGrow, aligned.
AtLeast(min) ==
  SHELL_ALIGN(IF (min \div MinGrow) % 2 = 1 THEN min ELSE min + MinGrow)

\* The length to grow to, and a mutant that forgets the minimum.
DoubleLength(min) == stacknleft * 2

NewLength(min) ==
  LET newlen == stacknleft * 2
  IN IF newlen < AtLeast(min) THEN newlen + AtLeast(min) ELSE newlen

\* Nothing but the growing string is in the last block, and a mutant that
\* does not look.
BlockIsNotBase == stackp.id # 0

BlockIsEmpty == stacknxt = 0 /\ stackp.id # 0

\* stacknleft once the space stalloc gave for a copy is free again, and a
\* mutant that takes it for the whole block.
LeftIsLength(left, newlen) == newlen

LeftAgain(left, newlen) == left + newlen

\* growstackblock: ckrealloc leaves the block where it is or moves it.
Grown(min) ==
  LET newlen == NewLength(min)
  IN IF BlockIsEmpty
     THEN {[pos |-> [chain |-> Append(Front(chain), [id |-> id, size |-> newlen]),
                     nxt |-> 0, left |-> newlen, end |-> newlen],
            copied |-> stackp.size] : id \in Fresh \cup {stackp.id}}
     ELSE {[pos |-> [new.pos EXCEPT !.nxt = new.at.off, !.left = LeftAgain(@, newlen)],
            copied |-> stacknleft] : new \in Stalloc(Position, newlen)}

-----------------------------------------------------------------------------
StackInit ==
  /\ chain = <<[id |-> 0, size |-> MinSize]>>
  /\ stacknxt = 0 /\ stacknleft = MinSize /\ sstrend = MinSize
  /\ string = 0 /\ intact = 0
  /\ objects = <<>> /\ marks = <<>>

NoString == string' = 0 /\ intact' = 0

\* grabstackstr turns the string into an object, stalloc any other length.
stalloc(nbytes) ==
  /\ Len(objects) < MaxObjects
  /\ \E new \in Stalloc(Position, nbytes) :
       /\ Become(new.pos)
       /\ objects' = Append(objects, [id |-> new.at.id, off |-> new.at.off,
                                      len |-> SHELL_ALIGN(nbytes)])
  /\ NoString
  /\ UNCHANGED marks

grabstackstr == string > 0 /\ stalloc(string)

\* ungrabstackstr, too: the last object of this block becomes free space.
stunalloc ==
  /\ objects # <<>>
  /\ Last(objects).id = stackp.id
  /\ marks # <<>> => Len(objects) > Last(marks).objects
  /\ stacknleft' = stacknleft + (stacknxt - Last(objects).off)
  /\ stacknxt' = Last(objects).off
  /\ objects' = Front(objects)
  /\ NoString
  /\ UNCHANGED <<chain, sstrend, marks>>

\* STPUTC: one more character, after growstackstr when there is no room.
stputc ==
  /\ stacknxt + string = sstrend => stacknleft <= MaxLeft
  /\ IF stacknxt + string = sstrend
     THEN \E new \in Grown(0) :
            /\ Become(new.pos)
            /\ intact' = (IF intact <= new.copied THEN intact ELSE new.copied) + 1
     ELSE intact' = intact + 1 /\ Become(Position)
  /\ string' = string + 1
  /\ UNCHANGED <<objects, marks>>

\* growstackto, as padvance uses it: space for len characters, no string.
growstackto(len) ==
  /\ stacknleft < len /\ stacknleft <= MaxLeft
  /\ \E new \in Grown(len) : Become(new.pos)
  /\ NoString
  /\ UNCHANGED <<objects, marks>>

\* pushstackmark: what grabstackblock takes stays taken until the mark is
\* popped, and with it a string of kept characters.
pushstackmark(len, kept) ==
  /\ Len(marks) < MaxMarks
  /\ marks' = Append(marks, [id |-> stackp.id, nxt |-> stacknxt, left |-> stacknleft,
                             objects |-> Len(objects), string |-> kept])
  /\ \E new \in Stalloc(Position, len) : Become(new.pos)
  /\ NoString
  /\ UNCHANGED objects

\* setstackmark grabs one byte where the last block is empty, and a mutant
\* that grabs nothing.
GrabNothing == 0

GrabWhenEmpty == IF BlockIsEmpty THEN 1 ELSE 0

setstackmark == pushstackmark(GrabWhenEmpty, 0)

\* A mark around a string that is still being built (expand.c, parser.c,
\* input.c): the string so far, or the rest of the block, is grabbed.  Not of
\* no characters at the start of a block: expbackq may ask for that, and the
\* mark is then lost when the block moves.
pushstackmark_string(len) ==
  /\ len = string /\ intact = string
  /\ len = 0 => ~BlockIsEmpty
  /\ pushstackmark(len, len)

pushstackmark_rest == intact = string /\ pushstackmark(stacknleft, string)

\* popstackmark frees blocks until it comes to the mark's.
popstackmark ==
  /\ marks # <<>>
  /\ LET mark == Last(marks)
         k    == CHOOSE k \in DOMAIN chain : chain[k].id = mark.id
     IN /\ chain' = SubSeq(chain, 1, k)
        /\ stacknxt' = mark.nxt
        /\ stacknleft' = mark.left
        /\ sstrend' = mark.nxt + mark.left
        /\ objects' = SubSeq(objects, 1, mark.objects)
        /\ string' = mark.string /\ intact' = mark.string
  /\ marks' = Front(marks)

\* popstackmark comes to the mark's block.
MarkReached(mark) == \E k \in DOMAIN chain : chain[k].id = mark.id

StackNext ==
  \/ \E n \in Lengths : stalloc(n) \/ growstackto(n)
  \/ grabstackstr
  \/ stunalloc
  \/ stputc
  \/ setstackmark
  \/ \E n \in MarkLengths : pushstackmark_string(n)
  \/ pushstackmark_rest
  \/ marks # <<>> /\ MarkReached(Last(marks)) /\ popstackmark

-----------------------------------------------------------------------------
(* stacknxt, stacknleft and sstrend are set in five places; whichever ran  *)
(* last, the free space ends at sstrend and at the end of the last block.  *)
SpaceAgrees == stacknxt + stacknleft = sstrend /\ sstrend = stackp.size

(* No block with an object in it is freed or moves, and no two objects     *)
(* share a byte: growing a string moves only blocks nothing else is in.    *)
ObjectsStay ==
  /\ \A o \in ToSet(objects) : \E k \in DOMAIN chain :
       /\ o.id = chain[k].id /\ o.off + o.len <= chain[k].size
       /\ k = Len(chain) => o.off + o.len <= stacknxt
  /\ \A i, j \in DOMAIN objects :
       i < j => \/ objects[i].id # objects[j].id
                \/ objects[i].off + objects[i].len <= objects[j].off

(* The position a mark stands for is still there, whatever grew since: the *)
(* loop in popstackmark comes to the mark's block.  TOUR: freeing the      *)
(* memory in use takes no more than restoring the stack pointer.           *)
MarksReached ==
  \A mark \in ToSet(marks) : \E k \in DOMAIN chain :
    chain[k].id = mark.id /\ mark.nxt + mark.left = chain[k].size

(* A string survives every reallocation and copy it is moved by.           *)
StringWhole == intact = string /\ stacknxt + string <= sstrend

(* The stack keeps what is on it while blocks are taken, moved and freed   *)
(* (memalloc.c).                                                           *)
StackSound ==
  /\ SpaceAgrees
  /\ ObjectsStay
  /\ MarksReached
  /\ StringWhole
=============================================================================
