----------------------------- MODULE ShellProofs -----------------------------
(***************************************************************************)
(* What the shell (Shell) keeps, in every behaviour and for every value of *)
(* the bounds: what is on its stack (StackAlloc), how commands are         *)
(* evaluated (Eval), what variables hold (Var), how the working directory  *)
(* is named (Cd), and the parameters and what getopts says of them         *)
(* (Options).                                                              *)
(***************************************************************************)
EXTENDS Shell, DoublyLinkedProofs, SequenceTheorems

\* Offsets and sizes are multiples of the alignment: what growstackblock asks
\* stalloc for is what it gets, so that it can count it as free again.
Aligned(x) == \E q \in 0..x : x = q * Align

\* The blocks: the static one first, and no two with the same address.
ChainOK(c) ==
  /\ c \in Seq([id : Ids \cup {0}, size : Nat \ {0}])
  /\ Len(c) >= 1
  /\ c[1].id = 0
  /\ \A k \in 1..Len(c) : Aligned(c[k].size)
  /\ \A j, k \in 1..Len(c) : c[j].id = c[k].id => j = k

SpaceOK(c, nxt, left, end) ==
  /\ nxt \in Nat /\ left \in Nat /\ Aligned(nxt) /\ Aligned(left)
  /\ nxt + left = end /\ end = c[Len(c)].size

\* Where the object o is: in the k-th block, and before what is free.
InBlock(c, nxt, o, k) ==
  /\ o.id = c[k].id /\ o.off + o.len <= c[k].size
  /\ k = Len(c) => o.off + o.len <= nxt

ObjectsOK(c, nxt, objs) ==
  /\ objs \in Seq([id : Ids \cup {0}, off : Nat, len : Nat \ {0}])
  /\ \A i \in 1..Len(objs) : Aligned(objs[i].off)
  /\ \A i \in 1..Len(objs) : \E k \in 1..Len(c) : InBlock(c, nxt, objs[i], k)
  /\ \A i, j \in 1..Len(objs) :
       i < j => \/ objs[i].id # objs[j].id
                \/ objs[i].off + objs[i].len <= objs[j].off

\* The mark m is of the k-th block.  Where the block could still move, as it
\* would if it were empty, it is not.
MarksBlock(c, nxt, m, k) ==
  /\ c[k].id = m.id /\ m.nxt + m.left = c[k].size
  /\ k = Len(c) => m.nxt <= nxt /\ (m.id # 0 => nxt >= 1)

\* The objects made before the mark m are in its block or in one before it;
\* those made since lie above it, and not at the start of a block.
ObjectBefore(c, m, o) ==
  /\ o.id = m.id => o.off + o.len <= m.nxt
  /\ \A j, k \in 1..Len(c) : c[j].id = o.id /\ c[k].id = m.id => j <= k

ObjectSince(m, o) == o.id = m.id => m.nxt <= o.off /\ (m.id # 0 => o.off >= 1)

MarkOK(c, nxt, objs, m) ==
  /\ Aligned(m.nxt) /\ Aligned(m.left) /\ m.string <= m.left
  /\ m.objects <= Len(objs)
  /\ \E k \in 1..Len(c) : MarksBlock(c, nxt, m, k)
  /\ \A i \in 1..Len(objs) : IF i <= m.objects THEN ObjectBefore(c, m, objs[i])
                             ELSE ObjectSince(m, objs[i])

\* The mark m was set before the mark n.
MarkBefore(c, m, n) ==
  /\ m.objects <= n.objects
  /\ m.id = n.id => m.nxt <= n.nxt /\ (m.id # 0 => n.nxt >= 1)
  /\ \A j, k \in 1..Len(c) : c[j].id = m.id /\ c[k].id = n.id => j <= k

MarksOK(c, nxt, objs, mks) ==
  /\ mks \in Seq([id : Ids \cup {0}, nxt : Nat, left : Nat, objects : Nat, string : Nat])
  /\ \A a \in 1..Len(mks) : MarkOK(c, nxt, objs, mks[a])
  /\ \A a, b \in 1..Len(mks) : a < b => MarkBefore(c, mks[a], mks[b])

StackHolds(c, nxt, objs, mks) == ObjectsOK(c, nxt, objs) /\ MarksOK(c, nxt, objs, mks)

\* The inductive invariant of the stack.
StackInv ==
  /\ ChainOK(chain)
  /\ SpaceOK(chain, stacknxt, stacknleft, sstrend)
  /\ StackHolds(chain, stacknxt, objects, marks)
  /\ string \in Nat /\ intact = string /\ string <= stacknleft

-----------------------------------------------------------------------------
(* Multiples of the alignment. *)
LEMMA AlignedTimes ==
  ASSUME NEW q \in Nat
  PROVE  q * Align \in Nat /\ q <= q * Align /\ Aligned(q * Align)
<1> DEFINE x == q * Align
<1>0. Align \in Nat \ {0}
  BY StackAssumption
<1>1. PICK d \in Nat : Align = 1 + d
  <2>1. Align - 1 \in Nat /\ Align = 1 + (Align - 1)
    BY <1>0
  <2> QED BY <2>1
<1>2. x = q + q * d /\ q * d \in Nat
  BY <1>1, SMT
<1>3. x \in Nat /\ q <= x
  BY <1>2
<1>4. Aligned(x)
  <2>1. q \in 0..x
    <3> HIDE DEF x
    <3> QED BY <1>3
  <2> QED BY <2>1 DEF Aligned
<1> QED BY <1>3, <1>4

LEMMA AlignedSum ==
  ASSUME NEW x \in Nat, NEW y \in Nat, Aligned(x), Aligned(y)
  PROVE  /\ Aligned(x + y)
         /\ y <= x => Aligned(x - y)
<1>0. Align \in Nat \ {0}
  BY StackAssumption
<1>1. PICK q \in Nat, r \in Nat : x = q * Align /\ y = r * Align
  BY DEF Aligned
<1>2. x + y = (q + r) * Align
  BY <1>0, <1>1, SMT
<1>3. Aligned(x + y)
  BY <1>1, <1>2, AlignedTimes
<1>4. ASSUME y <= x PROVE Aligned(x - y)
  <2>1. r <= q
    <3> SUFFICES ASSUME q < r PROVE FALSE
      BY <1>1
    <3>1. Align * q + Align <= Align * r
      BY <1>0, TimesMonotone
    <3>2. Align * q = x /\ Align * r = y
      BY <1>0, <1>1, SMT
    <3> QED BY <1>0, <1>4, <3>1, <3>2
  <2>2. q - r \in Nat /\ x - y = (q - r) * Align
    BY <1>0, <1>1, <2>1, SMT
  <2> QED BY <2>2, AlignedTimes
<1> QED BY <1>3, <1>4

\* SHELL_ALIGN rounds up to the next multiple, and a multiple not at all.
LEMMA ShellAligns ==
  ASSUME NEW n \in Nat
  PROVE  /\ SHELL_ALIGN(n) \in Nat /\ n <= SHELL_ALIGN(n)
         /\ Aligned(SHELL_ALIGN(n))
         /\ Aligned(n) => SHELL_ALIGN(n) = n
<1> DEFINE m == n + Align - 1
           q == m \div Align
<1>0. Align \in Nat \ {0}
  BY StackAssumption
<1>1. m \in Nat /\ m = n + Align - 1
  BY <1>0
<1>2. SHELL_ALIGN(n) = q * Align
  BY DEF SHELL_ALIGN
<1> HIDE DEF m
<1>3. q \in Nat /\ Align * q \in Nat /\ Align * q <= m /\ m < Align * q + Align
  BY <1>0, <1>1, DivMod
<1> HIDE DEF q
<1>4. q * Align = Align * q
  BY <1>0, <1>3, SMT
<1> DEFINE a == Align * q
<1>5. n <= a
  <2>1. a \in Nat /\ m < a + Align
    BY <1>3
  <2> HIDE DEF a
  <2> QED BY <1>0, <1>1, <2>1
<1>6. Aligned(a)
  BY <1>3, <1>4, AlignedTimes
<1>7. ASSUME Aligned(n) PROVE a = n
  <2>1. PICK k \in Nat : n = k * Align
    BY <1>7 DEF Aligned
  <2>2. n = Align * k
    BY <1>0, <2>1, SMT
  <2>3. ~(k < q)
    <3> SUFFICES ASSUME k < q PROVE FALSE
      OBVIOUS
    <3>1. Align * k + Align <= a
      BY <1>0, <1>3, TimesMonotone
    <3>2. a \in Nat /\ a <= m
      BY <1>3
    <3> HIDE DEF a
    <3> QED BY <1>0, <1>1, <2>2, <3>1, <3>2
  <2>4. ~(q < k)
    <3> SUFFICES ASSUME q < k PROVE FALSE
      OBVIOUS
    <3>1. a + Align <= Align * k
      BY <1>0, <1>3, TimesMonotone
    <3>2. a \in Nat /\ n <= a
      BY <1>3, <1>5
    <3> HIDE DEF a
    <3> QED BY <1>0, <2>2, <3>1, <3>2
  <2>5. k = q
    BY <1>3, <2>3, <2>4
  <2> QED BY <2>2, <2>5
<1>8. a \in Nat
  BY <1>3
<1> QED BY <1>2, <1>4, <1>5, <1>6, <1>7, <1>8

LEMMA SizesAligned ==
  /\ MinSize \in Nat \ {0} /\ Aligned(MinSize) /\ Aligned(0)
  /\ MinGrow \in Nat \ {0} /\ Align \in Nat \ {0}
<1>1. /\ MinSize \in Nat \ {0} /\ MinGrow \in Nat \ {0} /\ Align \in Nat \ {0}
      /\ MinSize % Align = 0
  BY StackAssumption
<1> DEFINE q == MinSize \div Align
<1>2. q \in Nat
  BY <1>1, DivMod
<1>3. MinSize = q * Align
  BY <1>1, SMT
<1>4. Aligned(q * Align) /\ Aligned(0 * Align)
  BY <1>2, AlignedTimes
<1>5. 0 * Align = 0
  BY <1>1, SMT
<1> QED BY <1>1, <1>3, <1>4, <1>5

\* A new block has room for what it was made for.
LEMMA BlockSizeOK ==
  ASSUME NEW n \in Nat, Aligned(n)
  PROVE  /\ BlockSize(n) \in Nat \ {0} /\ n <= BlockSize(n)
         /\ Aligned(BlockSize(n))
<1> DEFINE S == {n, MinSize}
<1>1. MinSize \in Nat \ {0} /\ Aligned(MinSize)
  BY SizesAligned
<1>2. \E x \in S : \A y \in S : x >= y
  BY <1>1
<1>3. BlockSize(n) \in S /\ \A y \in S : BlockSize(n) >= y
  <2>1. BlockSize(n) = CHOOSE x \in S : \A y \in S : x >= y
    BY DEF BlockSize, Max
  <2> HIDE DEF S
  <2> QED BY <1>2, <2>1
<1> QED BY <1>1, <1>3

\* growstackblock asks for a multiple of the alignment, and for more than
\* there is left.
LEMMA NewLengthOK ==
  ASSUME NEW min \in Nat, stacknleft \in Nat, Aligned(stacknleft)
  PROVE  /\ NewLength(min) \in Nat \ {0} /\ stacknleft < NewLength(min)
         /\ Aligned(NewLength(min))
<1> DEFINE n == IF (min \div MinGrow) % 2 = 1 THEN min ELSE min + MinGrow
           a == AtLeast(min)
           left == stacknleft
<1>1. n \in Nat
  BY SizesAligned
<1>2. a = SHELL_ALIGN(n)
  BY DEF AtLeast
<1>3. n >= 1
  <2>1. CASE min = 0
    <3>1. 0 \div MinGrow = 0
      <4>1. MinGrow * 0 = 0
        BY SizesAligned, SMT
      <4> QED BY <4>1, SizesAligned, DivTimes
    <3>2. n = MinGrow
      BY <2>1, <3>1, SizesAligned
    <3> QED BY <3>2, SizesAligned
  <2>2. CASE min # 0
    BY <2>2, SizesAligned
  <2> QED BY <2>1, <2>2
<1> HIDE DEF n
<1>4. a \in Nat /\ a >= 1 /\ Aligned(a)
  <2>1. a \in Nat /\ n <= a /\ Aligned(a)
    BY <1>1, <1>2, ShellAligns
  <2> HIDE DEF a
  <2> QED BY <1>1, <1>3, <2>1
<1> HIDE DEF a
<1>5. Aligned(left + left)
  BY AlignedSum
<1>6. Aligned((left + left) + a)
  BY <1>4, <1>5, AlignedSum
<1>7. NewLength(min) = IF left + left < a THEN (left + left) + a ELSE left + left
  BY DEF NewLength, a
<1> QED BY <1>4, <1>5, <1>6, <1>7

-----------------------------------------------------------------------------
(* The objects and marks of a stack whose chain, position or number of     *)
(* objects and marks changes.                                              *)

\* They are in the first n blocks, and that is well with the position.
Settled(c, nxt, n, objs, mks) ==
  /\ \A i \in 1..Len(objs) : \E k \in 1..n : InBlock(c, nxt, objs[i], k)
  /\ \A a \in 1..Len(mks) : \E k \in 1..n : MarksBlock(c, nxt, mks[a], k)

LEMMA Blocks ==
  ASSUME NEW c, ChainOK(c)
  PROVE  /\ Len(c) \in Nat /\ Len(c) \in 1..Len(c)
         /\ \A k \in 1..Len(c) : c[k].id \in Ids \cup {0} /\ c[k].size \in Nat \ {0}
         /\ \A j, k \in 1..Len(c) : c[j].id = c[k].id => j = k
<1>1. c \in Seq([id : Ids \cup {0}, size : Nat \ {0}]) /\ Len(c) >= 1
  BY DEF ChainOK
<1>2. Len(c) \in Nat /\ \A k \in 1..Len(c) : c[k] \in [id : Ids \cup {0}, size : Nat \ {0}]
  BY <1>1, ElementOfSeq, LenProperties
<1> QED BY <1>1, <1>2 DEF ChainOK

LEMMA Rechained ==
  ASSUME NEW c, ChainOK(c), NEW nxt, NEW objs, NEW mks, StackHolds(c, nxt, objs, mks),
         NEW c2, ChainOK(c2), NEW nxt2, NEW n \in Nat, n <= Len(c), n <= Len(c2),
         \A k \in 1..n : c2[k] = c[k], Settled(c2, nxt2, n, objs, mks)
  PROVE  StackHolds(c2, nxt2, objs, mks)
<1>1. /\ Len(c) \in Nat /\ Len(c2) \in Nat
      /\ \A k \in 1..n : k \in 1..Len(c) /\ k \in 1..Len(c2)
  BY Blocks
<1>2. ObjectsOK(c2, nxt2, objs)
  BY <1>1 DEF StackHolds, ObjectsOK, Settled
\* In both chains the order of the blocks of two addresses is the same.
<1>3. ASSUME NEW x, NEW y, NEW jx \in 1..n, NEW ky \in 1..n,
             c2[jx].id = x, c2[ky].id = y,
             \A j, k \in 1..Len(c) : c[j].id = x /\ c[k].id = y => j <= k
      PROVE  \A j, k \in 1..Len(c2) : c2[j].id = x /\ c2[k].id = y => j <= k
  <2>1. jx <= ky
    BY <1>1, <1>3
  <2> QED BY <1>1, <1>3, <2>1, Blocks
<1>4. ASSUME NEW a \in 1..Len(mks) PROVE MarkOK(c2, nxt2, objs, mks[a])
  <2>1. MarkOK(c, nxt, objs, mks[a])
    BY DEF StackHolds, MarksOK
  <2>2. PICK k \in 1..n : MarksBlock(c2, nxt2, mks[a], k)
    BY DEF Settled
  <2>3. ASSUME NEW i \in 1..Len(objs), i <= mks[a].objects
        PROVE  ObjectBefore(c2, mks[a], objs[i])
    <3>1. ObjectBefore(c, mks[a], objs[i])
      BY <2>1, <2>3 DEF MarkOK
    <3>2. PICK j \in 1..n : InBlock(c2, nxt2, objs[i], j)
      BY DEF Settled
    <3>3. c2[j].id = objs[i].id /\ c2[k].id = mks[a].id
      BY <2>2, <3>2 DEF InBlock, MarksBlock
    <3> QED BY <1>3, <3>1, <3>3 DEF ObjectBefore
  <2>4. \E q \in 1..Len(c2) : MarksBlock(c2, nxt2, mks[a], q)
    BY <1>1, <2>2
  <2> QED BY <2>1, <2>3, <2>4 DEF MarkOK
<1>5. ASSUME NEW a \in 1..Len(mks), NEW b \in 1..Len(mks), a < b
      PROVE  MarkBefore(c2, mks[a], mks[b])
  <2>1. MarkBefore(c, mks[a], mks[b])
    BY <1>5 DEF StackHolds, MarksOK
  <2>2. PICK j \in 1..n : MarksBlock(c2, nxt2, mks[a], j)
    BY DEF Settled
  <2>3. PICK k \in 1..n : MarksBlock(c2, nxt2, mks[b], k)
    BY DEF Settled
  <2>4. c2[j].id = mks[a].id /\ c2[k].id = mks[b].id
    BY <2>2, <2>3 DEF MarksBlock
  <2> QED BY <1>3, <2>1, <2>4 DEF MarkBefore
<1>6. MarksOK(c2, nxt2, objs, mks)
  BY <1>4, <1>5 DEF StackHolds, MarksOK
<1> QED BY <1>2, <1>6 DEF StackHolds

ObjectType == [id : Ids \cup {0}, off : Nat, len : Nat \ {0}]
MarkType == [id : Ids \cup {0}, nxt : Nat, left : Nat, objects : Nat, string : Nat]

LEMMA OnStackTypes ==
  ASSUME NEW c, NEW nxt, NEW objs, NEW mks, StackHolds(c, nxt, objs, mks)
  PROVE  /\ objs \in Seq(ObjectType) /\ Len(objs) \in Nat
         /\ \A i \in 1..Len(objs) : objs[i] \in ObjectType
         /\ mks \in Seq(MarkType) /\ Len(mks) \in Nat
         /\ \A a \in 1..Len(mks) : mks[a] \in MarkType
<1>1. objs \in Seq(ObjectType) /\ mks \in Seq(MarkType)
  BY DEF StackHolds, ObjectsOK, MarksOK, ObjectType, MarkType
<1> QED BY <1>1, ElementOfSeq, LenProperties

\* The stack goes on, as stalloc and growstackblock have it: in the same block
\* further up,
LEMMA Raised ==
  ASSUME NEW c, ChainOK(c), NEW nxt \in Nat, NEW objs, NEW mks,
         StackHolds(c, nxt, objs, mks), NEW nxt2 \in Nat, nxt <= nxt2
  PROVE  StackHolds(c, nxt2, objs, mks)
<1>1. Len(c) \in Nat
  BY Blocks
<1>2. /\ \A i \in 1..Len(objs) : objs[i] \in ObjectType
      /\ \A a \in 1..Len(mks) : mks[a] \in MarkType
  BY OnStackTypes
<1>3. ASSUME NEW i \in 1..Len(objs) PROVE \E k \in 1..Len(c) : InBlock(c, nxt2, objs[i], k)
  <2>1. PICK k \in 1..Len(c) : InBlock(c, nxt, objs[i], k)
    BY DEF StackHolds, ObjectsOK
  <2>2. objs[i].off + objs[i].len \in Nat
    BY <1>2 DEF ObjectType
  <2> QED BY <2>1, <2>2 DEF InBlock
<1>4. ASSUME NEW a \in 1..Len(mks) PROVE \E k \in 1..Len(c) : MarksBlock(c, nxt2, mks[a], k)
  <2>1. PICK k \in 1..Len(c) : MarksBlock(c, nxt, mks[a], k)
    BY DEF StackHolds, MarksOK, MarkOK
  <2>2. mks[a].nxt \in Nat
    BY <1>2 DEF MarkType
  <2> QED BY <2>1, <2>2 DEF MarksBlock
<1>5. Settled(c, nxt2, Len(c), objs, mks)
  BY <1>3, <1>4 DEF Settled
<1> QED BY <1>1, <1>5, Rechained

\* in a new block,
LEMMA BlockAdded ==
  ASSUME NEW c, ChainOK(c), NEW nxt, NEW objs, NEW mks, StackHolds(c, nxt, objs, mks),
         NEW id \in Ids, \A k \in 1..Len(c) : c[k].id # id,
         NEW size \in Nat \ {0}, Aligned(size), NEW nxt2
  PROVE  LET c2 == Append(c, [id |-> id, size |-> size]) IN
         /\ ChainOK(c2) /\ StackHolds(c2, nxt2, objs, mks)
         /\ Len(c2) = Len(c) + 1 /\ c2[Len(c2)] = [id |-> id, size |-> size]
<1> DEFINE b  == [id |-> id, size |-> size]
           c2 == Append(c, b)
           B  == [id : Ids \cup {0}, size : Nat \ {0}]
<1>1. Len(c) \in Nat /\ Len(c) >= 1 /\ c \in Seq(B) /\ b \in B
  BY Blocks DEF ChainOK
<1>2. /\ c2 \in Seq(B) /\ Len(c2) = Len(c) + 1
      /\ \A k \in 1..Len(c) : c2[k] = c[k]
      /\ c2[Len(c) + 1] = b
  <2> HIDE DEF b, B
  <2> QED BY <1>1, AppendProperties
<1> HIDE DEF c2
<1>3. b.id = id /\ b.size = size
  OBVIOUS
<1> HIDE DEF b
<1>4. \A k \in 1..Len(c2) : k \in 1..Len(c) \/ k = Len(c) + 1
  BY <1>1, <1>2
<1>5. ChainOK(c2)
  <2>1. c2[1].id = 0 /\ Len(c2) >= 1
    BY <1>1, <1>2 DEF ChainOK
  <2>2. \A k \in 1..Len(c2) : Aligned(c2[k].size)
    BY <1>2, <1>3, <1>4 DEF ChainOK
  <2>3. \A j, k \in 1..Len(c2) : c2[j].id = c2[k].id => j = k
    BY <1>2, <1>3, <1>4 DEF ChainOK
  <2> QED BY <1>2, <2>1, <2>2, <2>3 DEF ChainOK, B
<1>6. \A k \in 1..Len(c) : k # Len(c2)
  BY <1>1, <1>2
<1>7. \A i \in 1..Len(objs) : \E k \in 1..Len(c) : InBlock(c2, nxt2, objs[i], k)
  BY <1>2, <1>6 DEF StackHolds, ObjectsOK, InBlock
<1>8. \A a \in 1..Len(mks) : \E k \in 1..Len(c) : MarksBlock(c2, nxt2, mks[a], k)
  BY <1>2, <1>6 DEF StackHolds, MarksOK, MarkOK, MarksBlock
<1>9. Settled(c2, nxt2, Len(c), objs, mks)
  BY <1>7, <1>8 DEF Settled
<1>10. StackHolds(c2, nxt2, objs, mks)
  <2> DEFINE n == Len(c)
  <2>1. /\ n \in Nat /\ n <= Len(c) /\ n <= Len(c2)
        /\ \A k \in 1..n : c2[k] = c[k]
        /\ Settled(c2, nxt2, n, objs, mks)
    BY <1>1, <1>2, <1>9
  <2> HIDE DEF n
  <2> QED BY <1>5, <2>1, Rechained
<1> QED BY <1>2, <1>5, <1>10 DEF c2, b

\* or in the last block, which has moved, because nothing is in it.
LEMMA BlockReplaced ==
  ASSUME NEW c, ChainOK(c), NEW objs, NEW mks, StackHolds(c, 0, objs, mks),
         c[Len(c)].id # 0,
         NEW id \in Ids, \A k \in 1..(Len(c) - 1) : c[k].id # id,
         NEW size \in Nat \ {0}, Aligned(size)
  PROVE  LET c2 == Append(Front(c), [id |-> id, size |-> size]) IN
         /\ ChainOK(c2) /\ StackHolds(c2, 0, objs, mks)
         /\ Len(c2) = Len(c) /\ c2[Len(c2)] = [id |-> id, size |-> size]
<1> DEFINE b  == [id |-> id, size |-> size]
           f  == Front(c)
           c2 == Append(f, b)
           B  == [id : Ids \cup {0}, size : Nat \ {0}]
           n  == Len(c) - 1
<1>1. Len(c) \in Nat /\ Len(c) >= 2 /\ c \in Seq(B) /\ b \in B /\ n \in Nat /\ n >= 1
  BY Blocks DEF ChainOK
<1>2. f \in Seq(B) /\ Len(f) = n /\ \A k \in 1..n : f[k] = c[k]
  <2>1. \A k \in 1..n : c[k] \in B
    <3>1. \A k \in 1..n : k \in 1..Len(c)
      BY <1>1
    <3> HIDE DEF B
    <3> QED BY <1>1, <3>1, ElementOfSeq
  <2>2. n - 1 + 1 = n /\ \A k \in 1..n : 1 + k - 1 = k
    BY <1>1
  <2> HIDE DEF B, n
  <2> QED BY <1>1, <2>1, <2>2, SubSeqProperties DEF Front, n
<1> HIDE DEF f
<1>3. /\ c2 \in Seq(B) /\ Len(c2) = Len(c)
      /\ \A k \in 1..n : c2[k] = c[k]
      /\ c2[Len(c)] = b
  <2>1. n + 1 = Len(c)
    BY <1>1
  <2> HIDE DEF b, B, n
  <2> QED BY <1>1, <1>2, <2>1, AppendProperties
<1> HIDE DEF c2
<1>4. b.id = id /\ b.size = size
  OBVIOUS
<1> HIDE DEF b
<1>5. \A k \in 1..Len(c2) : k \in 1..n \/ k = Len(c)
  BY <1>1, <1>3
<1>6. ChainOK(c2)
  <2>1. c2[1].id = 0 /\ Len(c2) >= 1
    BY <1>1, <1>3 DEF ChainOK
  <2>2. \A k \in 1..Len(c2) : Aligned(c2[k].size)
    BY <1>1, <1>3, <1>4, <1>5 DEF ChainOK
  <2>3. \A j, k \in 1..Len(c2) : c2[j].id = c2[k].id => j = k
    <3>1. \A j, k \in 1..n : c[j].id = c[k].id => j = k
      <4>1. \A k \in 1..n : k \in 1..Len(c)
        BY <1>1
      <4> QED BY <4>1, Blocks
    <3> QED BY <1>3, <1>4, <1>5, <3>1
  <2> QED BY <1>3, <2>1, <2>2, <2>3 DEF ChainOK, B
<1>7. \A k \in 1..n : k # Len(c2) /\ k # Len(c)
  BY <1>1, <1>3
<1>8. ASSUME NEW i \in 1..Len(objs) PROVE \E k \in 1..n : InBlock(c2, 0, objs[i], k)
  <2>1. PICK k \in 1..Len(c) : InBlock(c, 0, objs[i], k)
    BY DEF StackHolds, ObjectsOK
  <2>2. objs[i].off \in Nat /\ objs[i].len \in Nat \ {0}
    BY OnStackTypes DEF ObjectType
  <2>3. k \in 1..n
    <3>1. ~(objs[i].off + objs[i].len <= 0)
      BY <2>2
    <3>2. k # Len(c)
      BY <2>1, <3>1 DEF InBlock
    <3> QED BY <1>1, <3>2
  <2> QED BY <1>3, <1>7, <2>1, <2>3 DEF InBlock
<1>9. ASSUME NEW a \in 1..Len(mks) PROVE \E k \in 1..n : MarksBlock(c2, 0, mks[a], k)
  <2>1. PICK k \in 1..Len(c) : MarksBlock(c, 0, mks[a], k)
    BY DEF StackHolds, MarksOK, MarkOK
  <2>2. k \in 1..n
    <3>1. k # Len(c)
      BY <2>1 DEF MarksBlock
    <3> QED BY <1>1, <3>1
  <2> QED BY <1>3, <1>7, <2>1, <2>2 DEF MarksBlock
<1>10. Settled(c2, 0, n, objs, mks)
  BY <1>8, <1>9 DEF Settled
<1>11. StackHolds(c2, 0, objs, mks)
  <2>1. n <= Len(c) /\ n <= Len(c2)
    BY <1>1, <1>3
  <2> HIDE DEF n
  <2> QED BY <1>1, <1>3, <1>6, <1>10, <2>1, Rechained
<1> QED BY <1>3, <1>6, <1>11 DEF c2, b, f


\* Some of the objects and marks are gone: the last ones, and no object that a
\* remaining mark has below it.
LEMMA Shortened ==
  ASSUME NEW c, NEW nxt, NEW objs, NEW mks, StackHolds(c, nxt, objs, mks),
         NEW p \in 0..Len(objs), NEW r \in 0..Len(mks),
         \A a \in 1..r : mks[a].objects <= p
  PROVE  LET objs2 == SubSeq(objs, 1, p)
             mks2  == SubSeq(mks, 1, r)
         IN /\ StackHolds(c, nxt, objs2, mks2)
            /\ Len(objs2) = p /\ \A i \in 1..p : objs2[i] = objs[i]
            /\ Len(mks2) = r /\ \A a \in 1..r : mks2[a] = mks[a]
<1> DEFINE objs2 == SubSeq(objs, 1, p)
           mks2  == SubSeq(mks, 1, r)
<1>1. /\ objs \in Seq(ObjectType) /\ Len(objs) \in Nat
      /\ \A i \in 1..Len(objs) : objs[i] \in ObjectType
      /\ mks \in Seq(MarkType) /\ Len(mks) \in Nat
      /\ \A a \in 1..Len(mks) : mks[a] \in MarkType
  BY OnStackTypes
<1>2. /\ p \in Nat /\ p <= Len(objs) /\ \A i \in 1..p : i \in 1..Len(objs)
      /\ r \in Nat /\ r <= Len(mks) /\ \A a \in 1..r : a \in 1..Len(mks)
  BY <1>1
<1>3. objs2 \in Seq(ObjectType) /\ Len(objs2) = p /\ \A i \in 1..p : objs2[i] = objs[i]
  <2>1. /\ \A i \in 1..p : objs[i] \in ObjectType /\ 1 + i - 1 = i
        /\ p - 1 + 1 = p /\ (1 <= p \/ p = 0)
    BY <1>1, <1>2
  <2> QED BY <1>2, <2>1, SubSeqProperties
<1>4. mks2 \in Seq(MarkType) /\ Len(mks2) = r /\ \A a \in 1..r : mks2[a] = mks[a]
  <2>1. /\ \A a \in 1..r : mks[a] \in MarkType /\ 1 + a - 1 = a
        /\ r - 1 + 1 = r /\ (1 <= r \/ r = 0)
    BY <1>1, <1>2
  <2> QED BY <1>2, <2>1, SubSeqProperties
<1> HIDE DEF objs2, mks2
<1>5. ObjectsOK(c, nxt, objs2)
  BY <1>2, <1>3 DEF StackHolds, ObjectsOK, ObjectType
<1>6. ASSUME NEW a \in 1..r PROVE MarkOK(c, nxt, objs2, mks2[a])
  <2>1. MarkOK(c, nxt, objs, mks[a]) /\ mks[a].objects <= p
    BY <1>2 DEF StackHolds, MarksOK
  <2> QED BY <1>2, <1>3, <1>4, <2>1 DEF MarkOK
<1>7. \A a, b \in 1..r : a < b => MarkBefore(c, mks2[a], mks2[b])
  BY <1>2, <1>4 DEF StackHolds, MarksOK
<1>8. MarksOK(c, nxt, objs2, mks2)
  BY <1>4, <1>6, <1>7 DEF MarksOK, MarkType
<1> QED BY <1>3, <1>4, <1>5, <1>8 DEF StackHolds, objs2, mks2

\* A new object, where the free space began.
LEMMA ObjectAdded ==
  ASSUME NEW c, ChainOK(c), NEW nxt \in Nat, Aligned(nxt), NEW objs, NEW mks,
         StackHolds(c, nxt, objs, mks),
         NEW len \in Nat \ {0}, nxt + len <= c[Len(c)].size
  PROVE  StackHolds(c, nxt + len,
                    Append(objs, [id |-> c[Len(c)].id, off |-> nxt, len |-> len]), mks)
<1> DEFINE n     == Len(c)
           o     == [id |-> c[n].id, off |-> nxt, len |-> len]
           objs2 == Append(objs, o)
           nxt2  == nxt + len
           m     == Len(objs)
<1>1. /\ n \in 1..Len(c) /\ c[n].id \in Ids \cup {0}
      /\ \A j, k \in 1..n : c[j].id = c[k].id => j = k
  BY Blocks
<1>2. StackHolds(c, nxt2, objs, mks) /\ nxt2 \in Nat
  BY Raised
<1>3. /\ objs \in Seq(ObjectType) /\ m \in Nat
      /\ \A i \in 1..m : objs[i] \in ObjectType
      /\ \A a \in 1..Len(mks) : mks[a] \in MarkType
  BY OnStackTypes
<1>4. o \in ObjectType /\ o.id = c[n].id /\ o.off = nxt /\ o.len = len
  BY <1>1 DEF ObjectType
<1> HIDE DEF o, n
<1>5. /\ objs2 \in Seq(ObjectType) /\ Len(objs2) = m + 1
      /\ \A i \in 1..m : objs2[i] = objs[i]
      /\ objs2[m + 1] = o
  BY <1>3, <1>4, AppendProperties
<1> HIDE DEF objs2, m
<1>6. \A i \in 1..(m + 1) : i \in 1..m \/ i = m + 1
  BY <1>3
<1>7. ObjectsOK(c, nxt2, objs2)
  <2>1. \A i \in 1..(m + 1) : Aligned(objs2[i].off)
    BY <1>4, <1>5, <1>6 DEF StackHolds, ObjectsOK, m
  <2>2. ASSUME NEW i \in 1..(m + 1) PROVE \E k \in 1..Len(c) : InBlock(c, nxt2, objs2[i], k)
    <3>1. CASE i \in 1..m
      BY <1>2, <1>5, <3>1 DEF StackHolds, ObjectsOK, m
    <3>2. CASE i = m + 1
      <4>1. InBlock(c, nxt2, o, n)
        BY <1>4 DEF InBlock, n
      <4> QED BY <1>1, <1>5, <3>2, <4>1
    <3> QED BY <1>6, <3>1, <3>2
  <2>3. ASSUME NEW i \in 1..(m + 1), NEW j \in 1..(m + 1), i < j
        PROVE  \/ objs2[i].id # objs2[j].id
               \/ objs2[i].off + objs2[i].len <= objs2[j].off
    <3>1. i \in 1..m
      BY <1>3, <2>3
    <3>2. CASE j \in 1..m
      BY <1>5, <2>3, <3>1, <3>2 DEF StackHolds, ObjectsOK, m
    <3>3. CASE j = m + 1
      <4>1. PICK k \in 1..Len(c) : InBlock(c, nxt, objs[i], k)
        BY <3>1 DEF StackHolds, ObjectsOK, m
      <4>2. objs[i].id = c[n].id => k = n
        BY <1>1, <4>1 DEF InBlock, n
      <4>3. objs[i].id = c[n].id => objs[i].off + objs[i].len <= nxt
        BY <4>1, <4>2 DEF InBlock, n
      <4> QED BY <1>4, <1>5, <3>1, <3>3, <4>3
    <3> QED BY <1>6, <3>2, <3>3
  <2> QED BY <1>5, <2>1, <2>2, <2>3 DEF ObjectsOK, ObjectType
<1>8. ASSUME NEW a \in 1..Len(mks) PROVE MarkOK(c, nxt2, objs2, mks[a])
  <2>1. MarkOK(c, nxt2, objs, mks[a]) /\ MarkOK(c, nxt, objs, mks[a])
    BY <1>2 DEF StackHolds, MarksOK
  <2>2. mks[a].objects \in Nat /\ mks[a].objects <= m
    BY <1>3, <2>1 DEF MarkOK, MarkType, m
  <2>3. ObjectSince(mks[a], o)
    <3>1. PICK k \in 1..Len(c) : MarksBlock(c, nxt, mks[a], k)
      BY <2>1 DEF MarkOK
    <3>2. o.id = mks[a].id => k = n
      BY <1>1, <1>4, <3>1 DEF MarksBlock, n
    <3> QED BY <1>4, <3>1, <3>2 DEF MarksBlock, ObjectSince, n
  <2>4. ASSUME NEW i \in 1..Len(objs2)
        PROVE  IF i <= mks[a].objects THEN ObjectBefore(c, mks[a], objs2[i])
               ELSE ObjectSince(mks[a], objs2[i])
    <3>1. CASE i \in 1..m
      BY <1>5, <2>1, <3>1 DEF MarkOK, m
    <3>2. CASE i = m + 1
      <4>1. ~(i <= mks[a].objects)
        BY <1>3, <2>2, <3>2
      <4> QED BY <1>5, <2>3, <3>2, <4>1
    <3> QED BY <1>5, <1>6, <3>1, <3>2
  <2>5. mks[a].objects <= Len(objs2)
    BY <1>3, <1>5, <2>2
  <2> QED BY <2>1, <2>4, <2>5 DEF MarkOK
<1>9. MarksOK(c, nxt2, objs2, mks)
  BY <1>2, <1>8 DEF StackHolds, MarksOK
<1> QED BY <1>7, <1>9 DEF StackHolds, objs2, o, n

\* A new mark, once what it grabs is taken.
LEMMA MarkAdded ==
  ASSUME NEW c, ChainOK(c), NEW nxt \in Nat, NEW left \in Nat, Aligned(nxt), Aligned(left),
         nxt + left = c[Len(c)].size,
         NEW objs, NEW mks, StackHolds(c, nxt, objs, mks),
         NEW kept \in Nat, kept <= left,
         NEW nxt2 \in Nat, nxt <= nxt2, c[Len(c)].id # 0 => nxt2 >= 1
  PROVE  StackHolds(c, nxt2, objs,
                    Append(mks, [id |-> c[Len(c)].id, nxt |-> nxt, left |-> left,
                                 objects |-> Len(objs), string |-> kept]))
<1> DEFINE n    == Len(c)
           m    == [id |-> c[n].id, nxt |-> nxt, left |-> left,
                    objects |-> Len(objs), string |-> kept]
           mks2 == Append(mks, m)
           r    == Len(mks)
<1>1. /\ n \in 1..Len(c) /\ c[n].id \in Ids \cup {0} /\ n \in Nat
      /\ \A j, k \in 1..n : c[j].id = c[k].id => j = k
  BY Blocks
<1>2. StackHolds(c, nxt2, objs, mks)
  BY Raised
<1>3. /\ mks \in Seq(MarkType) /\ r \in Nat /\ Len(objs) \in Nat
      /\ \A a \in 1..r : mks[a] \in MarkType
      /\ \A i \in 1..Len(objs) : objs[i] \in ObjectType
  BY OnStackTypes
<1>4. /\ m \in MarkType /\ m.id = c[n].id /\ m.nxt = nxt /\ m.left = left
      /\ m.objects = Len(objs) /\ m.string = kept
  BY <1>1, <1>3 DEF MarkType
<1> HIDE DEF m, n
<1>5. /\ mks2 \in Seq(MarkType) /\ Len(mks2) = r + 1
      /\ \A a \in 1..r : mks2[a] = mks[a]
      /\ mks2[r + 1] = m
  BY <1>3, <1>4, AppendProperties
<1> HIDE DEF mks2, r
<1>6. \A a \in 1..(r + 1) : a \in 1..r \/ a = r + 1
  BY <1>3
<1>7. MarkOK(c, nxt2, objs, m)
  <2>1. MarksBlock(c, nxt2, m, n)
    BY <1>4 DEF MarksBlock, n
  <2>2. ASSUME NEW i \in 1..Len(objs) PROVE ObjectBefore(c, m, objs[i])
    <3>1. PICK k \in 1..Len(c) : InBlock(c, nxt, objs[i], k)
      BY DEF StackHolds, ObjectsOK
    <3>2. objs[i].id = m.id => k = n
      BY <1>1, <1>4, <3>1 DEF InBlock, n
    <3>3. \A j, q \in 1..Len(c) : c[j].id = objs[i].id /\ c[q].id = m.id => j <= q
      BY <1>1, <1>4 DEF n
    <3> QED BY <1>4, <3>1, <3>2, <3>3 DEF InBlock, ObjectBefore, n
  <2>3. \A i \in 1..Len(objs) : i <= m.objects
    BY <1>3, <1>4
  <2>4. m.objects <= Len(objs) /\ m.string <= m.left /\ Aligned(m.nxt) /\ Aligned(m.left)
    BY <1>3, <1>4
  <2> QED BY <1>1, <2>1, <2>2, <2>3, <2>4 DEF MarkOK
<1>8. ASSUME NEW a \in 1..r PROVE MarkBefore(c, mks[a], m)
  <2>1. MarkOK(c, nxt, objs, mks[a])
    BY DEF StackHolds, MarksOK, r
  <2>2. PICK k \in 1..Len(c) : MarksBlock(c, nxt, mks[a], k)
    BY <2>1 DEF MarkOK
  <2>3. mks[a].id = m.id => k = n
    BY <1>1, <1>4, <2>2 DEF MarksBlock, n
  <2>4. \A j, q \in 1..Len(c) : c[j].id = mks[a].id /\ c[q].id = m.id => j <= q
    BY <1>1, <1>4 DEF n
  <2> QED BY <1>4, <2>1, <2>2, <2>3, <2>4 DEF MarkOK, MarksBlock, MarkBefore, n
<1>9. \A a \in 1..(r + 1) : MarkOK(c, nxt2, objs, mks2[a])
  BY <1>2, <1>5, <1>6, <1>7 DEF StackHolds, MarksOK, r
<1>10. ASSUME NEW a \in 1..(r + 1), NEW b \in 1..(r + 1), a < b
       PROVE  MarkBefore(c, mks2[a], mks2[b])
  <2>1. a \in 1..r
    BY <1>3, <1>10
  <2>2. CASE b \in 1..r
    BY <1>5, <1>10, <2>1, <2>2 DEF StackHolds, MarksOK, r
  <2>3. CASE b = r + 1
    BY <1>5, <1>8, <2>1, <2>3
  <2> QED BY <1>6, <2>2, <2>3
<1>11. MarksOK(c, nxt2, objs, mks2)
  BY <1>5, <1>9, <1>10 DEF MarksOK, MarkType
<1> QED BY <1>2, <1>11 DEF StackHolds, mks2, m, n


-----------------------------------------------------------------------------
(* The calls of memalloc.c. *)

LEMMA FreshOK ==
  ASSUME ChainOK(chain), NEW id \in Fresh
  PROVE  id \in Ids /\ id # 0 /\ \A k \in 1..Len(chain) : chain[k].id # id
<1> DEFINE free == Ids \ {chain[k].id : k \in DOMAIN chain}
<1>1. Ids \subseteq Nat \ {0}
  BY StackAssumption
<1>2. free # {} /\ id = Min(free)
  BY DEF Fresh
<1>3. free \in SUBSET Nat
  BY <1>1
<1>4. \E x \in free : \A y \in free : x <= y
  <2> HIDE DEF free
  <2> QED BY <1>2, <1>3, LeastElement
<1>5. id \in free
  <2>1. id = CHOOSE x \in free : \A y \in free : x =< y
    BY <1>2 DEF Min
  <2> HIDE DEF free
  <2> QED BY <1>4, <2>1
<1>6. DOMAIN chain = 1..Len(chain)
  <2>1. chain \in Seq([id : Ids \cup {0}, size : Nat \ {0}])
    BY DEF ChainOK
  <2> QED BY <2>1, LenProperties
<1> QED BY <1>1, <1>5, <1>6

LEMMA PositionFields ==
  ASSUME NEW p, p = [chain |-> p.chain, nxt |-> p.nxt, left |-> p.left, end |-> p.end],
         NEW x, NEW y
  PROVE  [p EXCEPT !.nxt = x, !.left = y]
         = [chain |-> p.chain, nxt |-> x, left |-> y, end |-> p.end]
<1>1. ASSUME NEW c, NEW n, NEW l, NEW e
      PROVE  [[chain |-> c, nxt |-> n, left |-> l, end |-> e] EXCEPT !.nxt = x]
             = [chain |-> c, nxt |-> x, left |-> l, end |-> e]
  OBVIOUS
<1>2. ASSUME NEW c, NEW n, NEW l, NEW e
      PROVE  [[chain |-> c, nxt |-> n, left |-> l, end |-> e] EXCEPT !.left = y]
             = [chain |-> c, nxt |-> n, left |-> y, end |-> e]
  OBVIOUS
<1> DEFINE u == [p EXCEPT !.nxt = x]
<1>3. u = [chain |-> p.chain, nxt |-> x, left |-> p.left, end |-> p.end]
  BY <1>1
<1>4. [p EXCEPT !.nxt = x, !.left = y] = [u EXCEPT !.left = y]
  OBVIOUS
<1> HIDE DEF u
<1>5. /\ u = [chain |-> u.chain, nxt |-> u.nxt, left |-> u.left, end |-> u.end]
      /\ u.chain = p.chain /\ u.nxt = x /\ u.end = p.end
  BY <1>3
<1>6. [u EXCEPT !.left = y] = [chain |-> u.chain, nxt |-> u.nxt, left |-> y, end |-> u.end]
  BY <1>2, <1>5
<1>7. [u EXCEPT !.left = y] = [chain |-> p.chain, nxt |-> x, left |-> y, end |-> p.end]
  BY <1>5, <1>6
<1> QED BY <1>4, <1>7

\* Where stalloc finds its space, and what is then free: in the last block or
\* in a new one.
SpaceTaken(new, nbytes) ==
  LET p == new.pos
      a == SHELL_ALIGN(nbytes)
  IN /\ p = [chain |-> p.chain, nxt |-> p.nxt, left |-> p.left, end |-> p.end]
     /\ ChainOK(p.chain) /\ SpaceOK(p.chain, p.nxt, p.left, p.end)
     /\ StackHolds(p.chain, new.at.off, objects, marks)
     /\ new.at.id = p.chain[Len(p.chain)].id
     /\ new.at.off \in Nat /\ Aligned(new.at.off) /\ p.nxt = new.at.off + a
     /\ \/ p.chain = chain /\ new.at.off = stacknxt /\ a <= stacknleft
        \/ /\ new.at.off = 0 /\ stacknleft < a
           /\ \E id \in Ids, size \in Nat \ {0} :
                /\ \A k \in 1..Len(chain) : chain[k].id # id
                /\ Aligned(size)
                /\ p.chain = Append(chain, [id |-> id, size |-> size])

LEMMA StallocOK ==
  ASSUME ChainOK(chain), SpaceOK(chain, stacknxt, stacknleft, sstrend),
         StackHolds(chain, stacknxt, objects, marks),
         NEW n \in Nat, NEW new \in Stalloc(Position, n)
  PROVE  SpaceTaken(new, n)
<1> DEFINE a    == SHELL_ALIGN(n)
           bs   == BlockSize(a)
           p    == new.pos
           from(c, nxt, left, end) ==
             [pos |-> [chain |-> c, nxt |-> nxt + a, left |-> left - a, end |-> end],
              at  |-> [id |-> Last(c).id, off |-> nxt]]
           fresh(id) == Append(chain, [id |-> id, size |-> bs])
<1>1. a \in Nat /\ Aligned(a) /\ bs \in Nat \ {0} /\ a <= bs /\ Aligned(bs)
  BY ShellAligns, BlockSizeOK
<1>2. IF a <= stacknleft THEN new = from(chain, stacknxt, stacknleft, sstrend)
      ELSE \E id \in Fresh : new = from(fresh(id), 0, bs, bs)
  <2> DEFINE up(q) == [pos |-> [q EXCEPT !.nxt = @ + a, !.left = @ - a],
                       at  |-> [id |-> Last(q.chain).id, off |-> q.nxt]]
             at(c, nxt, left, end) == [chain |-> c, nxt |-> nxt, left |-> left, end |-> end]
  <2>1. ASSUME NEW c, NEW nxt, NEW left, NEW end
        PROVE  up(at(c, nxt, left, end)) = from(c, nxt, left, end)
    <3> HIDE DEF a
    <3>1. [at(c, nxt, left, end) EXCEPT !.nxt = @ + a, !.left = @ - a]
            = at(c, nxt + a, left - a, end)
      <4> DEFINE q == at(c, nxt, left, end)
      <4>1. q = [chain |-> q.chain, nxt |-> q.nxt, left |-> q.left, end |-> q.end]
        OBVIOUS
      <4>2. q.chain = c /\ q.nxt = nxt /\ q.left = left /\ q.end = end
        OBVIOUS
      <4> HIDE DEF q
      <4>3. [q EXCEPT !.nxt = @ + a, !.left = @ - a] = at(c, nxt + a, left - a, end)
        <5> DEFINE x == q.nxt + a
                   y == q.left - a
        <5>1. x = nxt + a /\ y = left - a
          BY <4>2
        <5> HIDE DEF x, y
        <5>2. [q EXCEPT !.nxt = x, !.left = y] = at(c, x, y, end)
          <6>1. [q EXCEPT !.nxt = x, !.left = y]
                = [chain |-> q.chain, nxt |-> x, left |-> y, end |-> q.end]
            BY <4>1, PositionFields
          <6> QED BY <4>2, <6>1
        <5> QED BY <5>1, <5>2 DEF x, y
      <4> QED BY <4>3 DEF q
    <3>2. at(c, nxt, left, end).chain = c /\ at(c, nxt, left, end).nxt = nxt
      OBVIOUS
    <3> HIDE DEF at
    <3>3. up(at(c, nxt, left, end)) = [pos |-> at(c, nxt + a, left - a, end),
                                       at  |-> [id |-> Last(c).id, off |-> nxt]]
      BY <3>1, <3>2
    <3> QED BY <3>3 DEF at
  <2>2. Position = at(chain, stacknxt, stacknleft, sstrend) /\ Position.left = stacknleft
    BY DEF Position
  <2>3. Stalloc(Position, n) = IF a <= Position.left THEN {up(Position)}
                               ELSE {up(at(Append(Position.chain, [id |-> id, size |-> bs]),
                                           0, bs, bs)) : id \in Fresh}
    BY DEF Stalloc
  <2>4. Position.chain = chain
    BY DEF Position
  <2> HIDE DEF up, at, a, bs, from
  <2>5. IF a <= stacknleft THEN new = up(at(chain, stacknxt, stacknleft, sstrend))
        ELSE \E id \in Fresh : new = up(at(fresh(id), 0, bs, bs))
    BY <2>2, <2>3, <2>4
  <2> QED BY <2>1, <2>5
<1> HIDE DEF a, bs
<1>3. /\ stacknxt \in Nat /\ stacknleft \in Nat /\ Aligned(stacknxt) /\ Aligned(stacknleft)
      /\ stacknxt + stacknleft = sstrend /\ sstrend = chain[Len(chain)].size
  BY DEF SpaceOK
<1>4. CASE a <= stacknleft
  <2>0. p = [chain |-> p.chain, nxt |-> p.nxt, left |-> p.left, end |-> p.end]
    BY <1>2, <1>4
  <2>1. /\ p.chain = chain /\ p.nxt = stacknxt + a /\ p.left = stacknleft - a
        /\ p.end = sstrend /\ new.at.id = chain[Len(chain)].id /\ new.at.off = stacknxt
    BY <1>2, <1>4 DEF Last
  <2>2. Aligned(stacknxt + a) /\ Aligned(stacknleft - a)
    BY <1>1, <1>3, <1>4, AlignedSum
  <2>3. /\ stacknxt + a \in Nat /\ stacknleft - a \in Nat
        /\ (stacknxt + a) + (stacknleft - a) = sstrend
    BY <1>1, <1>3, <1>4
  <2>4. SpaceOK(p.chain, p.nxt, p.left, p.end)
    BY <1>3, <2>1, <2>2, <2>3 DEF SpaceOK
  <2> QED BY <1>3, <1>4, <2>0, <2>1, <2>4 DEF SpaceTaken, a
<1>5. CASE ~(a <= stacknleft)
  <2>1. PICK id \in Fresh : new = from(fresh(id), 0, bs, bs)
    BY <1>2, <1>5
  <2>2. id \in Ids /\ \A k \in 1..Len(chain) : chain[k].id # id
    BY FreshOK
  <2> DEFINE c2 == fresh(id)
  <2>3. /\ ChainOK(c2) /\ StackHolds(c2, 0, objects, marks)
        /\ c2[Len(c2)] = [id |-> id, size |-> bs]
    BY <1>1, <2>2, BlockAdded
  <2>4. c2 = Append(chain, [id |-> id, size |-> bs])
    OBVIOUS
  <2> HIDE DEF c2
  <2>50. p = [chain |-> p.chain, nxt |-> p.nxt, left |-> p.left, end |-> p.end]
    BY <2>1
  <2>5. /\ p.chain = c2 /\ p.nxt = a /\ p.left = bs - a /\ p.end = bs
        /\ new.at.id = c2[Len(c2)].id /\ new.at.off = 0
    BY <1>1, <2>1 DEF Last, c2
  <2>6. Aligned(bs - a) /\ bs - a \in Nat /\ a + (bs - a) = bs /\ 0 + a = a
    BY <1>1, AlignedSum
  <2>7. c2[Len(c2)].size = bs
    BY <2>3
  <2>8. SpaceOK(p.chain, p.nxt, p.left, p.end)
    BY <1>1, <2>5, <2>6, <2>7 DEF SpaceOK
  <2>9. stacknleft < a /\ Aligned(0)
    BY <1>1, <1>3, <1>5, SizesAligned
  <2> QED BY <1>1, <2>2, <2>3, <2>4, <2>5, <2>50, <2>6, <2>8, <2>9 DEF SpaceTaken, a
<1> QED BY <1>4, <1>5

\* growstackblock: more space, and the string is still in it.
LEMMA GrownOK ==
  ASSUME StackInv, NEW min \in Nat, NEW new \in Grown(min)
  PROVE  LET p == new.pos IN
         /\ ChainOK(p.chain) /\ SpaceOK(p.chain, p.nxt, p.left, p.end)
         /\ StackHolds(p.chain, p.nxt, objects, marks)
         /\ stacknleft < p.left /\ stacknleft <= new.copied
<1> DEFINE n == NewLength(min)
           p == new.pos
<1>1. /\ ChainOK(chain) /\ SpaceOK(chain, stacknxt, stacknleft, sstrend)
      /\ StackHolds(chain, stacknxt, objects, marks)
  BY DEF StackInv
<1>2. /\ stacknxt \in Nat /\ stacknleft \in Nat /\ Aligned(stacknleft)
      /\ stacknxt + stacknleft = sstrend /\ sstrend = chain[Len(chain)].size
  BY <1>1 DEF SpaceOK
<1>3. n \in Nat \ {0} /\ stacknleft < n /\ Aligned(n)
  BY <1>2, NewLengthOK
<1> HIDE DEF n
<1>4. CASE BlockIsEmpty
  <2>1. stacknxt = 0 /\ chain[Len(chain)].id # 0
    BY <1>4 DEF BlockIsEmpty, stackp, Last
  <2>2. PICK id \in Fresh \cup {stackp.id} :
          new = [pos |-> [chain |-> Append(Front(chain), [id |-> id, size |-> n]),
                          nxt |-> 0, left |-> n, end |-> n],
                 copied |-> stackp.size]
    BY <1>4 DEF Grown, n
  <2>3. id \in Ids /\ \A k \in 1..(Len(chain) - 1) : chain[k].id # id
    <3>1. Len(chain) \in Nat /\ Len(chain) \in 1..Len(chain)
      BY <1>1, Blocks
    <3>2. \A k \in 1..(Len(chain) - 1) : k \in 1..Len(chain) /\ k # Len(chain)
      BY <3>1
    <3>3. CASE id \in Fresh
      BY <1>1, <3>2, <3>3, FreshOK
    <3>4. CASE id = stackp.id
      <4>1. id = chain[Len(chain)].id
        BY <3>4 DEF stackp, Last
      <4> QED BY <1>1, <2>1, <3>1, <3>2, <4>1, Blocks
    <3> QED BY <3>3, <3>4
  <2> DEFINE c2 == Append(Front(chain), [id |-> id, size |-> n])
  <2>4. /\ ChainOK(c2) /\ StackHolds(c2, 0, objects, marks)
        /\ c2[Len(c2)] = [id |-> id, size |-> n]
    BY <1>1, <1>3, <2>1, <2>3, BlockReplaced
  <2>5. /\ p.chain = c2 /\ p.nxt = 0 /\ p.left = n /\ p.end = n
        /\ new.copied = stackp.size
    BY <2>2
  <2> HIDE DEF c2
  <2>6. stackp.size = chain[Len(chain)].size
    BY DEF stackp, Last
  <2>7. c2[Len(c2)].size = n
    BY <2>4
  <2>8. SpaceOK(p.chain, p.nxt, p.left, p.end)
    BY <1>3, <2>5, <2>7, SizesAligned DEF SpaceOK
  <2>9. stacknleft <= stackp.size
    BY <1>2, <2>1, <2>6
  <2> QED BY <1>3, <2>4, <2>5, <2>8, <2>9
<1>5. CASE ~BlockIsEmpty
  <2>1. PICK s \in Stalloc(Position, n) :
          new = [pos |-> [s.pos EXCEPT !.nxt = s.at.off, !.left = LeftAgain(@, n)],
                 copied |-> stacknleft]
    BY <1>5 DEF Grown, n
  <2>2. SpaceTaken(s, n) /\ SHELL_ALIGN(n) = n
    BY <1>1, <1>3, StallocOK, ShellAligns
  <2> DEFINE q == s.pos
  <2>3. q = [chain |-> q.chain, nxt |-> q.nxt, left |-> q.left, end |-> q.end]
    BY <2>2 DEF SpaceTaken
  <2>4. new.copied = stacknleft /\ p = [q EXCEPT !.nxt = s.at.off, !.left = LeftAgain(@, n)]
    BY <2>1
  <2> HIDE DEF q, p
  <2>5. /\ p.chain = q.chain /\ p.nxt = s.at.off /\ p.left = q.left + n /\ p.end = q.end
    <3>1. p = [chain |-> q.chain, nxt |-> s.at.off, left |-> q.left + n, end |-> q.end]
      BY <2>3, <2>4, PositionFields DEF LeftAgain
    <3> QED BY <3>1
  <2>6. /\ ChainOK(q.chain) /\ SpaceOK(q.chain, q.nxt, q.left, q.end)
        /\ StackHolds(q.chain, s.at.off, objects, marks)
        /\ s.at.off = 0 /\ q.nxt = s.at.off + n
    BY <1>2, <1>3, <2>2 DEF SpaceTaken, q
  <2>7. /\ q.nxt = n /\ q.left \in Nat /\ q.nxt + q.left = q.end /\ Aligned(q.left)
        /\ q.end = q.chain[Len(q.chain)].size
    BY <1>3, <2>6 DEF SpaceOK
  <2>8. /\ q.left + n \in Nat /\ 0 + (q.left + n) = q.end /\ Aligned(q.left + n)
        /\ stacknleft < q.left + n
    <3>1. Aligned(q.left + n)
      BY <1>3, <2>7, AlignedSum
    <3> QED BY <1>2, <1>3, <2>7, <3>1
  <2>9. SpaceOK(p.chain, p.nxt, p.left, p.end)
    BY <2>5, <2>6, <2>7, <2>8, SizesAligned DEF SpaceOK
  <2>10. stacknleft <= new.copied
    BY <1>2, <2>4
  <2> QED BY <2>5, <2>6, <2>8, <2>9, <2>10 DEF p
<1> QED BY <1>4, <1>5


\* What a call leaves behind: the position it came to, and the string.
LEMMA Arrived ==
  ASSUME NEW p, Become(p), ChainOK(p.chain), SpaceOK(p.chain, p.nxt, p.left, p.end),
         StackHolds(p.chain, p.nxt, objects', marks'),
         string' \in Nat, intact' = string', string' <= p.left
  PROVE  StackInv'
<1>1. chain' = p.chain /\ stacknxt' = p.nxt /\ stacknleft' = p.left /\ sstrend' = p.end
  BY DEF Become
<1> QED BY <1>1 DEF StackInv

LEMMA ArrivedWithout ==
  ASSUME NEW p, Become(p), ChainOK(p.chain), SpaceOK(p.chain, p.nxt, p.left, p.end),
         StackHolds(p.chain, p.nxt, objects', marks'), NoString
  PROVE  StackInv'
<1>1. string' \in Nat /\ intact' = string' /\ string' <= p.left
  BY DEF NoString, SpaceOK
<1> QED BY <1>1, Arrived

LEMMA stallocKeeps ==
  ASSUME StackInv, NEW n \in Nat \ {0}, stalloc(n)
  PROVE  StackInv'
<1> DEFINE a == SHELL_ALIGN(n)
<1>1. PICK new \in Stalloc(Position, n) :
        /\ Become(new.pos)
        /\ objects' = Append(objects, [id |-> new.at.id, off |-> new.at.off, len |-> a])
  BY DEF stalloc
<1>2. NoString /\ marks' = marks
  BY DEF stalloc
<1>3. SpaceTaken(new, n)
  BY StallocOK DEF StackInv
<1> DEFINE c == new.pos.chain
           o == new.at.off
<1>4. /\ ChainOK(c) /\ SpaceOK(c, new.pos.nxt, new.pos.left, new.pos.end)
      /\ StackHolds(c, o, objects, marks)
      /\ new.at.id = c[Len(c)].id /\ o \in Nat /\ Aligned(o) /\ new.pos.nxt = o + a
  BY <1>3 DEF SpaceTaken
<1>5. a \in Nat \ {0}
  <2>1. a \in Nat /\ n <= a
    BY ShellAligns
  <2> HIDE DEF a
  <2> QED BY <2>1
<1> HIDE DEF a, c, o
<1>6. o + a <= c[Len(c)].size
  BY <1>4, <1>5 DEF SpaceOK
<1>7. StackHolds(c, o + a, Append(objects, [id |-> c[Len(c)].id, off |-> o, len |-> a]), marks)
  BY <1>4, <1>5, <1>6, ObjectAdded
<1>8. StackHolds(c, new.pos.nxt, objects', marks')
  BY <1>1, <1>2, <1>4, <1>7 DEF a, o
<1> QED BY <1>1, <1>2, <1>4, <1>8, ArrivedWithout DEF c

LEMMA stputcKeeps ==
  ASSUME StackInv, stputc
  PROVE  StackInv'
<1>1. /\ ChainOK(chain) /\ SpaceOK(chain, stacknxt, stacknleft, sstrend)
      /\ StackHolds(chain, stacknxt, objects, marks)
      /\ string \in Nat /\ intact = string /\ string <= stacknleft
  BY DEF StackInv
<1>2. stacknxt \in Nat /\ stacknleft \in Nat /\ stacknxt + stacknleft = sstrend
  BY <1>1 DEF SpaceOK
<1>3. string' = string + 1 /\ objects' = objects /\ marks' = marks
  BY DEF stputc
<1>4. CASE stacknxt + string = sstrend
  <2>1. PICK new \in Grown(0) :
          /\ Become(new.pos)
          /\ intact' = (IF intact <= new.copied THEN intact ELSE new.copied) + 1
    BY <1>4 DEF stputc
  <2>2. /\ ChainOK(new.pos.chain)
        /\ SpaceOK(new.pos.chain, new.pos.nxt, new.pos.left, new.pos.end)
        /\ StackHolds(new.pos.chain, new.pos.nxt, objects, marks)
        /\ stacknleft < new.pos.left /\ stacknleft <= new.copied
    BY GrownOK
  <2>3. string = stacknleft
    BY <1>1, <1>2, <1>4
  <2>4. intact' = string + 1
    BY <1>1, <2>1, <2>2, <2>3
  <2>5. new.pos.left \in Nat
    BY <2>2 DEF SpaceOK
  <2>6. string + 1 <= new.pos.left
    BY <1>2, <2>2, <2>3, <2>5
  <2>7. /\ string' \in Nat /\ intact' = string' /\ string' <= new.pos.left
        /\ StackHolds(new.pos.chain, new.pos.nxt, objects', marks')
    BY <1>1, <1>3, <2>2, <2>4, <2>6
  <2> QED BY <2>1, <2>2, <2>7, Arrived
<1>5. CASE stacknxt + string # sstrend
  <2>1. intact' = intact + 1 /\ Become(Position)
    BY <1>5 DEF stputc
  <2>2. /\ Position.chain = chain /\ Position.nxt = stacknxt
        /\ Position.left = stacknleft /\ Position.end = sstrend
    BY DEF Position
  <2>3. string + 1 <= stacknleft
    BY <1>1, <1>2, <1>5
  <2>4. string' \in Nat /\ intact' = string' /\ string' <= Position.left
    BY <1>1, <1>3, <2>1, <2>2, <2>3
  <2> QED BY <1>1, <1>3, <2>1, <2>2, <2>4, Arrived
<1> QED BY <1>4, <1>5

LEMMA growstacktoKeeps ==
  ASSUME StackInv, NEW len \in Nat, growstackto(len)
  PROVE  StackInv'
<1>1. PICK new \in Grown(len) : Become(new.pos)
  BY DEF growstackto
<1>2. NoString /\ objects' = objects /\ marks' = marks
  BY DEF growstackto
<1>3. /\ ChainOK(new.pos.chain)
      /\ SpaceOK(new.pos.chain, new.pos.nxt, new.pos.left, new.pos.end)
      /\ StackHolds(new.pos.chain, new.pos.nxt, objects, marks)
  BY GrownOK
<1> QED BY <1>1, <1>2, <1>3, ArrivedWithout

\* A mark in a block that is empty and may be moved has to take some of it.
LEMMA pushstackmarkKeeps ==
  ASSUME StackInv, NEW len \in Nat, NEW kept \in Nat, kept <= stacknleft,
         chain[Len(chain)].id # 0 /\ stacknxt = 0 => len >= 1, pushstackmark(len, kept)
  PROVE  StackInv'
<1> DEFINE a    == SHELL_ALIGN(len)
           n    == Len(chain)
           mks2 == Append(marks, [id |-> chain[n].id, nxt |-> stacknxt, left |-> stacknleft,
                                  objects |-> Len(objects), string |-> kept])
<1>1. /\ ChainOK(chain) /\ SpaceOK(chain, stacknxt, stacknleft, sstrend)
      /\ StackHolds(chain, stacknxt, objects, marks)
  BY DEF StackInv
<1>2. /\ stacknxt \in Nat /\ stacknleft \in Nat /\ Aligned(stacknxt) /\ Aligned(stacknleft)
      /\ stacknxt + stacknleft = chain[n].size
  BY <1>1 DEF SpaceOK
<1>3. marks' = mks2 /\ NoString /\ objects' = objects
  BY DEF pushstackmark, stackp, Last
<1>4. PICK new \in Stalloc(Position, len) : Become(new.pos)
  BY DEF pushstackmark
<1>5. SpaceTaken(new, len)
  BY <1>1, StallocOK
<1> DEFINE p == new.pos
<1>6. /\ ChainOK(p.chain) /\ SpaceOK(p.chain, p.nxt, p.left, p.end)
      /\ p.nxt = new.at.off + a
      /\ \/ p.chain = chain /\ new.at.off = stacknxt
         \/ \E id \in Ids, size \in Nat \ {0} :
              /\ \A k \in 1..Len(chain) : chain[k].id # id
              /\ Aligned(size)
              /\ p.chain = Append(chain, [id |-> id, size |-> size])
  BY <1>5 DEF SpaceTaken
<1>7. a \in Nat /\ len <= a
  BY ShellAligns
<1> HIDE DEF a, p
<1>8. ASSUME NEW nxt2 \in Nat, stacknxt <= nxt2, chain[n].id # 0 => nxt2 >= 1
      PROVE  StackHolds(chain, nxt2, objects, mks2)
  BY <1>1, <1>2, <1>8, MarkAdded
<1>9. CASE p.chain = chain /\ new.at.off = stacknxt
  <2>1. stacknxt + a \in Nat /\ stacknxt <= stacknxt + a
        /\ (chain[n].id # 0 => stacknxt + a >= 1)
    BY <1>2, <1>7
  <2>2. StackHolds(chain, stacknxt + a, objects, mks2)
    BY <1>8, <2>1
  <2> HIDE DEF mks2
  <2>3. StackHolds(p.chain, p.nxt, objects', marks')
    BY <1>3, <1>6, <1>9, <2>2
  <2> QED BY <1>3, <1>4, <1>6, <2>3, ArrivedWithout DEF p
<1>10. CASE \E id \in Ids, size \in Nat \ {0} :
              /\ \A k \in 1..Len(chain) : chain[k].id # id
              /\ Aligned(size)
              /\ p.chain = Append(chain, [id |-> id, size |-> size])
  <2>1. PICK id \in Ids, size \in Nat \ {0} :
              /\ \A k \in 1..Len(chain) : chain[k].id # id
              /\ Aligned(size)
              /\ p.chain = Append(chain, [id |-> id, size |-> size])
    BY <1>10
  <2>2. StackHolds(chain, stacknxt + 1, objects, mks2)
    BY <1>2, <1>8
  <2> HIDE DEF mks2
  <2>3. StackHolds(p.chain, p.nxt, objects, mks2)
    BY <1>1, <2>1, <2>2, BlockAdded
  <2>4. StackHolds(p.chain, p.nxt, objects', marks')
    BY <1>3, <2>3
  <2> QED BY <1>3, <1>4, <1>6, <2>4, ArrivedWithout DEF p
<1> QED BY <1>6, <1>9, <1>10

LEMMA MarksKeep ==
  ASSUME StackInv
  PROVE  /\ setstackmark => StackInv'
         /\ \A len \in Nat : pushstackmark_string(len) => StackInv'
         /\ pushstackmark_rest => StackInv'
<1> DEFINE n == Len(chain)
<1>1. /\ stacknxt \in Nat /\ stacknleft \in Nat /\ stacknxt + stacknleft = chain[n].size
      /\ string \in Nat /\ string <= stacknleft
  BY DEF StackInv, SpaceOK
<1>2. BlockIsEmpty <=> stacknxt = 0 /\ chain[n].id # 0
  BY DEF BlockIsEmpty, stackp, Last
<1>3. chain[n].size >= 1
  <2>1. ChainOK(chain)
    BY DEF StackInv
  <2> QED BY <2>1, Blocks
<1>4. ASSUME setstackmark PROVE StackInv'
  <2>1. pushstackmark(GrabWhenEmpty, 0)
    BY <1>4 DEF setstackmark
  <2>2. GrabWhenEmpty \in Nat /\ (BlockIsEmpty => GrabWhenEmpty >= 1)
    BY DEF GrabWhenEmpty
  <2> QED BY <1>1, <1>2, <2>1, <2>2, pushstackmarkKeeps
<1>5. ASSUME NEW len \in Nat, pushstackmark_string(len) PROVE StackInv'
  <2>1. pushstackmark(len, len) /\ len = string /\ (len = 0 => ~BlockIsEmpty)
    BY <1>5 DEF pushstackmark_string
  <2> QED BY <1>1, <1>2, <2>1, pushstackmarkKeeps
<1>6. ASSUME pushstackmark_rest PROVE StackInv'
  <2>1. pushstackmark(stacknleft, string)
    BY <1>6 DEF pushstackmark_rest
  <2>2. stacknxt = 0 => stacknleft >= 1
    BY <1>1, <1>3
  <2> QED BY <1>1, <2>1, <2>2, pushstackmarkKeeps
<1> QED BY <1>4, <1>5, <1>6

LEMMA stunallocKeeps ==
  ASSUME StackInv, stunalloc
  PROVE  StackInv'
<1> DEFINE n    == Len(chain)
           m    == Len(objects)
           r    == Len(marks)
           o    == objects[m]
           off  == o.off
           objs == SubSeq(objects, 1, m - 1)
           mks  == SubSeq(marks, 1, r)
           left == stacknleft + (stacknxt - off)
<1>1. /\ ChainOK(chain) /\ SpaceOK(chain, stacknxt, stacknleft, sstrend)
      /\ StackHolds(chain, stacknxt, objects, marks)
  BY DEF StackInv
<1>2. /\ objects \in Seq(ObjectType) /\ m \in Nat
      /\ \A i \in 1..m : objects[i] \in ObjectType
      /\ marks \in Seq(MarkType) /\ r \in Nat
      /\ \A a \in 1..r : marks[a] \in MarkType
  BY <1>1, OnStackTypes
<1>3. /\ n \in Nat /\ n \in 1..n
      /\ \A j, k \in 1..n : chain[j].id = chain[k].id => j = k
  BY <1>1, Blocks
<1>4. /\ objects # <<>> /\ o.id = chain[n].id
      /\ marks # <<>> => m > marks[r].objects
      /\ stacknleft' = left /\ stacknxt' = off /\ chain' = chain /\ sstrend' = sstrend
      /\ objects' = objs /\ marks' = marks /\ NoString
  BY DEF stunalloc, stackp, Last, Front
<1>5. m >= 1
  BY <1>2, <1>4, EmptySeq
<1>6. m \in 1..m /\ off \in Nat /\ o.len \in Nat \ {0} /\ Aligned(off)
  BY <1>1, <1>2, <1>5 DEF ObjectType, StackHolds, ObjectsOK
<1>7. off <= stacknxt
  <2>1. PICK k \in 1..n : InBlock(chain, stacknxt, o, k)
    BY <1>1, <1>6 DEF StackHolds, ObjectsOK
  <2>2. k = n
    BY <1>3, <1>4, <2>1 DEF InBlock
  <2>3. off + o.len <= stacknxt
    BY <2>1, <2>2 DEF InBlock
  <2> QED BY <1>1, <1>6, <2>3 DEF SpaceOK
<1>8. \A a \in 1..r : marks[a].objects <= m - 1
  <2> SUFFICES ASSUME NEW a \in 1..r PROVE marks[a].objects <= m - 1
    OBVIOUS
  <2>1. r \in 1..r /\ marks # <<>>
    BY <1>2, EmptySeq
  <2>2. marks[a].objects \in Nat /\ marks[r].objects \in Nat /\ m > marks[r].objects
    BY <1>2, <1>4, <2>1 DEF MarkType
  <2>3. a < r => marks[a].objects <= marks[r].objects
    BY <1>1, <2>1 DEF StackHolds, MarksOK, MarkBefore
  <2>4. a < r \/ a = r
    BY <1>2
  <2> QED BY <1>2, <2>2, <2>3, <2>4
<1>9. /\ StackHolds(chain, stacknxt, objs, mks)
      /\ Len(objs) = m - 1 /\ \A i \in 1..(m - 1) : objs[i] = objects[i]
      /\ Len(mks) = r /\ \A a \in 1..r : mks[a] = marks[a]
  <2> DEFINE p == m - 1
             q == r
  <2>1. p \in 0..Len(objects) /\ q \in 0..Len(marks) /\ \A a \in 1..q : marks[a].objects <= p
    BY <1>2, <1>5, <1>8
  <2> HIDE DEF p, q
  <2>2. /\ StackHolds(chain, stacknxt, SubSeq(objects, 1, p), SubSeq(marks, 1, q))
        /\ Len(SubSeq(objects, 1, p)) = p
        /\ \A i \in 1..p : SubSeq(objects, 1, p)[i] = objects[i]
        /\ Len(SubSeq(marks, 1, q)) = q
        /\ \A a \in 1..q : SubSeq(marks, 1, q)[a] = marks[a]
    BY <1>1, <2>1, Shortened
  <2> QED BY <2>2 DEF p, q
<1>10. mks = marks
  <2>1. mks \in Seq(MarkType)
    BY <1>9, OnStackTypes
  <2> HIDE DEF mks, r
  <2> QED BY <1>2, <1>9, <2>1, SeqEqual DEF r
<1> HIDE DEF objs, mks, o, off, m, n, r
<1>11. Settled(chain, off, n, objs, marks)
  <2>1. ASSUME NEW i \in 1..(m - 1) PROVE \E k \in 1..n : InBlock(chain, off, objs[i], k)
    <3>1. i \in 1..m /\ i < m
      BY <1>2
    <3>2. PICK k \in 1..n : InBlock(chain, stacknxt, objects[i], k)
      BY <1>1, <3>1 DEF StackHolds, ObjectsOK, n, m
    <3>3. k = n => objects[i].off + objects[i].len <= off
      BY <1>1, <1>4, <1>6, <3>1, <3>2 DEF StackHolds, ObjectsOK, InBlock, n, m, o, off
    <3> QED BY <1>9, <3>2, <3>3 DEF InBlock, n
  <2>2. ASSUME NEW a \in 1..r PROVE \E k \in 1..n : MarksBlock(chain, off, marks[a], k)
    <3>1. MarkOK(chain, stacknxt, objects, marks[a])
      BY <1>1 DEF StackHolds, MarksOK, r
    <3>2. PICK k \in 1..n : MarksBlock(chain, stacknxt, marks[a], k)
      BY <3>1 DEF MarkOK, n
    <3>3. ~(m <= marks[a].objects)
      BY <1>2, <1>8 DEF MarkType
    <3>4. ObjectSince(marks[a], o)
      BY <1>6, <3>1, <3>3 DEF MarkOK, m, o
    <3>5. k = n => o.id = marks[a].id
      BY <1>4, <3>2 DEF MarksBlock
    <3> QED BY <3>2, <3>4, <3>5 DEF MarksBlock, ObjectSince, n, off
  <2> QED BY <1>9, <2>1, <2>2 DEF Settled, r
<1>12. StackHolds(chain, off, objs, marks)
  <2>1. StackHolds(chain, stacknxt, objs, marks) /\ n <= Len(chain)
        /\ \A k \in 1..n : chain[k] = chain[k]
    BY <1>3, <1>9, <1>10 DEF n
  <2> QED BY <1>1, <1>3, <1>11, <2>1, Rechained
<1>13. SpaceOK(chain, off, left, sstrend)
  <2>1. /\ stacknxt \in Nat /\ stacknleft \in Nat /\ Aligned(stacknxt) /\ Aligned(stacknleft)
        /\ stacknxt + stacknleft = sstrend /\ sstrend = chain[Len(chain)].size
    BY <1>1 DEF SpaceOK
  <2>2. stacknxt - off \in Nat /\ Aligned(stacknxt - off)
    BY <1>6, <1>7, <2>1, AlignedSum
  <2>3. Aligned(stacknleft + (stacknxt - off))
    BY <2>1, <2>2, AlignedSum
  <2>4. left \in Nat /\ off + left = sstrend
    BY <1>6, <2>1, <2>2
  <2> QED BY <1>6, <2>1, <2>3, <2>4 DEF SpaceOK
<1> DEFINE p == [chain |-> chain, nxt |-> off, left |-> left, end |-> sstrend]
<1>14. p.chain = chain /\ p.nxt = off /\ p.left = left /\ p.end = sstrend
  OBVIOUS
<1> HIDE DEF p, left
<1>15. Become(p)
  BY <1>4, <1>14 DEF Become
<1> QED BY <1>1, <1>4, <1>12, <1>13, <1>14, <1>15, ArrivedWithout

LEMMA popstackmarkKeeps ==
  ASSUME StackInv, marks # <<>>, popstackmark
  PROVE  StackInv'
<1> DEFINE r    == Len(marks)
           mark == marks[r]
           k    == CHOOSE k \in DOMAIN chain : chain[k].id = mark.id
           c    == SubSeq(chain, 1, k)
           objs == SubSeq(objects, 1, mark.objects)
           mks  == SubSeq(marks, 1, r - 1)
           B    == [id : Ids \cup {0}, size : Nat \ {0}]
<1>1. /\ ChainOK(chain) /\ StackHolds(chain, stacknxt, objects, marks)
  BY DEF StackInv
<1>2. /\ objects \in Seq(ObjectType) /\ Len(objects) \in Nat
      /\ \A i \in 1..Len(objects) : objects[i] \in ObjectType
      /\ marks \in Seq(MarkType) /\ r \in Nat
      /\ \A a \in 1..r : marks[a] \in MarkType
  BY <1>1, OnStackTypes
<1>3. /\ Len(chain) \in Nat /\ chain \in Seq(B) /\ DOMAIN chain = 1..Len(chain)
      /\ \A i, j \in 1..Len(chain) : chain[i].id = chain[j].id => i = j
      /\ \A j \in 1..Len(chain) : chain[j].size \in Nat
  <2>1. chain \in Seq(B)
    BY <1>1 DEF ChainOK
  <2> QED BY <1>1, <2>1, Blocks, LenProperties
<1>4. /\ chain' = c /\ stacknxt' = mark.nxt /\ stacknleft' = mark.left
      /\ sstrend' = mark.nxt + mark.left /\ objects' = objs /\ marks' = mks
      /\ string' = mark.string /\ intact' = mark.string
  BY DEF popstackmark, Last, Front
<1>5. r \in 1..r /\ r >= 1
  BY <1>2, EmptySeq
<1>6. mark \in MarkType /\ MarkOK(chain, stacknxt, objects, mark)
  BY <1>1, <1>2, <1>5 DEF StackHolds, MarksOK
<1> HIDE DEF mark
<1>7. PICK q \in 1..Len(chain) : MarksBlock(chain, stacknxt, mark, q)
  BY <1>6 DEF MarkOK
<1>8. k \in 1..Len(chain) /\ chain[k].id = mark.id /\ MarksBlock(chain, stacknxt, mark, k)
  <2>1. chain[q].id = mark.id
    BY <1>7 DEF MarksBlock
  <2>2. k \in 1..Len(chain) /\ chain[k].id = mark.id
    BY <1>3, <2>1
  <2> HIDE DEF k
  <2>3. k = q
    BY <1>3, <2>1, <2>2
  <2> QED BY <1>7, <2>2, <2>3
<1> HIDE DEF k
<1>9. c \in Seq(B) /\ Len(c) = k /\ \A j \in 1..k : c[j] = chain[j]
  <2> HIDE DEF B
  <2> QED BY <1>3, <1>8, SubSeqProperties
<1>10. k \in Nat /\ k >= 1 /\ k <= Len(chain) /\ \A j \in 1..k : j \in 1..Len(chain)
  BY <1>3, <1>8
<1> HIDE DEF c
<1>11. ChainOK(c)
  <2>1. c[1].id = 0 /\ Len(c) >= 1
    BY <1>1, <1>9, <1>10 DEF ChainOK
  <2>2. \A j \in 1..Len(c) : Aligned(c[j].size)
    BY <1>1, <1>9, <1>10 DEF ChainOK
  <2>3. \A i, j \in 1..Len(c) : c[i].id = c[j].id => i = j
    BY <1>3, <1>9, <1>10
  <2> QED BY <1>9, <2>1, <2>2, <2>3 DEF ChainOK
<1>12. ASSUME NEW a \in 1..(r - 1)
       PROVE  a \in 1..r /\ MarkBefore(chain, marks[a], mark)
  <2>1. a \in 1..r /\ a < r
    BY <1>2
  <2>2. \A b \in 1..r : a < b => MarkBefore(chain, marks[a], marks[b])
    BY <1>1, <2>1 DEF StackHolds, MarksOK
  <2> QED BY <1>5, <2>1, <2>2 DEF mark
<1>13. /\ StackHolds(chain, stacknxt, objs, mks)
       /\ Len(objs) = mark.objects /\ \A i \in 1..mark.objects : objs[i] = objects[i]
       /\ Len(mks) = r - 1 /\ \A a \in 1..(r - 1) : mks[a] = marks[a]
  <2> DEFINE p == mark.objects
             t == r - 1
  <2>1. p \in 0..Len(objects) /\ t \in 0..Len(marks)
    BY <1>2, <1>5, <1>6 DEF MarkOK, MarkType
  <2>2. \A a \in 1..t : marks[a].objects <= p
    BY <1>12 DEF MarkBefore
  <2> HIDE DEF p, t
  <2>3. /\ StackHolds(chain, stacknxt, SubSeq(objects, 1, p), SubSeq(marks, 1, t))
        /\ Len(SubSeq(objects, 1, p)) = p
        /\ \A i \in 1..p : SubSeq(objects, 1, p)[i] = objects[i]
        /\ Len(SubSeq(marks, 1, t)) = t
        /\ \A a \in 1..t : SubSeq(marks, 1, t)[a] = marks[a]
    BY <1>1, <2>1, <2>2, Shortened
  <2> QED BY <2>3 DEF p, t
<1> HIDE DEF objs, mks
<1>14. Settled(c, mark.nxt, k, objs, mks)
  <2>1. ASSUME NEW i \in 1..Len(objs)
        PROVE  \E j \in 1..k : InBlock(c, mark.nxt, objs[i], j)
    <3>1. i \in 1..Len(objects) /\ i <= mark.objects /\ objs[i] = objects[i]
      BY <1>2, <1>6, <1>13 DEF MarkOK, MarkType
    <3>2. ObjectBefore(chain, mark, objects[i])
      BY <1>6, <3>1 DEF MarkOK
    <3>3. PICK j \in 1..Len(chain) : InBlock(chain, stacknxt, objects[i], j)
      BY <1>1, <3>1 DEF StackHolds, ObjectsOK
    <3>4. j <= k
      BY <1>8, <3>2, <3>3 DEF InBlock, ObjectBefore
    <3>5. j \in 1..k
      BY <1>10, <3>4
    <3>6. InBlock(c, mark.nxt, objects[i], j)
      BY <1>8, <1>9, <3>2, <3>3, <3>5 DEF InBlock, ObjectBefore
    <3> QED BY <3>1, <3>5, <3>6
  <2>2. ASSUME NEW a \in 1..Len(mks)
        PROVE  \E j \in 1..k : MarksBlock(c, mark.nxt, mks[a], j)
    <3>1. a \in 1..(r - 1) /\ mks[a] = marks[a]
      BY <1>13
    <3>2. MarkBefore(chain, marks[a], mark) /\ a \in 1..r
      BY <1>12, <3>1
    <3>3. MarkOK(chain, stacknxt, objects, marks[a])
      BY <1>1, <3>2 DEF StackHolds, MarksOK
    <3>4. PICK j \in 1..Len(chain) : MarksBlock(chain, stacknxt, marks[a], j)
      BY <3>3 DEF MarkOK
    <3>5. j <= k
      BY <1>8, <3>2, <3>4 DEF MarksBlock, MarkBefore
    <3>6. j \in 1..k
      BY <1>10, <3>5
    <3>7. MarksBlock(c, mark.nxt, marks[a], j)
      BY <1>8, <1>9, <3>2, <3>4, <3>6 DEF MarksBlock, MarkBefore
    <3> QED BY <3>1, <3>6, <3>7
  <2> QED BY <2>1, <2>2 DEF Settled
<1>15. StackHolds(c, mark.nxt, objs, mks)
  <2>1. k <= Len(c)
    BY <1>9, <1>10
  <2> QED BY <1>1, <1>9, <1>10, <1>11, <1>13, <1>14, <2>1, Rechained
<1>16. /\ mark.nxt \in Nat /\ mark.left \in Nat /\ mark.string \in Nat
       /\ mark.string <= mark.left /\ Aligned(mark.nxt) /\ Aligned(mark.left)
       /\ mark.nxt + mark.left = c[Len(c)].size
  <2>1. k \in 1..k
    BY <1>10
  <2>2. mark.nxt + mark.left = chain[k].size
    BY <1>8 DEF MarksBlock
  <2> QED BY <1>6, <1>9, <2>1, <2>2 DEF MarkOK, MarkType
<1> DEFINE end == mark.nxt + mark.left
<1>17. SpaceOK(c, mark.nxt, mark.left, end)
  BY <1>16 DEF SpaceOK
<1> DEFINE p == [chain |-> c, nxt |-> mark.nxt, left |-> mark.left, end |-> end]
<1>18. p.chain = c /\ p.nxt = mark.nxt /\ p.left = mark.left /\ p.end = end
  OBVIOUS
<1>19. sstrend' = end
  BY <1>4
<1> HIDE DEF p, end
<1>20. Become(p)
  BY <1>4, <1>18, <1>19 DEF Become
<1>21. string' \in Nat /\ intact' = string' /\ string' <= p.left
  BY <1>4, <1>16, <1>18
<1> QED BY <1>4, <1>11, <1>15, <1>17, <1>18, <1>20, <1>21, Arrived

-----------------------------------------------------------------------------
(* The stack as one part of the shell. *)

LEMMA StackInitHolds ==
  ASSUME StackInit
  PROVE  StackInv
<1> DEFINE b == [id |-> 0, size |-> MinSize]
           B == [id : Ids \cup {0}, size : Nat \ {0}]
<1>1. MinSize \in Nat \ {0} /\ Aligned(MinSize) /\ Aligned(0)
  BY SizesAligned
<1>2. /\ chain = <<b>> /\ stacknxt = 0 /\ stacknleft = MinSize /\ sstrend = MinSize
      /\ string = 0 /\ intact = 0 /\ objects = <<>> /\ marks = <<>>
  BY DEF StackInit
<1>3. b \in B /\ b.id = 0 /\ b.size = MinSize
  BY <1>1
<1> HIDE DEF b, B
<1>4. chain \in Seq(B) /\ Len(chain) = 1 /\ chain[1] = b
  BY <1>2, <1>3
<1>5. ChainOK(chain)
  <2>1. \A k \in 1..Len(chain) : k = 1
    BY <1>4
  <2> QED BY <1>1, <1>3, <1>4, <2>1 DEF ChainOK, B
<1>6. SpaceOK(chain, stacknxt, stacknleft, sstrend)
  BY <1>1, <1>2, <1>3, <1>4 DEF SpaceOK
<1>7. /\ objects \in Seq(ObjectType) /\ Len(objects) = 0
      /\ marks \in Seq(MarkType) /\ Len(marks) = 0
  BY <1>2, EmptySeq
<1>8. ObjectsOK(chain, stacknxt, objects)
  BY <1>7 DEF ObjectsOK, ObjectType
<1>9. MarksOK(chain, stacknxt, objects, marks)
  BY <1>7 DEF MarksOK, MarkType
<1>10. string \in Nat /\ intact = string /\ string <= stacknleft
  BY <1>1, <1>2
<1> QED BY <1>5, <1>6, <1>8, <1>9, <1>10 DEF StackInv, StackHolds

LEMMA StackNextKeeps ==
  ASSUME StackInv, StackNext
  PROVE  StackInv'
<1>1. Lengths \subseteq Nat \ {0} /\ MarkLengths \subseteq Nat
  BY StackAssumption
<1>2. ASSUME NEW n \in Lengths, stalloc(n) PROVE StackInv'
  BY <1>1, <1>2, stallocKeeps
<1>3. ASSUME NEW n \in Lengths, growstackto(n) PROVE StackInv'
  BY <1>1, <1>3, growstacktoKeeps
<1>4. CASE grabstackstr
  <2>1. string > 0 /\ stalloc(string)
    BY <1>4 DEF grabstackstr
  <2>2. string \in Nat \ {0}
    BY <2>1 DEF StackInv
  <2> QED BY <2>1, <2>2, stallocKeeps
<1>5. CASE stunalloc
  BY <1>5, stunallocKeeps
<1>6. CASE stputc
  BY <1>6, stputcKeeps
<1>7. CASE setstackmark
  BY <1>7, MarksKeep
<1>8. ASSUME NEW n \in MarkLengths, pushstackmark_string(n) PROVE StackInv'
  BY <1>1, <1>8, MarksKeep
<1>9. CASE pushstackmark_rest
  BY <1>9, MarksKeep
<1>10. CASE marks # <<>> /\ MarkReached(Last(marks)) /\ popstackmark
  BY <1>10, popstackmarkKeeps
<1> QED BY <1>2, <1>3, <1>4, <1>5, <1>6, <1>7, <1>8, <1>9, <1>10 DEF StackNext

\* The other parts of the shell leave the stack alone.
LEMMA ShellNextKeeps ==
  ASSUME StackInv, [ShellNext]_shellVars
  PROVE  StackInv'
<1>1. CASE StackNext
  BY <1>1, StackNextKeeps
<1>2. CASE UNCHANGED stackVars
  BY <1>2 DEF stackVars, StackInv
<1>3. StackNext \/ UNCHANGED stackVars
  BY DEF ShellNext, shellVars, StackStep, VarStep, OptionsStep, CdStep,
         EvalStep
<1> QED BY <1>1, <1>2, <1>3

LEMMA StackInvSound ==
  ASSUME StackInv
  PROVE  StackSound
<1> DEFINE n == Len(chain)
<1>1. /\ ChainOK(chain) /\ SpaceOK(chain, stacknxt, stacknleft, sstrend)
      /\ StackHolds(chain, stacknxt, objects, marks)
      /\ string \in Nat /\ intact = string /\ string <= stacknleft
  BY DEF StackInv
<1>2. n \in Nat /\ DOMAIN chain = 1..n
  <2>1. chain \in Seq([id : Ids \cup {0}, size : Nat \ {0}])
    BY <1>1 DEF ChainOK
  <2> QED BY <2>1, LenProperties
<1>3. /\ DOMAIN objects = 1..Len(objects) /\ DOMAIN marks = 1..Len(marks)
  BY <1>1, OnStackTypes, LenProperties
<1>4. SpaceAgrees
  BY <1>1 DEF SpaceOK, SpaceAgrees, stackp, Last
<1>5. ObjectsStay
  <2>1. ASSUME NEW o \in ToSet(objects)
        PROVE  \E k \in DOMAIN chain : InBlock(chain, stacknxt, o, k)
    <3>1. PICK i \in 1..Len(objects) : o = objects[i]
      BY <1>3 DEF ToSet
    <3> QED BY <1>1, <1>2, <3>1 DEF StackHolds, ObjectsOK
  <2>2. \A i, j \in DOMAIN objects :
          i < j => \/ objects[i].id # objects[j].id
                   \/ objects[i].off + objects[i].len <= objects[j].off
    BY <1>1, <1>3 DEF StackHolds, ObjectsOK
  <2> QED BY <2>1, <2>2 DEF ObjectsStay, InBlock
<1>6. MarksReached
  <2>1. ASSUME NEW mark \in ToSet(marks)
        PROVE  \E k \in DOMAIN chain :
                 chain[k].id = mark.id /\ mark.nxt + mark.left = chain[k].size
    <3>1. PICK a \in 1..Len(marks) : mark = marks[a]
      BY <1>3 DEF ToSet
    <3>2. MarkOK(chain, stacknxt, objects, mark)
      BY <1>1, <3>1 DEF StackHolds, MarksOK
    <3>3. PICK k \in 1..n : MarksBlock(chain, stacknxt, mark, k)
      BY <3>2 DEF MarkOK
    <3> QED BY <1>2, <3>3 DEF MarksBlock
  <2> QED BY <2>1 DEF MarksReached
<1>7. StringWhole
  BY <1>1 DEF SpaceOK, StringWhole
<1> QED BY <1>4, <1>5, <1>6, <1>7 DEF StackSound

\* The invariant the stack is sound by: everything is a multiple of the
\* alignment, blocks have addresses of their own, and objects and marks lie in
\* the order they were made (memalloc.c).
THEOREM StackInvariance == ShellSpec => []StackInv
<1>1. ShellInit => StackInv
  BY StackInitHolds DEF ShellInit
<1>2. StackInv /\ [ShellNext]_shellVars => StackInv'
  BY ShellNextKeeps
<1> QED BY <1>1, <1>2, PTL DEF ShellSpec

\* Whatever grows, moves or is freed on the shell's stack, the free space ends
\* where the last block does, no object is lost or overlapped, every mark can
\* be popped to and a growing string stays whole (memalloc.c).
THEOREM StackStaysSound == ShellSpec => []StackSound
<1>1. StackInv => StackSound
  BY StackInvSound
<1> QED BY <1>1, StackInvariance, PTL

-----------------------------------------------------------------------------
\* The evaluation of commands (Eval).

Nodes == {"not", "and", "or", "semi", "if", "while", "until", "for", "redir", "case", "func",
          "subshell", "background", "eval", "dot"}
Flags == {"tested", "exit"}
Call == [node : Nodes, part : {1, 2}, flags : SUBSET Flags, status : {0, 1},
         swallows : BOOLEAN, loops : Int, params : Nat]

\* Of the first n calls of c: f is the last function, or 0; the loops after it;
\* whether what comes next has its status tested; and whether it may end the
\* shell.
FunctionAt(c, n, f) ==
  /\ f \in 0..n /\ (f # 0 => c[f].node = "func")
  /\ \A k \in 1..n : k > f => c[k].node # "func"

LoopsAfter(c, n, f) == {k \in 1..n : k > f /\ c[k].node \in LoopKinds}

Tested(c, n) ==
  \E k \in 1..n : Tests(c[k]) /\ \A l \in k..n : c[l].node \notin {"dot", "background"}

NoneWaits(call) ==
  /\ call.node \notin {"while", "until", "for", "not", "eval", "dot"}
  /\ call.node \in {"and", "or", "semi", "if"} => call.part = 2

LastIn(c, n) ==
  \A k \in 1..n : \/ \E l \in k + 1..n : c[l].node \in {"subshell", "background"}
                  \/ NoneWaits(c[k])

\* The flags for what comes after the first n calls are right.
FlagsRight(c, n, flags) ==
  /\ flags \in SUBSET Flags
  /\ "tested" \in flags <=> Tested(c, n)
  /\ "exit" \in flags => LastIn(c, n)

\* So are those of the call e after n others, and what a function saved.
CallRight(c, n, e, sw) ==
  /\ e \in Call
  /\ FlagsRight(c, n, e.flags)
  /\ e.node = "func" =>
       /\ FunctionAt(c, n, e.params)
       /\ ~sw => e.loops = Cardinality(LoopsAfter(c, n, e.params))

CallsRight(c, n, sw) ==
  \A k \in 1..n : CallRight(c, k - 1, c[k], sw)

ContextRight(c, n, nest, f, sw) ==
  /\ nest \in Int /\ FunctionAt(c, n, f)
  /\ ~sw => nest = Cardinality(LoopsAfter(c, n, f))

\* The loop to go to is one of the function, and as far out as loops are to be
\* left.
SkipRight(c, n, f, count, to) ==
  /\ to \in LoopsAfter(c, n, f)
  /\ count = Cardinality({l \in LoopsAfter(c, n, f) : l >= to})

\* The inductive invariant of the evaluation.
EvalInv ==
  /\ calls \in Seq(Call)
  /\ CallsRight(calls, Len(calls), swallowed)
  /\ ContextRight(calls, Len(calls), loopnest, params, swallowed)
  /\ ctl.at \in {"evaltree", "return", "cmdloop", "exited"}
  /\ evalskip \in {"none", "break", "cont", "func", "funcdef"}
  /\ exitstatus \in {0, 1}
  /\ ctl.at \in {"evaltree", "cmdloop"} => evalskip = "none"
  /\ ctl.at = "cmdloop" => calls = <<>>
  /\ ctl.at = "evaltree" => FlagsRight(calls, Len(calls), ctl.flags)
  /\ ctl.at = "return" /\ evalskip \in {"break", "cont"} /\ ~swallowed =>
       SkipRight(calls, Len(calls), params, skipcount, target)
  /\ ctl.at = "return" /\ evalskip = "func" => exitstatus = retstatus

\* c and d are the same up to n.
Agree(c, d, n) == \A j \in 1..n : c[j] = d[j]

LEMMA SameBelow ==
  ASSUME NEW c, NEW d, NEW n \in Nat, Agree(c, d, n)
  PROVE  /\ \A f : FunctionAt(c, n, f) <=> FunctionAt(d, n, f)
         /\ \A f : LoopsAfter(c, n, f) = LoopsAfter(d, n, f)
         /\ \A flags : FlagsRight(c, n, flags) <=> FlagsRight(d, n, flags)
         /\ \A e, sw : CallRight(c, n, e, sw) <=> CallRight(d, n, e, sw)
<1>1. \A k \in 1..n : c[k] = d[k]
  BY DEF Agree
<1>2. ASSUME NEW f PROVE FunctionAt(c, n, f) <=> FunctionAt(d, n, f)
  <2>1. f \in 0..n /\ f # 0 => f \in 1..n
    OBVIOUS
  <2> QED BY <1>1, <2>1 DEF FunctionAt
<1>3. ASSUME NEW f PROVE LoopsAfter(c, n, f) = LoopsAfter(d, n, f)
  BY <1>1 DEF LoopsAfter
<1>4. Tested(c, n) <=> Tested(d, n)
  <2>1. \A k \in 1..n : \A l \in k..n : l \in 1..n
    OBVIOUS
  <2> QED BY <1>1, <2>1 DEF Tested
<1>5. LastIn(c, n) <=> LastIn(d, n)
  <2>1. \A k \in 1..n : \A l \in k + 1..n : l \in 1..n
    OBVIOUS
  <2> QED BY <1>1, <2>1 DEF LastIn
<1>6. ASSUME NEW flags PROVE FlagsRight(c, n, flags) <=> FlagsRight(d, n, flags)
  BY <1>4, <1>5 DEF FlagsRight
<1>7. ASSUME NEW e, NEW sw PROVE CallRight(c, n, e, sw) <=> CallRight(d, n, e, sw)
  BY <1>2, <1>3, <1>6 DEF CallRight
<1> QED BY <1>2, <1>3, <1>6, <1>7

LEMMA CallsBelow ==
  ASSUME NEW c, NEW d, NEW n \in Nat, Agree(c, d, n), NEW sw, CallsRight(c, n, sw)
  PROVE  CallsRight(d, n, sw)
<1> SUFFICES ASSUME NEW k \in 1..n PROVE CallRight(d, k - 1, d[k], sw)
  BY DEF CallsRight
<1>1. k - 1 \in Nat /\ Agree(c, d, k - 1) /\ c[k] = d[k]
  BY DEF Agree
<1>2. CallRight(c, k - 1, c[k], sw)
  BY DEF CallsRight
<1> QED BY <1>1, <1>2, SameBelow

LEMMA CallsFewer ==
  ASSUME NEW c, NEW n \in Nat, NEW m \in 0..n, NEW sw, CallsRight(c, n, sw)
  PROVE  CallsRight(c, m, sw)
BY DEF CallsRight

LEMMA CallsOneMore ==
  ASSUME NEW c, NEW n \in Nat, NEW sw, CallsRight(c, n, sw), CallRight(c, n, c[n + 1], sw)
  PROVE  CallsRight(c, n + 1, sw)
<1> SUFFICES ASSUME NEW k \in 1..(n + 1) PROVE CallRight(c, k - 1, c[k], sw)
  BY DEF CallsRight
<1>1. CASE k = n + 1
  BY <1>1
<1>2. CASE k # n + 1
  <2>1. k \in 1..n
    BY <1>2
  <2> QED BY <2>1 DEF CallsRight
<1> QED BY <1>1, <1>2

\* What a part is evaluated with: its status is tested, or that of its whole
\* is, and it ends the shell only if nothing waits.
PartFlags(e, flags) ==
  /\ flags \in SUBSET Flags
  /\ "tested" \in flags <=>
       Tests(e) \/ (e.node \notin {"dot", "background"} /\ "tested" \in e.flags)
  /\ "exit" \in flags =>
       NoneWaits(e) /\ (e.node \in {"subshell", "background"} \/ "exit" \in e.flags)

LEMMA FlagsOfPart ==
  ASSUME NEW c, NEW n \in Nat, FlagsRight(c, n, c[n + 1].flags),
         NEW flags, PartFlags(c[n + 1], flags)
  PROVE  FlagsRight(c, n + 1, flags)
<1> DEFINE e == c[n + 1]
<1>1. Tested(c, n + 1) <=> Tests(e) \/ (e.node \notin {"dot", "background"} /\ Tested(c, n))
  <2>1. ASSUME Tests(e) PROVE Tested(c, n + 1)
    <3>1. e.node \notin {"dot", "background"}
      BY <2>1 DEF Tests
    <3>2. n + 1 \in 1..(n + 1) /\ \A l \in (n + 1)..(n + 1) : l = n + 1
      OBVIOUS
    <3> QED BY <2>1, <3>1, <3>2 DEF Tested
  <2>2. ASSUME e.node \notin {"dot", "background"}, Tested(c, n) PROVE Tested(c, n + 1)
    <3>1. PICK k \in 1..n : Tests(c[k]) /\ \A l \in k..n : c[l].node \notin {"dot", "background"}
      BY <2>2 DEF Tested
    <3>2. \A l \in k..(n + 1) : l \in k..n \/ l = n + 1
      OBVIOUS
    <3>3. k \in 1..(n + 1)
      OBVIOUS
    <3> QED BY <2>2, <3>1, <3>2, <3>3 DEF Tested
  <2>3. ASSUME Tested(c, n + 1), ~Tests(e)
        PROVE  e.node \notin {"dot", "background"} /\ Tested(c, n)
    <3>1. PICK k \in 1..(n + 1) :
            Tests(c[k]) /\ \A l \in k..(n + 1) : c[l].node \notin {"dot", "background"}
      BY <2>3 DEF Tested
    <3>2. k # n + 1
      BY <2>3, <3>1
    <3>3. k \in 1..n /\ n + 1 \in k..(n + 1) /\ \A l \in k..n : l \in k..(n + 1)
      BY <3>2
    <3>4. e.node \notin {"dot", "background"}
      BY <3>1, <3>3
    <3> HIDE DEF e
    <3> QED BY <3>1, <3>3, <3>4 DEF Tested
  <2> QED BY <2>1, <2>2, <2>3
<1>2. ASSUME NoneWaits(e), e.node \in {"subshell", "background"} \/ LastIn(c, n)
      PROVE  LastIn(c, n + 1)
  <2> SUFFICES ASSUME NEW k \in 1..(n + 1)
               PROVE  \/ \E l \in k + 1..(n + 1) : c[l].node \in {"subshell", "background"}
                      \/ NoneWaits(c[k])
    BY DEF LastIn
  <2>1. CASE k = n + 1
    BY <1>2, <2>1
  <2>2. CASE k # n + 1
    <3>1. k \in 1..n /\ n + 1 \in k + 1..(n + 1) /\ \A l \in k + 1..n : l \in k + 1..(n + 1)
      BY <2>2
    <3>2. CASE e.node \in {"subshell", "background"}
      BY <3>1, <3>2
    <3>3. CASE LastIn(c, n)
      BY <3>1, <3>3 DEF LastIn
    <3> QED BY <1>2, <3>2, <3>3
  <2> QED BY <2>1, <2>2
<1> HIDE DEF e
<1>3. /\ e.flags \in SUBSET Flags /\ ("tested" \in e.flags <=> Tested(c, n))
      /\ "exit" \in e.flags => LastIn(c, n)
  BY DEF e, FlagsRight
<1>4. PartFlags(e, flags)
  BY DEF e
<1> QED BY <1>1, <1>2, <1>3, <1>4 DEF FlagsRight, PartFlags

\* Functions and loops with one more call.
LEMMA LoopsAre ==
  ASSUME NEW c, NEW n \in Nat, NEW f
  PROVE  /\ LoopsAfter(c, n, f) \in SUBSET (1..n) /\ IsFiniteSet(LoopsAfter(c, n, f))
         /\ Cardinality(LoopsAfter(c, n, f)) \in Nat
<1>1. IsFiniteSet(1..n)
  BY FS_Interval
<1>2. LoopsAfter(c, n, f) \in SUBSET (1..n)
  BY DEF LoopsAfter
<1> QED BY <1>1, <1>2, FS_Subset, FS_CardinalityType

LEMMA LoopsGrow ==
  ASSUME NEW c, NEW n \in Nat, NEW f, c[n + 1].node # "func",
         FunctionAt(c, n, f) \/ FunctionAt(c, n + 1, f)
  PROVE  /\ FunctionAt(c, n, f) /\ FunctionAt(c, n + 1, f)
         /\ LoopsAfter(c, n + 1, f)
              = LoopsAfter(c, n, f) \cup (IF c[n + 1].node \in LoopKinds THEN {n + 1} ELSE {})
<1>0. \A k \in 1..(n + 1) : k \in 1..n \/ k = n + 1
  OBVIOUS
<1>1. ASSUME FunctionAt(c, n, f) PROVE FunctionAt(c, n + 1, f)
  BY <1>0, <1>1 DEF FunctionAt
<1>2. ASSUME FunctionAt(c, n + 1, f) PROVE FunctionAt(c, n, f)
  <2>1. f # n + 1
    BY <1>2 DEF FunctionAt
  <2> QED BY <1>2, <2>1 DEF FunctionAt
<1>3. FunctionAt(c, n, f) /\ FunctionAt(c, n + 1, f)
  BY <1>1, <1>2
<1>4. f \in 0..n /\ n + 1 > f
  BY <1>3 DEF FunctionAt
<1>5. LoopsAfter(c, n + 1, f)
        = LoopsAfter(c, n, f) \cup (IF c[n + 1].node \in LoopKinds THEN {n + 1} ELSE {})
  <2>1. CASE c[n + 1].node \in LoopKinds
    BY <1>0, <1>4, <2>1 DEF LoopsAfter
  <2>2. CASE c[n + 1].node \notin LoopKinds
    BY <1>0, <1>4, <2>2 DEF LoopsAfter
  <2> QED BY <2>1, <2>2
<1> QED BY <1>3, <1>5

LEMMA ContextGrows ==
  ASSUME NEW c, NEW n \in Nat, NEW e, e = c[n + 1], NEW f, NEW nest, NEW sw
  PROVE  /\ e.node = "func" => ContextRight(c, n + 1, 0, n + 1, sw)
         /\ e.node # "func" =>
              (ContextRight(c, n, nest, f, sw)
                 => ContextRight(c, n + 1, IF e.node \in LoopKinds THEN nest + 1 ELSE nest, f, sw))
         /\ e.node # "func" =>
              (ContextRight(c, n + 1, nest, f, sw)
                 => ContextRight(c, n, IF e.node \in LoopKinds THEN nest - 1 ELSE nest, f, sw))
<1>1. ASSUME e.node = "func" PROVE ContextRight(c, n + 1, 0, n + 1, sw)
  <2>1. FunctionAt(c, n + 1, n + 1)
    BY <1>1 DEF FunctionAt
  <2>2. LoopsAfter(c, n + 1, n + 1) = {}
    BY DEF LoopsAfter
  <2> QED BY <2>1, <2>2, FS_EmptySet DEF ContextRight
<1>2. ASSUME e.node # "func", FunctionAt(c, n, f) \/ FunctionAt(c, n + 1, f)
      PROVE  /\ FunctionAt(c, n, f) /\ FunctionAt(c, n + 1, f)
             /\ Cardinality(LoopsAfter(c, n + 1, f))
                  = Cardinality(LoopsAfter(c, n, f)) + (IF e.node \in LoopKinds THEN 1 ELSE 0)
  <2>1. /\ FunctionAt(c, n, f) /\ FunctionAt(c, n + 1, f)
        /\ LoopsAfter(c, n + 1, f)
             = LoopsAfter(c, n, f) \cup (IF e.node \in LoopKinds THEN {n + 1} ELSE {})
    BY <1>2, LoopsGrow
  <2>2. LoopsAfter(c, n, f) \in SUBSET (1..n) /\ IsFiniteSet(LoopsAfter(c, n, f))
        /\ Cardinality(LoopsAfter(c, n, f)) \in Nat
    BY LoopsAre
  <2>3. n + 1 \notin LoopsAfter(c, n, f)
    BY <2>2
  <2>4. CASE e.node \in LoopKinds
    <3>1. LoopsAfter(c, n + 1, f) = LoopsAfter(c, n, f) \cup {n + 1}
      BY <2>1, <2>4
    <3> QED BY <2>1, <2>2, <2>3, <2>4, <3>1, FS_AddElement
  <2>5. CASE e.node \notin LoopKinds
    BY <2>1, <2>2, <2>5
  <2> QED BY <2>4, <2>5
<1>3. Cardinality(LoopsAfter(c, n, f)) \in Nat
  BY LoopsAre
<1> QED BY <1>1, <1>2, <1>3 DEF ContextRight

LEMMA TopIs ==
  ASSUME EvalInv, calls # <<>>
  PROVE  /\ Len(calls) \in Nat \ {0} /\ TopCall = calls[Len(calls)] /\ TopCall \in Call
         /\ CallRight(calls, Len(calls) - 1, TopCall, swallowed)
         /\ Front(calls) \in Seq(Call) /\ Len(Front(calls)) = Len(calls) - 1
         /\ Agree(calls, Front(calls), Len(calls) - 1)
         /\ CallsRight(Front(calls), Len(calls) - 1, swallowed)
<1> DEFINE n == Len(calls)
<1>1. calls \in Seq(Call) /\ CallsRight(calls, n, swallowed)
  BY DEF EvalInv
<1>2. n \in Nat \ {0} /\ \A j \in 1..n : calls[j] \in Call
  BY <1>1
<1>3. Front(calls) = [i \in 1..(n - 1) |-> calls[i]]
  BY <1>2 DEF Front
<1>4. \A i \in 1..(n - 1) : calls[i] \in Call
  BY <1>2
<1>5. n - 1 \in Nat
  BY <1>2
<1>6. Front(calls) \in Seq(Call) /\ Len(Front(calls)) = n - 1
      /\ \A i \in 1..(n - 1) : Front(calls)[i] = calls[i]
  BY <1>3, <1>4, <1>5
<1>7. Agree(calls, Front(calls), n - 1)
  BY <1>6 DEF Agree
<1>8. CallsRight(calls, n - 1, swallowed)
  BY <1>1, <1>2, CallsFewer
<1>9. CallRight(calls, n - 1, calls[n], swallowed)
  BY <1>1, <1>2 DEF CallsRight
<1> QED BY <1>2, <1>5, <1>6, <1>7, <1>8, <1>9, CallsBelow DEF TopCall, Last

LEMMA FinishIs ==
  ASSUME NEW status, NEW flags, NEW checkexit, Finish(status, flags, checkexit)
  PROVE  ctl'.at \in {"return", "exited"}
BY DEF Finish, Exit

\* The innermost call ends.
LEMMA LeaveKeeps ==
  ASSUME EvalInv, calls # <<>>, Pop, ctl'.at \in {"return", "exited"},
         swallowed' = swallowed, exitstatus' \in {0, 1},
         evalskip' \in {"none", "break", "cont", "func", "funcdef"},
         ContextRight(calls, Len(calls) - 1, loopnest', params', swallowed),
         evalskip' \in {"break", "cont"} /\ ~swallowed =>
           SkipRight(calls, Len(calls) - 1, params', skipcount', target'),
         evalskip' = "func" => exitstatus' = retstatus'
  PROVE  EvalInv'
<1> DEFINE m == Len(calls) - 1
<1>1. /\ m \in Nat /\ calls' \in Seq(Call) /\ Len(calls') = m
      /\ Agree(calls, calls', m) /\ CallsRight(calls', m, swallowed)
  BY TopIs DEF Pop
<1> HIDE DEF m
<1>2. /\ \A f : FunctionAt(calls, m, f) <=> FunctionAt(calls', m, f)
      /\ \A f : LoopsAfter(calls, m, f) = LoopsAfter(calls', m, f)
  BY <1>1, SameBelow
<1>3. ContextRight(calls', m, loopnest', params', swallowed)
  BY <1>2 DEF ContextRight, m
<1>4. evalskip' \in {"break", "cont"} /\ ~swallowed =>
        SkipRight(calls', m, params', skipcount', target')
  BY <1>2 DEF SkipRight, m
<1> QED BY <1>1, <1>3, <1>4 DEF EvalInv

\* The innermost call goes on, at another part.
LEMMA ContinueKeeps ==
  ASSUME EvalInv, calls # <<>>, NEW e \in Call,
         calls' = [calls EXCEPT ![Len(calls)] = e],
         e.node = TopCall.node, e.flags = TopCall.flags, e.loops = TopCall.loops,
         e.params = TopCall.params,
         NEW flags, PartFlags(e, flags), ctl' = [at |-> "evaltree", flags |-> flags],
         evalskip' = "none", exitstatus' \in {0, 1},
         UNCHANGED <<loopnest, params, swallowed>>
  PROVE  EvalInv'
<1> DEFINE n == Len(calls)
<1>1. /\ n \in Nat \ {0} /\ TopCall = calls[n]
      /\ CallRight(calls, n - 1, TopCall, swallowed)
  BY TopIs
<1>2. /\ calls \in Seq(Call) /\ CallsRight(calls, n, swallowed)
      /\ ContextRight(calls, n, loopnest, params, swallowed)
  BY DEF EvalInv
<1>3. /\ calls' \in Seq(Call) /\ Len(calls') = n /\ calls'[n] = e
      /\ \A j \in 1..(n - 1) : calls'[j] = calls[j]
  BY <1>1, <1>2
<1> HIDE DEF n
<1>4. n - 1 \in Nat /\ Agree(calls, calls', n - 1) /\ n = (n - 1) + 1
  <2>1. n - 1 \in Nat /\ n = (n - 1) + 1
    BY <1>1
  <2>2. Agree(calls, calls', n - 1)
    BY <1>3 DEF Agree
  <2> QED BY <2>1, <2>2
<1>5. CallRight(calls, n - 1, e, swallowed)
  BY <1>1 DEF CallRight
<1>6. CallRight(calls', n - 1, e, swallowed)
  BY <1>4, <1>5, SameBelow
<1>7. CallsRight(calls', n - 1, swallowed)
  <2>1. CallsRight(calls, n - 1, swallowed)
    BY <1>1, <1>2, CallsFewer
  <2> QED BY <1>4, <2>1, CallsBelow
<1>8. CallsRight(calls', n, swallowed)
  BY <1>3, <1>4, <1>6, <1>7, CallsOneMore
<1>9. FlagsRight(calls', n, flags)
  <2>1. FlagsRight(calls', n - 1, e.flags)
    BY <1>6 DEF CallRight
  <2> QED BY <1>3, <1>4, <2>1, FlagsOfPart
<1>10. ContextRight(calls', n, loopnest', params', swallowed')
  <2>1. \A j \in 1..n : calls'[j].node = calls[j].node
    BY <1>1, <1>3
  <2>2. ASSUME NEW f PROVE FunctionAt(calls', n, f) <=> FunctionAt(calls, n, f)
    BY <1>1, <2>1 DEF FunctionAt
  <2>3. ASSUME NEW f PROVE LoopsAfter(calls', n, f) = LoopsAfter(calls, n, f)
    BY <2>1 DEF LoopsAfter
  <2> QED BY <1>2, <2>2, <2>3 DEF ContextRight
<1> QED BY <1>3, <1>8, <1>9, <1>10 DEF EvalInv

\* A command that is not itself made of others.
LEMMA SimpleKeeps ==
  ASSUME EvalInv, Evaltree, UNCHANGED <<calls, loopnest, params, swallowed>>,
         ctl'.at \in {"return", "exited"}, exitstatus' \in {0, 1},
         evalskip' \in {"none", "break", "cont", "func", "funcdef"},
         evalskip' \in {"break", "cont"} /\ ~swallowed =>
           SkipRight(calls, Len(calls), params, skipcount', target'),
         evalskip' = "func" => exitstatus' = retstatus'
  PROVE  EvalInv'
BY DEF EvalInv

LEMMA MaxIs ==
  ASSUME NEW n \in Nat, NEW S \in SUBSET (0..n), S # {}
  PROVE  Max(S) \in S /\ \A y \in S : Max(S) >= y
<1> DEFINE Below == {n - x : x \in S}
<1>1. Below \in SUBSET Nat /\ Below # {}
  <2>1. \A x \in S : n - x \in Nat
    OBVIOUS
  <2> QED BY <2>1
<1>2. PICK m \in Below : \A k \in Below : m <= k
  BY <1>1, LeastElement
<1>3. PICK x \in S : m = n - x
  BY <1>2
<1>4. ASSUME NEW y \in S PROVE x >= y
  <2>1. m <= n - y
    BY <1>2
  <2>2. x \in 0..n /\ y \in 0..n
    OBVIOUS
  <2> QED BY <1>3, <2>1, <2>2
<1> HIDE DEF Below
<1>5. \E z \in S : \A y \in S : z >= y
  BY <1>4
<1> QED BY <1>5 DEF Max

\* Of the loops S there is one with as many from there on as there are to leave.
LEMMA LoopExists ==
  ASSUME NEW n \in Nat, NEW S \in SUBSET (1..n), NEW m \in Nat \ {0}, m <= Cardinality(S)
  PROVE  \E k \in S : Cardinality({l \in S : l >= k}) = m
<1> DEFINE From(k) == {l \in S : l >= k}
           P(j) == j < Cardinality(S) => \E k \in S : Cardinality(From(k)) = j + 1
           A == {j \in Nat : P(j)}
<1>1. IsFiniteSet(S) /\ Cardinality(S) \in Nat
  <2>1. IsFiniteSet(1..n)
    BY FS_Interval
  <2> QED BY <2>1, FS_Subset, FS_CardinalityType
<1>2. S \in SUBSET (0..n) /\ \A l \in S : l \in Int /\ l \in 0..n
  <2>1. ASSUME NEW l \in S PROVE l \in Int /\ l \in 0..n
    <3>1. l \in 1..n
      OBVIOUS
    <3> QED BY <3>1
  <2> QED BY <2>1
<1>3. P(0)
  <2> SUFFICES ASSUME 0 < Cardinality(S) PROVE \E k \in S : Cardinality(From(k)) = 1
    OBVIOUS
  <2>1. S # {}
    BY FS_EmptySet
  <2>2. Max(S) \in S /\ \A y \in S : Max(S) >= y
    BY <1>2, <2>1, MaxIs
  <2>3. From(Max(S)) = {Max(S)}
    <3>1. ASSUME NEW l \in S PROVE l >= Max(S) <=> l = Max(S)
      <4>1. l \in Int /\ Max(S) \in Int /\ Max(S) >= l
        BY <1>2, <2>2
      <4> QED BY <4>1
    <3> QED BY <2>2, <3>1
  <2>4. Cardinality({Max(S)}) = 1
    BY FS_Singleton
  <2> QED BY <2>2, <2>3, <2>4
<1>4. ASSUME NEW j \in Nat, P(j) PROVE P(j + 1)
  <2> SUFFICES ASSUME j + 1 < Cardinality(S)
               PROVE  \E k \in S : Cardinality(From(k)) = j + 2
    OBVIOUS
  <2>1. PICK k \in S : Cardinality(From(k)) = j + 1
    BY <1>1, <1>4
  <2> DEFINE R == {l \in S : l < k}
  <2>2. R # {}
    <3>1. SUFFICES ASSUME R = {} PROVE FALSE
      OBVIOUS
    <3>2. ASSUME NEW l \in S PROVE l >= k
      <4>1. l \in Int /\ k \in Int /\ ~(l < k)
        BY <1>2, <3>1
      <4> QED BY <4>1
    <3>3. From(k) = S
      BY <3>2
    <3> QED BY <2>1, <3>3
  <2>3. Max(R) \in R /\ \A y \in R : Max(R) >= y
    <3>1. R \in SUBSET (0..n)
      BY <1>2
    <3> HIDE DEF R
    <3> QED BY <2>2, <3>1, MaxIs
  <2>4. PICK x \in R : \A y \in R : x >= y
    BY <2>3
  <2>5. From(x) = From(k) \cup {x} /\ x \notin From(k) /\ x \in S
    <3>1. x \in S /\ x < k /\ x \in Int /\ k \in Int
      BY <1>2
    <3>2. ASSUME NEW l \in S PROVE l >= x <=> l >= k \/ l = x
      <4>1. l \in Int /\ (l < k => x >= l)
        BY <1>2, <2>4
      <4> QED BY <3>1, <4>1
    <3>3. ~(x >= k)
      BY <3>1
    <3>4. \A l : l \in From(x) <=> l \in From(k) \/ l = x
      BY <3>1, <3>2
    <3>5. x \notin From(k)
      BY <3>3
    <3> HIDE DEF From
    <3> QED BY <3>1, <3>4, <3>5
  <2>6. IsFiniteSet(From(k))
    BY <1>1, FS_Subset
  <2>7. Cardinality(From(x)) = Cardinality(From(k)) + 1
    <3> HIDE DEF From
    <3> QED BY <2>5, <2>6, FS_AddElement
  <2>8. Cardinality(From(x)) = j + 2 /\ x \in S
    <3> HIDE DEF From
    <3> QED BY <2>1, <2>5, <2>7
  <2> QED BY <2>8
<1>5. A = Nat
  <2>1. A \in SUBSET Nat /\ 0 \in A
    BY <1>3
  <2>2. \A j \in A : j + 1 \in A
    <3> HIDE DEF P
    <3> QED BY <1>4
  <2> HIDE DEF A
  <2> QED BY <2>1, <2>2, AllNaturals
<1>6. m - 1 \in Nat
  OBVIOUS
<1>7. P(m - 1)
  <2> HIDE DEF P
  <2> QED BY <1>5, <1>6
<1> QED BY <1>1, <1>6, <1>7

\* The function and the loops of the shell's context.
LEMMA ContextIs ==
  ASSUME EvalInv
  PROVE  /\ InFunction = params /\ Loops = LoopsAfter(calls, Len(calls), params)
         /\ Len(calls) \in Nat /\ params \in 0..Len(calls)
<1> DEFINE n == Len(calls)
           S == {0} \cup {k \in DOMAIN calls : calls[k].node = "func"}
<1>1. n \in Nat /\ DOMAIN calls = 1..n /\ FunctionAt(calls, n, params)
  BY DEF EvalInv, ContextRight
<1>2. S \in SUBSET (0..n) /\ S # {}
  BY <1>1
<1>3. Max(S) \in S /\ \A y \in S : Max(S) >= y
  BY <1>1, <1>2, MaxIs
<1>4. InFunction = Max(S)
  BY DEF InFunction
<1>5. params \in S /\ \A y \in S : y <= params
  BY <1>1 DEF FunctionAt
<1>6. InFunction = params
  <2>1. params \in Int /\ Max(S) \in Int
    BY <1>1, <1>2, <1>3, <1>5
  <2> HIDE DEF S
  <2> QED BY <1>3, <1>4, <1>5, <2>1
<1>7. params \in 0..n
  BY <1>1 DEF FunctionAt
<1> QED BY <1>1, <1>6, <1>7 DEF Loops, LoopsAfter

LEMMA EvalInitHolds == EvalInit => EvalInv
<1> SUFFICES ASSUME EvalInit PROVE EvalInv
  OBVIOUS
<1>1. /\ calls = <<>> /\ ctl.at = "cmdloop" /\ evalskip = "none" /\ loopnest = 0 /\ params = 0
      /\ exitstatus = 0
  BY DEF EvalInit
<1>2. calls \in Seq(Call) /\ Len(calls) = 0
  BY <1>1
<1>3. FunctionAt(calls, 0, 0) /\ LoopsAfter(calls, 0, 0) = {} /\ CallsRight(calls, 0, swallowed)
  BY DEF FunctionAt, LoopsAfter, CallsRight
<1>4. ContextRight(calls, 0, 0, 0, swallowed)
  BY <1>3, FS_EmptySet DEF ContextRight
<1> QED BY <1>1, <1>2, <1>3, <1>4 DEF EvalInv

LEMMA cmdloopKeeps ==
  ASSUME EvalInv, NEW last \in BOOLEAN, cmdloop(last)
  PROVE  EvalInv'
<1>1. /\ UNCHANGED <<calls, skipVars, exitstatus, swallowed>> /\ calls = <<>> /\ Len(calls) = 0
      /\ ctl' = [at |-> "evaltree", flags |-> IF last THEN {"exit"} ELSE {}]
      /\ evalskip = "none"
  BY DEF cmdloop, Evaluate, EvalInv
<1>2. FlagsRight(calls, 0, IF last THEN {"exit"} ELSE {})
  BY DEF FlagsRight, Tested, LastIn, Flags
<1> QED BY <1>1, <1>2 DEF EvalInv, skipVars

LEMMA cmdloop_returnKeeps ==
  ASSUME EvalInv, cmdloop_return
  PROVE  EvalInv'
<1>1. /\ UNCHANGED <<calls, skipVars, exitstatus, swallowed>> /\ calls = <<>>
      /\ ctl'.at = IF evalskip # "none" THEN "exited" ELSE "cmdloop"
  BY DEF cmdloop_return, Exit
<1> QED BY <1>1 DEF EvalInv, skipVars

LEMMA evalcommandKeeps ==
  ASSUME EvalInv, NEW status \in {0, 1}, NEW checkexit \in BOOLEAN, evalcommand(status, checkexit)
  PROVE  EvalInv'
<1>1. Evaltree /\ exitstatus' = status /\ UNCHANGED <<calls, skipVars, swallowed>>
      /\ ctl'.at \in {"return", "exited"}
  BY FinishIs DEF evalcommand
<1>2. evalskip' = "none" /\ UNCHANGED <<loopnest, params>>
  BY <1>1 DEF EvalInv, Evaltree, skipVars
<1> QED BY <1>1, <1>2, SimpleKeeps

LEMMA breakcmdKeeps ==
  ASSUME EvalInv, NEW l \in Levels, NEW kind \in {"break", "cont"}, breakcmd(l, kind)
  PROVE  EvalInv'
<1>1. /\ Evaltree /\ exitstatus' = 0 /\ UNCHANGED <<calls, loopnest, params, swallowed>>
      /\ ctl'.at \in {"return", "exited"}
  BY FinishIs DEF breakcmd
<1>2. evalskip = "none"
  BY <1>1 DEF EvalInv, Evaltree
<1>3. CASE loopnest = 0
  <2>1. evalskip' = "none"
    BY <1>2, <1>3 DEF breakcmd
  <2> QED BY <1>1, <2>1, SimpleKeeps
<1>4. CASE loopnest # 0
  <2>1. evalskip' = kind /\ skipcount' = Min({l, loopnest}) /\ target' = LoopOut(l)
    BY <1>4 DEF breakcmd
  <2>2. ASSUME ~swallowed PROVE SkipRight(calls, Len(calls), params, skipcount', target')
    <3> DEFINE n == Len(calls)
               S == LoopsAfter(calls, n, params)
               m == Min({l, Cardinality(S)})
               T == {k \in S : Cardinality({j \in S : j >= k}) = m}
    <3>1. n \in Nat /\ Loops = S
      BY ContextIs
    <3>2. loopnest = Cardinality(S)
      BY <2>2 DEF EvalInv, ContextRight
    <3>3. S \in SUBSET (1..n) /\ IsFiniteSet(S) /\ Cardinality(S) \in Nat
      BY <3>1, LoopsAre
    <3>4. l \in Nat \ {0} /\ Cardinality(S) \in Nat \ {0}
      BY <1>4, <3>2, <3>3, EvalAssumption
    <3>5. m \in Nat \ {0} /\ m <= Cardinality(S)
      <4> DEFINE c == Cardinality(S)
      <4>1. \E x \in {l, c} : \A y \in {l, c} : x <= y
        <5>1. l \in Nat \ {0} /\ c \in Nat \ {0}
          BY <3>4
        <5> HIDE DEF c
        <5>2. l <= c \/ c <= l
          BY <5>1
        <5> QED BY <5>1, <5>2
      <4>2. m \in {l, c} /\ m <= c
        <5> HIDE DEF c
        <5>1. Min({l, c}) \in {l, c} /\ \A y \in {l, c} : Min({l, c}) <= y
          BY <4>1 DEF Min
        <5> QED BY <5>1 DEF c
      <4> HIDE DEF m
      <4> QED BY <3>4, <4>2
    <3> HIDE DEF m, S
    <3>6. PICK k \in S : Cardinality({j \in S : j >= k}) = m
      BY <3>1, <3>3, <3>5, LoopExists
    <3>7. T # {}
      BY <3>6
    <3>8. LoopOut(l) = Max({0} \cup T)
      BY <3>1 DEF LoopOut, m
    <3>9. {0} \cup T \in SUBSET (0..n) /\ \A x \in T : x >= 1
      <4>1. ASSUME NEW x \in S PROVE x \in 0..n /\ x >= 1
        <5>1. x \in 1..n
          BY <3>3
        <5> QED BY <5>1
      <4> QED BY <3>1, <4>1
    <3> HIDE DEF T
    <3>10. Max({0} \cup T) \in {0} \cup T /\ \A y \in {0} \cup T : Max({0} \cup T) >= y
      <4>1. {0} \cup T # {}
        OBVIOUS
      <4> QED BY <3>1, <3>9, <4>1, MaxIs
    <3>11. Max({0} \cup T) # 0
      <4>1. PICK x \in T : x >= 1
        BY <3>7, <3>9
      <4>2. Max({0} \cup T) >= x /\ x \in 0..n
        BY <3>9, <3>10
      <4> QED BY <3>1, <4>1, <4>2
    <3>12. target' \in T
      BY <2>1, <3>8, <3>10, <3>11
    <3>13. skipcount' = m
      BY <2>1, <3>2 DEF m
    <3> QED BY <3>12, <3>13 DEF SkipRight, S, T
  <2> QED BY <1>1, <2>1, <2>2, SimpleKeeps
<1> QED BY <1>3, <1>4

LEMMA returncmdKeeps ==
  ASSUME EvalInv, NEW status \in {0, 1}, NEW skip \in {"func", "funcdef"}, returncmd(status, skip)
  PROVE  EvalInv'
<1>1. /\ Evaltree /\ exitstatus' = status /\ retstatus' = status /\ evalskip' = skip
      /\ UNCHANGED <<calls, loopnest, params, swallowed>> /\ ctl'.at \in {"return", "exited"}
  BY FinishIs DEF returncmd
<1> QED BY <1>1, SimpleKeeps

LEMMA exitcmdKeeps ==
  ASSUME EvalInv, exitcmd
  PROVE  EvalInv'
<1>1. /\ Evaltree /\ UNCHANGED <<calls, skipVars, exitstatus, swallowed>> /\ ctl'.at = "exited"
  BY DEF exitcmd, Exit
<1>2. evalskip' = "none" /\ UNCHANGED <<loopnest, params>> /\ exitstatus' \in {0, 1}
  BY <1>1 DEF EvalInv, Evaltree, skipVars
<1> QED BY <1>1, <1>2, SimpleKeeps

\* A call of evaltree for a tree, and of evalcommand for a function or builtin.
LEMMA evaltreeKeeps ==
  ASSUME EvalInv, NEW node \in Nodes, NEW swallows \in BOOLEAN, evaltree(node, swallows)
  PROVE  EvalInv'
<1> DEFINE n == Len(calls)
           flags == ctl.flags
           e == [node |-> node, part |-> 1, flags |-> flags, status |-> 0, swallows |-> swallows,
                 loops  |-> IF node = "func" THEN loopnest ELSE 0,
                 params |-> IF node = "func" THEN params ELSE 0]
<1>1. /\ Evaltree /\ calls' = Append(calls, e)
      /\ ctl' = [at |-> "evaltree", flags |-> FirstFlags(node, flags)]
      /\ loopnest' = IF node = "func" THEN 0
                     ELSE IF node \in LoopKinds THEN loopnest + 1 ELSE loopnest
      /\ params' = IF node = "func" THEN n + 1 ELSE params
      /\ UNCHANGED <<evalskip, exitstatus, swallowed>>
  BY DEF evaltree, Evaluate
<1>2. /\ calls \in Seq(Call) /\ n \in Nat /\ CallsRight(calls, n, swallowed)
      /\ ContextRight(calls, n, loopnest, params, swallowed)
      /\ FlagsRight(calls, n, flags) /\ evalskip = "none" /\ exitstatus \in {0, 1}
  BY <1>1 DEF EvalInv, Evaltree
<1>3. CallRight(calls, n, e, swallowed)
  <2>1. loopnest \in Int /\ params \in Nat /\ flags \in SUBSET Flags
    BY <1>2 DEF ContextRight, FunctionAt, FlagsRight
  <2>2. e \in Call
    BY <2>1 DEF Call
  <2> QED BY <1>2, <2>2 DEF CallRight, ContextRight
<1>4. e.node = node /\ e.flags = flags /\ e.part = 1
  OBVIOUS
<1>5. e \in Call
  BY <1>3 DEF CallRight
<1> HIDE DEF e
<1>6. /\ calls' \in Seq(Call) /\ Len(calls') = n + 1 /\ calls'[n + 1] = e
      /\ \A j \in 1..n : calls'[j] = calls[j]
  BY <1>1, <1>2, <1>5
<1>7. Agree(calls, calls', n)
  BY <1>6 DEF Agree
<1> HIDE DEF n, flags
<1>8. /\ CallsRight(calls', n, swallowed) /\ CallRight(calls', n, e, swallowed)
      /\ FlagsRight(calls', n, flags)
      /\ ContextRight(calls', n, loopnest, params, swallowed)
  BY <1>2, <1>3, <1>7, SameBelow, CallsBelow DEF ContextRight
<1>9. CallsRight(calls', n + 1, swallowed)
  BY <1>2, <1>6, <1>8, CallsOneMore
<1>10. PartFlags(e, FirstFlags(node, flags))
  <2>1. flags \in SUBSET {"tested", "exit"}
    BY <1>2 DEF FlagsRight, Flags
  <2>2. CASE node \in {"not", "and", "or", "if", "while", "until"}
    <3>1. FirstFlags(node, flags) = {"tested"}
      BY <2>2 DEF FirstFlags
    <3> QED BY <1>4, <2>2, <3>1 DEF PartFlags, Tests, Flags
  <2>3. CASE node \in {"semi", "redir", "for", "func", "eval"}
    <3>1. FirstFlags(node, flags) = flags \cap {"tested"}
      BY <2>3 DEF FirstFlags
    <3> QED BY <1>4, <2>3, <3>1 DEF PartFlags, Tests, Flags
  <2>4. CASE node = "dot"
    <3>1. FirstFlags(node, flags) = {}
      BY <2>4 DEF FirstFlags
    <3> QED BY <1>4, <2>4, <3>1 DEF PartFlags, Tests, Flags
  <2>5. CASE node = "case"
    <3>1. FirstFlags(node, flags) = flags
      BY <2>5 DEF FirstFlags
    <3> QED BY <1>4, <2>1, <2>5, <3>1 DEF PartFlags, Tests, NoneWaits, Flags
  <2>6. CASE node = "subshell"
    <3>1. FirstFlags(node, flags) = flags \cup {"exit"}
      BY <2>6 DEF FirstFlags
    <3> QED BY <1>4, <2>1, <2>6, <3>1 DEF PartFlags, Tests, NoneWaits, Flags
  <2>7. CASE node = "background"
    <3>1. FirstFlags(node, flags) = {"exit"}
      BY <2>7 DEF FirstFlags
    <3> QED BY <1>4, <2>7, <3>1 DEF PartFlags, Tests, NoneWaits, Flags
  <2> QED BY <2>2, <2>3, <2>4, <2>5, <2>6, <2>7 DEF Nodes
<1>11. FlagsRight(calls', n + 1, FirstFlags(node, flags))
  BY <1>2, <1>4, <1>6, <1>8, <1>10, FlagsOfPart
<1>12. ContextRight(calls', n + 1, loopnest', params', swallowed)
  BY <1>1, <1>2, <1>4, <1>6, <1>8, ContextGrows DEF n
<1>13. ctl'.at = "evaltree" /\ ctl'.flags = FirstFlags(node, flags)
  BY <1>1
<1> QED BY <1>1, <1>2, <1>6, <1>9, <1>11, <1>12, <1>13 DEF EvalInv

\* What the ends of lists, tests and negations have in common: the context and a
\* skip stay as they are, as the call that ends is neither a function nor a loop.
LEMMA PlainLeaveKeeps ==
  ASSUME EvalInv, ctl.at = "return", calls # <<>>,
         TopCall.node # "func", TopCall.node \notin LoopKinds, Pop,
         NEW status \in {0, 1}, NEW checkexit, exitstatus' = status,
         Finish(status, TopCall.flags, checkexit),
         UNCHANGED <<skipcount, loopnest, params, target, swallowed>>,
         evalskip' = evalskip \/ evalskip' = "none",
         evalskip' = "func" => exitstatus' = retstatus'
  PROVE  EvalInv'
<1> DEFINE m == Len(calls) - 1
<1>1. m \in Nat /\ m + 1 = Len(calls) /\ TopCall = calls[m + 1]
  BY TopIs
<1> HIDE DEF m
<1>2. ContextRight(calls, m + 1, loopnest, params, swallowed)
      /\ evalskip \in {"none", "break", "cont", "func", "funcdef"}
  BY <1>1 DEF EvalInv
<1>3. /\ ContextRight(calls, m, loopnest, params, swallowed)
      /\ LoopsAfter(calls, m + 1, params) = LoopsAfter(calls, m, params)
  <2>1. FunctionAt(calls, m + 1, params)
    BY <1>2 DEF ContextRight
  <2>2. ContextRight(calls, m + 1, loopnest, params, swallowed)
          => ContextRight(calls, m, IF TopCall.node \in LoopKinds THEN loopnest - 1 ELSE loopnest,
                          params, swallowed)
    BY <1>1, ContextGrows
  <2>3. LoopsAfter(calls, m + 1, params)
          = LoopsAfter(calls, m, params) \cup (IF TopCall.node \in LoopKinds THEN {m + 1} ELSE {})
    BY <1>1, <2>1, LoopsGrow
  <2> QED BY <1>2, <2>2, <2>3
<1>4. evalskip' \in {"break", "cont"} /\ ~swallowed =>
        SkipRight(calls, m, params, skipcount, target)
  <2>1. evalskip' \in {"break", "cont"} /\ ~swallowed =>
          SkipRight(calls, m + 1, params, skipcount, target)
    BY <1>1 DEF EvalInv
  <2> QED BY <1>3, <2>1 DEF SkipRight
<1>5. ctl'.at \in {"return", "exited"}
  BY FinishIs
<1> QED BY <1>2, <1>3, <1>4, <1>5, LeaveKeeps DEF m

\* The second part of a list or an if.
LEMMA SecondPartKeeps ==
  ASSUME EvalInv, calls # <<>>, TopCall.node \in {"and", "or", "semi", "if"},
         Continue(2, TopCall.flags), UNCHANGED <<skipVars, exitstatus, swallowed>>,
         evalskip = "none"
  PROVE  EvalInv'
<1> DEFINE e == [TopCall EXCEPT !.part = 2]
<1>1. TopCall \in Call /\ CallRight(calls, Len(calls) - 1, TopCall, swallowed)
      /\ TopCall = calls[Len(calls)]
  BY TopIs
<1>2. /\ e \in Call /\ e.node = TopCall.node /\ e.flags = TopCall.flags
      /\ e.loops = TopCall.loops /\ e.params = TopCall.params /\ e.part = 2
  BY <1>1 DEF Call
<1>3. calls' = [calls EXCEPT ![Len(calls)] = e]
  BY <1>1 DEF Continue
<1>4. ctl' = [at |-> "evaltree", flags |-> TopCall.flags]
  BY DEF Continue, Evaluate
<1> HIDE DEF e
<1>5. PartFlags(e, TopCall.flags)
  BY <1>1, <1>2 DEF PartFlags, CallRight, FlagsRight, Tests, NoneWaits
<1>6. evalskip' = "none" /\ exitstatus' \in {0, 1} /\ UNCHANGED <<loopnest, params>>
  BY DEF skipVars, EvalInv
<1> QED BY <1>2, <1>3, <1>4, <1>5, <1>6, ContinueKeeps

\* Another command of a text that eval or the dot command reads.
LEMMA NextTextKeeps ==
  ASSUME EvalInv, calls # <<>>, NEW flags,
         \/ TopCall.node = "eval" /\ flags = TopCall.flags \cap {"tested"}
         \/ TopCall.node = "dot" /\ flags = {},
         TopCall.part = 1,
         Continue(1, flags), evalskip' = "none",
         UNCHANGED <<loopnest, params, exitstatus, swallowed>>
  PROVE  EvalInv'
<1>1. TopCall \in Call /\ TopCall = calls[Len(calls)]
  BY TopIs
<1>2. calls' = [calls EXCEPT ![Len(calls)] = TopCall]
  <2>1. [TopCall EXCEPT !.part = 1] = TopCall
    BY <1>1 DEF Call
  <2>2. calls' = [calls EXCEPT ![Len(calls)] = [TopCall EXCEPT !.part = 1]]
    BY <1>1 DEF Continue
  <2> QED BY <2>1, <2>2
<1>3. ctl' = [at |-> "evaltree", flags |-> flags]
  BY DEF Continue, Evaluate
<1>4. PartFlags(TopCall, flags)
  BY <1>1 DEF PartFlags, Tests, NoneWaits, Flags
<1>5. exitstatus' \in {0, 1}
  BY DEF EvalInv
<1> QED BY <1>1, <1>2, <1>3, <1>4, <1>5, ContinueKeeps

LEMMA evalnotKeeps ==
  ASSUME EvalInv, evalnot
  PROVE  EvalInv'
<1>1. /\ ctl.at = "return" /\ calls # <<>> /\ TopCall.node = "not" /\ Pop
      /\ exitstatus' = Inverted(exitstatus) /\ Finish(Inverted(exitstatus), TopCall.flags, FALSE)
      /\ retstatus' = IF evalskip = "none" THEN retstatus ELSE Inverted(retstatus)
      /\ UNCHANGED <<evalskip, skipcount, loopnest, params, target, swallowed>>
  BY DEF evalnot, Returns, Leave
<1>2. Inverted(exitstatus) \in {0, 1} /\ (evalskip = "func" => exitstatus = retstatus)
  BY <1>1 DEF EvalInv, Inverted
<1>3. evalskip' = "func" => exitstatus' = retstatus'
  BY <1>1, <1>2
<1> QED BY <1>1, <1>2, <1>3, PlainLeaveKeeps DEF LoopKinds

LEMMA evalbinaryKeeps ==
  ASSUME EvalInv, evalbinary \/ (\E else \in BOOLEAN : evalif(else))
  PROVE  EvalInv'
<1>1. /\ ctl.at = "return" /\ calls # <<>> /\ TopCall.node \in {"and", "or", "semi", "if"}
      /\ UNCHANGED <<skipVars, swallowed>>
      /\ \/ Leave(exitstatus, FALSE)
         \/ Leave(0, FALSE) /\ evalskip = "none"
         \/ Continue(2, TopCall.flags) /\ exitstatus' = exitstatus /\ evalskip = "none"
  BY DEF evalbinary, evalif, Returns, Skips
<1>2. exitstatus \in {0, 1} /\ (evalskip = "func" => exitstatus = retstatus)
  BY <1>1 DEF EvalInv
<1>3. UNCHANGED <<evalskip, skipcount, loopnest, params, target, retstatus>>
  BY <1>1 DEF skipVars
<1>4. CASE Leave(exitstatus, FALSE)
  <2>1. Pop /\ exitstatus' = exitstatus /\ Finish(exitstatus, TopCall.flags, FALSE)
    BY <1>4 DEF Leave
  <2> QED BY <1>1, <1>2, <1>3, <2>1, PlainLeaveKeeps DEF LoopKinds
<1>5. CASE Leave(0, FALSE) /\ evalskip = "none"
  <2>1. Pop /\ exitstatus' = 0 /\ Finish(0, TopCall.flags, FALSE)
    BY <1>5 DEF Leave
  <2> QED BY <1>1, <1>3, <1>5, <2>1, PlainLeaveKeeps DEF LoopKinds
<1>6. CASE Continue(2, TopCall.flags) /\ exitstatus' = exitstatus /\ evalskip = "none"
  BY <1>1, <1>6, SecondPartKeeps
<1> QED BY <1>1, <1>4, <1>5, <1>6

LEMMA evallastKeeps ==
  ASSUME EvalInv, evallast
  PROVE  EvalInv'
<1>1. /\ ctl.at = "return" /\ calls # <<>>
      /\ TopCall.node \in {"and", "or", "semi", "if", "redir", "case"}
      /\ UNCHANGED <<evalskip, skipcount, loopnest, params, target, retstatus, swallowed>>
      /\ Pop /\ exitstatus' = exitstatus /\ Finish(exitstatus, TopCall.flags, FALSE)
  BY DEF evallast, Returns, Leave, skipVars
<1>2. exitstatus \in {0, 1} /\ (evalskip = "func" => exitstatus = retstatus)
  BY <1>1 DEF EvalInv
<1> QED BY <1>1, <1>2, PlainLeaveKeeps DEF LoopKinds

LEMMA evalstringKeeps ==
  ASSUME EvalInv, NEW more \in BOOLEAN, evalstring(more)
  PROVE  EvalInv'
<1>1. /\ ctl.at = "return" /\ calls # <<>> /\ TopCall.node = "eval" /\ TopCall.part = 1
      /\ UNCHANGED <<evalskip, skipcount, loopnest, params, target, retstatus, swallowed>>
  BY DEF evalstring, Returns, skipVars
<1>2. exitstatus \in {0, 1} /\ (evalskip = "func" => exitstatus = retstatus)
  BY <1>1 DEF EvalInv
<1>3. CASE more /\ evalskip = "none"
  <2>1. Continue(1, TopCall.flags \cap {"tested"}) /\ exitstatus' = exitstatus
    BY <1>3 DEF evalstring
  <2> QED BY <1>1, <1>3, <2>1, NextTextKeeps
<1>4. CASE ~(more /\ evalskip = "none")
  <2>1. Pop /\ exitstatus' = exitstatus /\ Finish(exitstatus, TopCall.flags, TRUE)
    BY <1>4 DEF evalstring, Leave
  <2> QED BY <1>1, <1>2, <2>1, PlainLeaveKeeps DEF LoopKinds
<1> QED BY <1>3, <1>4

LEMMA dotcmdKeeps ==
  ASSUME EvalInv, NEW more \in BOOLEAN, dotcmd(more)
  PROVE  EvalInv'
<1>1. /\ ctl.at = "return" /\ calls # <<>> /\ TopCall.node = "dot" /\ TopCall.part = 1
      /\ UNCHANGED <<skipcount, loopnest, params, target, swallowed>>
      /\ evalskip' = IF evalskip \in {"func", "funcdef"} THEN "none" ELSE evalskip
  BY DEF dotcmd, Returns, EndReturn
<1>2. exitstatus \in {0, 1} /\ evalskip' # "func" /\ (evalskip' = evalskip \/ evalskip' = "none")
  BY <1>1 DEF EvalInv
<1>3. CASE more /\ evalskip = "none"
  <2>1. Continue(1, {}) /\ exitstatus' = exitstatus /\ evalskip' = "none"
    BY <1>1, <1>3 DEF dotcmd
  <2> QED BY <1>1, <2>1, NextTextKeeps
<1>4. CASE ~(more /\ evalskip = "none")
  <2>1. Pop /\ exitstatus' = exitstatus /\ Finish(exitstatus, TopCall.flags, TRUE)
    BY <1>4 DEF dotcmd, Leave
  <2> QED BY <1>1, <1>2, <2>1, PlainLeaveKeeps DEF LoopKinds
<1> QED BY <1>3, <1>4

\* A break or continue is never on its way out of a function.
LEMMA evalfunKeeps ==
  ASSUME EvalInv, evalfun
  PROVE  EvalInv'
<1> DEFINE m == Len(calls) - 1
<1>1. /\ ctl.at = "return" /\ calls # <<>> /\ TopCall.node = "func"
      /\ loopnest' = TopCall.loops /\ params' = TopCall.params /\ swallowed' = swallowed
      /\ evalskip' = IF evalskip \in {"func", "funcdef"} THEN "none" ELSE evalskip
      /\ Pop /\ exitstatus' = exitstatus /\ Finish(exitstatus, TopCall.flags, TRUE)
  BY DEF evalfun, Returns, EndReturn, Leave, LoopsSaved
<1>2. m \in Nat /\ m + 1 = Len(calls) /\ TopCall = calls[m + 1] /\ TopCall \in Call
      /\ CallRight(calls, m, TopCall, swallowed)
  BY <1>1, TopIs
<1>3. ContextRight(calls, m, loopnest', params', swallowed)
  BY <1>1, <1>2 DEF CallRight, ContextRight, Call
<1> HIDE DEF m
<1>4. ASSUME evalskip \in {"break", "cont"}, ~swallowed PROVE FALSE
  <2>1. SkipRight(calls, m + 1, params, skipcount, target) /\ FunctionAt(calls, m + 1, params)
    BY <1>1, <1>2, <1>4 DEF EvalInv, ContextRight
  <2>2. params = m + 1
    BY <1>1, <1>2, <2>1 DEF FunctionAt
  <2>3. LoopsAfter(calls, m + 1, params) = {}
    BY <1>2, <2>2 DEF LoopsAfter
  <2> QED BY <2>1, <2>3 DEF SkipRight
<1>5. /\ evalskip' \in {"none", "break", "cont", "func", "funcdef"} /\ evalskip' # "func"
      /\ exitstatus' \in {0, 1} /\ ~(evalskip' \in {"break", "cont"} /\ ~swallowed)
  BY <1>1, <1>4 DEF EvalInv
<1>6. ctl'.at \in {"return", "exited"}
  BY <1>1, FinishIs
<1> QED BY <1>1, <1>3, <1>5, <1>6, LeaveKeeps DEF m

\* Where a loop ends or goes on, whatever it skips.
LEMMA LoopStep ==
  ASSUME EvalInv, ctl.at = "return", calls # <<>>, TopCall.node \in LoopKinds, skiploop
  PROVE  /\ evalskip' \in {"none", "break", "cont", "func", "funcdef"}
         /\ Skipped \in {"none", "cont"} => evalskip' = "none"
         /\ evalskip' = "func" => Skipped = "func" /\ evalskip = "func"
         /\ Skipped = "func" => evalskip = "func"
         /\ evalskip' \in {"break", "cont"} => Skipped = "break"
         /\ evalskip' \in {"break", "cont"} /\ ~swallowed =>
              SkipRight(calls, Len(calls) - 1, params, skipcount', target')
         /\ evalskip \in {"break", "cont"} /\ evalskip' = "none" /\ ~swallowed =>
              Len(calls) = target
         /\ ContextRight(calls, Len(calls) - 1, loopnest - 1, params, swallowed)
<1> DEFINE m == Len(calls) - 1
           L == LoopsAfter(calls, m + 1, params)
           K == LoopsAfter(calls, m, params)
           From(S) == {l \in S : l >= target}
<1>1. m \in Nat /\ m + 1 = Len(calls) /\ TopCall = calls[m + 1]
  BY TopIs
<1>0. Len(calls) - 1 = m
  OBVIOUS
<1> HIDE DEF m
<1>2. /\ ContextRight(calls, m + 1, loopnest, params, swallowed)
      /\ evalskip \in {"none", "break", "cont", "func", "funcdef"}
      /\ evalskip \in {"break", "cont"} /\ ~swallowed =>
           SkipRight(calls, m + 1, params, skipcount, target)
  BY <1>1 DEF EvalInv
<1>3. TopCall.node # "func"
  BY DEF LoopKinds
<1>4. ContextRight(calls, m, loopnest - 1, params, swallowed) /\ L = K \cup {m + 1}
  <2>1. FunctionAt(calls, m + 1, params)
    BY <1>2 DEF ContextRight
  <2> HIDE DEF L, K
  <2>2. ContextRight(calls, m + 1, loopnest, params, swallowed)
          => ContextRight(calls, m, IF TopCall.node \in LoopKinds THEN loopnest - 1 ELSE loopnest,
                          params, swallowed)
    BY <1>1, <1>3, ContextGrows
  <2>3. LoopsAfter(calls, m + 1, params)
          = LoopsAfter(calls, m, params) \cup (IF TopCall.node \in LoopKinds THEN {m + 1} ELSE {})
    BY <1>1, <1>3, <2>1, LoopsGrow
  <2>4. ContextRight(calls, m, loopnest - 1, params, swallowed)
    BY <1>2, <2>2
  <2>5. L = K \cup {m + 1}
    BY <2>3 DEF L, K
  <2> QED BY <2>4, <2>5
<1>5. K \in SUBSET (1..m) /\ IsFiniteSet(K)
  BY <1>1, LoopsAre
<1>6. ASSUME evalskip \in {"break", "cont"}, ~swallowed
      PROVE  /\ target \in L /\ skipcount = Cardinality(From(L)) /\ skipcount \in Nat \ {0}
             /\ skipcount = 1 <=> target = m + 1
             /\ skipcount # 1 => target \in K /\ skipcount - 1 = Cardinality(From(K))
  <2>1. target \in L /\ skipcount = Cardinality(From(L))
    BY <1>2, <1>6 DEF SkipRight
  <2>2. IsFiniteSet(From(K)) /\ Cardinality(From(K)) \in Nat
    BY <1>5, FS_Subset, FS_CardinalityType
  <2>3. m + 1 \notin K /\ \A l \in L : l \in Int /\ l <= m + 1
    <3>1. \A l \in K : l \in Int /\ l <= m /\ l <= m + 1
      <4>1. ASSUME NEW l \in K PROVE l \in Int /\ l <= m /\ l <= m + 1
        <5>1. l \in 1..m
          BY <1>5
        <5> QED BY <1>1, <5>1
      <4> QED BY <4>1
    <3> QED BY <1>1, <1>4, <3>1
  <2>4. target \in Int /\ m + 1 >= target
    BY <1>1, <2>1, <2>3
  <2> HIDE DEF L, K
  <2>5. From(L) = From(K) \cup {m + 1} /\ m + 1 \notin From(K)
    BY <1>4, <2>3, <2>4
  <2> HIDE DEF From
  <2>6. Cardinality(From(L)) = Cardinality(From(K)) + 1
    BY <2>2, <2>5, FS_AddElement
  <2>7. ASSUME target = m + 1 PROVE From(K) = {}
    <3>1. \A l \in K : ~(l >= target)
      <4>1. ASSUME NEW l \in K PROVE ~(l >= target)
        <5>1. l \in 1..m
          BY <1>5 DEF K
        <5> QED BY <1>1, <2>7, <5>1
      <4> QED BY <4>1
    <3> QED BY <3>1 DEF From
  <2>8. ASSUME target # m + 1 PROVE target \in K /\ target \in From(K)
    <3>1. target \in K
      BY <1>4, <2>1, <2>8
    <3> QED BY <2>4, <3>1 DEF From
  <2>9. Cardinality(From(K)) = 0 <=> From(K) = {}
    BY <2>2, FS_EmptySet
  <2> QED BY <2>1, <2>2, <2>6, <2>7, <2>8, <2>9
<1>7. /\ evalskip' = IF LastSkipped THEN "none" ELSE evalskip
      /\ skipcount' = IF evalskip \in {"break", "cont"} THEN skipcount - 1 ELSE skipcount
      /\ target' = IF LastSkipped THEN 0 ELSE target
  BY DEF skiploop
<1>8. LastSkipped => evalskip \in {"break", "cont"}
  BY DEF LastSkipped
<1>9. ASSUME evalskip \in {"break", "cont"}, ~swallowed
      PROVE  LastSkipped <=> skipcount = 1
  BY <1>6, <1>9 DEF LastSkipped
<1>10. ASSUME evalskip' \in {"break", "cont"}, ~swallowed
       PROVE  SkipRight(calls, m, params, skipcount', target')
  <2>1. evalskip \in {"break", "cont"} /\ ~LastSkipped
    BY <1>7, <1>10
  <2>2. target \in K /\ skipcount - 1 = Cardinality(From(K))
    BY <1>6, <1>9, <1>10, <2>1
  <2>3. skipcount' = skipcount - 1 /\ target' = target
    BY <1>7, <2>1
  <2> HIDE DEF From
  <2>4. SkipRight(calls, m, params, skipcount', target) 
    BY <2>2, <2>3 DEF SkipRight, From
  <2> QED BY <2>3, <2>4
<1>11. ASSUME evalskip \in {"break", "cont"}, evalskip' = "none", ~swallowed
       PROVE  Len(calls) = target
  <2>1. LastSkipped
    BY <1>7, <1>11
  <2> QED BY <1>1, <1>6, <1>9, <1>11, <2>1
<1> HIDE DEF From, K, L
<1> QED BY <1>0, <1>2, <1>4, <1>7, <1>8, <1>10, <1>11 DEF Skipped

LEMMA LoopEndsKeeps ==
  ASSUME EvalInv, ctl.at = "return", calls # <<>>, TopCall.node \in LoopKinds, skiploop,
         NEW status \in {0, 1}, LoopEnds(status), evalskip' = "func" => status = retstatus,
         UNCHANGED <<params, retstatus, swallowed>>
  PROVE  EvalInv'
<1>1. /\ Pop /\ exitstatus' = status /\ loopnest' = loopnest - 1
      /\ ctl'.at \in {"return", "exited"}
  BY FinishIs DEF LoopEnds, Leave
<1>2. /\ evalskip' \in {"none", "break", "cont", "func", "funcdef"}
      /\ evalskip' \in {"break", "cont"} /\ ~swallowed =>
              SkipRight(calls, Len(calls) - 1, params, skipcount', target')
      /\ ContextRight(calls, Len(calls) - 1, loopnest - 1, params, swallowed)
  BY LoopStep
<1> QED BY <1>1, <1>2, LeaveKeeps

\* The condition or the body of a loop once more.
LEMMA LoopGoesOn ==
  ASSUME EvalInv, ctl.at = "return", calls # <<>>, TopCall.node \in LoopKinds, skiploop,
         Skipped \in {"none", "cont"}, NEW part \in {1, 2}, NEW status \in {0, 1}, NEW flags,
         \/ TopCall.node # "for" /\ part = 1 /\ flags = {"tested"}
         \/ TopCall.node # "for" /\ part = 2 /\ flags = TopCall.flags \cap {"tested"}
         \/ TopCall.node = "for" /\ flags = TopCall.flags \cap {"tested"},
         calls' = [calls EXCEPT ![Len(calls)] = [TopCall EXCEPT !.part = part, !.status = status]],
         Evaluate(flags), exitstatus' \in {0, 1}, UNCHANGED <<loopnest, params, swallowed>>
  PROVE  EvalInv'
<1> DEFINE e == [TopCall EXCEPT !.part = part, !.status = status]
<1>1. TopCall \in Call
  BY TopIs
<1>2. /\ e \in Call /\ e.node = TopCall.node /\ e.flags = TopCall.flags
      /\ e.loops = TopCall.loops /\ e.params = TopCall.params /\ e.part = part
  BY <1>1 DEF Call
<1>3. calls' = [calls EXCEPT ![Len(calls)] = e]
  OBVIOUS
<1> HIDE DEF e
<1>4. evalskip' = "none"
  BY LoopStep
<1>5. PartFlags(e, flags)
  BY <1>2 DEF PartFlags, Tests, LoopKinds, Flags
<1>6. ctl' = [at |-> "evaltree", flags |-> flags]
  BY DEF Evaluate
<1> QED BY <1>2, <1>3, <1>4, <1>5, <1>6, ContinueKeeps

LEMMA evalloopKeeps ==
  ASSUME EvalInv, evalloop_test \/ evalloop_body \/ (\E more \in BOOLEAN : evalfor(more))
  PROVE  EvalInv'
<1>1. /\ ctl.at = "return" /\ calls # <<>> /\ TopCall.node \in LoopKinds /\ skiploop
      /\ UNCHANGED <<params, retstatus, swallowed>>
  BY DEF evalloop_test, evalloop_body, evalfor, Returns, LoopKinds
<1>2. /\ exitstatus \in {0, 1} /\ (evalskip = "func" => exitstatus = retstatus)
      /\ TopCall \in Call /\ TopCall = calls[Len(calls)]
  BY <1>1, TopIs DEF EvalInv
<1>3. TopCall.status \in {0, 1} /\ \A part \in {1, 2} :
        [TopCall EXCEPT !.part = part] = [TopCall EXCEPT !.part = part, !.status = TopCall.status]
  BY <1>2 DEF Call
<1>4. /\ evalskip' = "func" => Skipped = "func" /\ evalskip = "func"
  BY <1>1, LoopStep
<1>5. ASSUME NEW part \in {1, 2}, NEW flags, Continue(part, flags)
      PROVE  /\ calls' = [calls EXCEPT ![Len(calls)] =
                            [TopCall EXCEPT !.part = part, !.status = TopCall.status]]
             /\ Evaluate(flags)
  <2>1. calls' = [calls EXCEPT ![Len(calls)] = [TopCall EXCEPT !.part = part]]
    BY <1>2, <1>5 DEF Continue
  <2> QED BY <1>3, <1>5, <2>1 DEF Continue
<1>6. CASE evalloop_test
  <2>1. TopCall.node # "for"
    BY <1>6 DEF evalloop_test, Returns
  <2>2. \/ Skipped = "cont" /\ Continue(1, {"tested"}) /\ UNCHANGED <<exitstatus, loopnest>>
        \/ /\ Skipped = "none" /\ Continue(2, TopCall.flags \cap {"tested"})
           /\ UNCHANGED <<exitstatus, loopnest>>
        \/ LoopEnds(StatusAtCondition(Skipped))
    BY <1>6 DEF evalloop_test
  <2>3. CASE Skipped = "cont" /\ Continue(1, {"tested"}) /\ UNCHANGED <<exitstatus, loopnest>>
    BY <1>1, <1>2, <1>3, <1>5, <2>1, <2>3, LoopGoesOn
  <2>4. CASE /\ Skipped = "none" /\ Continue(2, TopCall.flags \cap {"tested"})
             /\ UNCHANGED <<exitstatus, loopnest>>
    BY <1>1, <1>2, <1>3, <1>5, <2>1, <2>4, LoopGoesOn
  <2>5. CASE LoopEnds(StatusAtCondition(Skipped))
    <3>1. StatusAtCondition(Skipped) \in {0, 1}
          /\ (evalskip' = "func" => StatusAtCondition(Skipped) = retstatus)
      BY <1>2, <1>3, <1>4 DEF StatusAtCondition
    <3> QED BY <1>1, <2>5, <3>1, LoopEndsKeeps
  <2> QED BY <2>2, <2>3, <2>4, <2>5
<1>7. CASE evalloop_body
  <2>1. TopCall.node # "for"
    BY <1>7 DEF evalloop_body, Returns
  <2>2. CASE Skipped \in {"none", "cont"}
    <3>1. /\ calls' = [calls EXCEPT ![Len(calls)] =
                         [TopCall EXCEPT !.part = 1, !.status = exitstatus]]
          /\ Evaluate({"tested"}) /\ UNCHANGED <<exitstatus, loopnest>>
      BY <1>2, <1>7, <2>2 DEF evalloop_body
    <3> QED BY <1>1, <1>2, <2>1, <2>2, <3>1, LoopGoesOn
  <2>3. CASE Skipped \notin {"none", "cont"}
    <3>1. LoopEnds(exitstatus)
      BY <1>7, <2>3 DEF evalloop_body
    <3> QED BY <1>1, <1>2, <1>4, <3>1, LoopEndsKeeps
  <2> QED BY <2>2, <2>3
<1>8. ASSUME NEW more \in BOOLEAN, evalfor(more) PROVE EvalInv'
  <2>1. TopCall.node = "for"
    BY <1>8 DEF evalfor, Returns
  <2>2. CASE more /\ Skipped \in {"none", "cont"}
    <3>1. /\ Continue(1, TopCall.flags \cap {"tested"}) /\ UNCHANGED <<exitstatus, loopnest>>
      BY <1>8, <2>2 DEF evalfor
    <3> QED BY <1>1, <1>2, <1>3, <1>5, <2>1, <2>2, <3>1, LoopGoesOn
  <2>3. CASE ~(more /\ Skipped \in {"none", "cont"})
    <3>1. LoopEnds(exitstatus)
      BY <1>8, <2>3 DEF evalfor
    <3> QED BY <1>1, <1>2, <1>4, <3>1, LoopEndsKeeps
  <2> QED BY <2>2, <2>3
<1> QED BY <1>6, <1>7, <1>8

\* An error that a handler goes on with leaves the context of the handler,
\* whatever functions it unwinds, but for loopnest.
LEMMA UnwoundContext ==
  ASSUME EvalInv, NEW to \in 1..Len(calls), calls[to].node \in {"eval", "dot"},
         NEW left, left = {k \in DOMAIN calls : k > to /\ calls[k].node = "func"},
         NEW f, f = (IF left = {} THEN params ELSE calls[Min(left)].params),
         NEW nest, nest = (IF left = {} THEN loopnest ELSE calls[Min(left)].loops)
  PROVE  FunctionAt(calls, to - 1, f) /\ nest \in Int
<1> DEFINE n == Len(calls)
<1>1. /\ calls \in Seq(Call) /\ n \in Nat /\ DOMAIN calls = 1..n
      /\ CallsRight(calls, n, swallowed)
      /\ FunctionAt(calls, n, params) /\ loopnest \in Int
  BY DEF EvalInv, ContextRight
<1> HIDE DEF n
<1>2. to \in 1..n
  BY DEF n
<1>3. CASE left = {}
  <2>1. \A k \in 1..n : k > to => calls[k].node # "func"
    BY <1>1, <1>3
  <2>2. \A k \in 1..n : k > to - 1 => calls[k].node # "func"
    BY <1>1, <1>2, <2>1
  <2>3. f = params /\ nest = loopnest
    BY <1>3
  <2>4. params \in 0..(to - 1)
    BY <1>1, <1>2, <2>2 DEF FunctionAt
  <2> QED BY <1>1, <1>2, <2>3, <2>4 DEF FunctionAt
<1>4. CASE left # {}
  <2> DEFINE k == Min(left)
  <2>1. left \in SUBSET Nat
    BY <1>1
  <2>2. k \in left /\ \A y \in left : k <= y
    <3>1. \E m \in left : \A y \in left : m <= y
      BY <1>4, <2>1, LeastElement
    <3> QED BY <3>1 DEF Min
  <2>3. f = calls[k].params /\ nest = calls[k].loops
    BY <1>4
  <2>4. k \in 1..n /\ k > to /\ calls[k].node = "func"
    BY <1>1, <2>2
  <2>5. \A j \in 1..n : j > to /\ calls[j].node = "func" => k <= j
    BY <1>1, <2>2
  <2> HIDE DEF k
  <2>6. CallRight(calls, k - 1, calls[k], swallowed)
    BY <1>1, <2>4 DEF CallsRight
  <2>7. FunctionAt(calls, k - 1, f) /\ nest \in Int
    BY <2>3, <2>4, <2>6 DEF CallRight, Call
  <2>8. \A j \in 1..(k - 1) : j > to - 1 => calls[j].node # "func"
    <3> SUFFICES ASSUME NEW j \in 1..(k - 1), j > to - 1, calls[j].node = "func" PROVE FALSE
      OBVIOUS
    <3>1. j \in 1..n /\ j # to /\ k \in Int /\ j < k
      BY <1>1, <1>2, <2>4
    <3>2. j > to
      BY <1>2, <3>1
    <3> QED BY <2>5, <3>1, <3>2
  <2>9. f \in 0..(to - 1)
    <3>1. f \in 0..(k - 1) /\ (f # 0 => calls[f].node = "func")
      BY <2>7 DEF FunctionAt
    <3> QED BY <1>2, <2>4, <2>8, <3>1
  <2>10. \A j \in 1..(to - 1) : j \in 1..(k - 1)
    BY <1>1, <1>2, <2>4
  <2> QED BY <2>7, <2>9, <2>10 DEF FunctionAt
<1> QED BY <1>3, <1>4

LEMMA exraiseKeeps ==
  ASSUME EvalInv, exraise
  PROVE  EvalInv'
<1> DEFINE base     == Max({0} \cup {k \in DOMAIN calls : calls[k].node = "subshell"})
           handlers == {k \in DOMAIN calls : k > base /\ calls[k].node \in {"eval", "dot"}
                                             /\ calls[k].swallows}
           to       == Max({0} \cup handlers)
           left     == {k \in DOMAIN calls : k > to /\ calls[k].node = "func"}
           n        == Len(calls)
<1>1. /\ Evaltree /\ exitstatus' = 1 /\ UNCHANGED <<skipcount, target, retstatus>>
      /\ IF handlers # {}
         THEN /\ calls' = SubSeq(calls, 1, to - 1) /\ swallowed' = TRUE
              /\ loopnest' = IF left = {} THEN loopnest ELSE calls[Min(left)].loops
              /\ params' = IF left = {} THEN params ELSE calls[Min(left)].params
              /\ Finish(1, calls[to].flags, TRUE)
              /\ UNCHANGED evalskip
         ELSE \/ /\ calls' = <<>> /\ ctl' = [at |-> "cmdloop", flags |-> {}]
                 /\ evalskip' = "none" /\ loopnest' = 0 /\ params' = 0 /\ swallowed' = FALSE
              \/ Exit /\ UNCHANGED <<calls, evalskip, loopnest, params, swallowed>>
  BY DEF exraise
<1>2. /\ calls \in Seq(Call) /\ n \in Nat /\ DOMAIN calls = 1..n
      /\ CallsRight(calls, n, swallowed) /\ evalskip = "none"
  BY <1>1 DEF EvalInv, Evaltree
<1>3. CASE handlers # {}
  <2>1. to \in handlers
    <3>1. {0} \cup handlers \in SUBSET (0..n) /\ {0} \cup handlers # {}
      BY <1>2
    <3>2. \A h \in handlers : h \in 1..n
      BY <1>2
    <3> HIDE DEF handlers, n
    <3>3. to \in {0} \cup handlers /\ \A y \in {0} \cup handlers : to >= y
      BY <1>2, <3>1, MaxIs
    <3> HIDE DEF to
    <3>4. PICK h \in handlers : to >= h
      BY <1>3, <3>3
    <3>5. to # 0
      BY <3>2, <3>4
    <3> QED BY <3>3, <3>5
  <2>2. to \in 1..n /\ calls[to].node \in {"eval", "dot"}
    BY <1>2, <2>1
  <2> HIDE DEF handlers, to, base
  <2>3. FunctionAt(calls, to - 1, params') /\ loopnest' \in Int
    BY <1>1, <1>3, <2>2, UnwoundContext
  <2> HIDE DEF left
  <2>4. calls' = SubSeq(calls, 1, to - 1) /\ swallowed' = TRUE /\ evalskip' = "none"
        /\ ctl'.at \in {"return", "exited"}
    BY <1>1, <1>2, <1>3, FinishIs
  <2>5. /\ calls' \in Seq(Call) /\ Len(calls') = to - 1
        /\ \A j \in 1..(to - 1) : calls'[j] = calls[j]
    <3>1. to - 1 \in 0..n /\ \A j \in 1..(to - 1) : j \in 1..n
      BY <1>2, <2>2
    <3>2. SubSeq(calls, 1, to - 1) = [j \in 1..(to - 1) |-> calls[j]]
      BY <1>2, <2>2
    <3>3. \A j \in 1..(to - 1) : calls[j] \in Call
      BY <1>2, <3>1
    <3> QED BY <2>4, <3>1, <3>2, <3>3
  <2>6. to - 1 \in Nat /\ Agree(calls, calls', to - 1) /\ to - 1 \in 0..n
    BY <1>2, <2>2, <2>5 DEF Agree
  <2>7. CallsRight(calls', to - 1, swallowed')
    <3>1. CallsRight(calls, to - 1, swallowed)
      BY <1>2, <2>6, CallsFewer
    <3>2. CallsRight(calls', to - 1, swallowed)
      BY <2>6, <3>1, CallsBelow
    <3> QED BY <2>4, <3>2 DEF CallsRight, CallRight
  <2>8. ContextRight(calls', to - 1, loopnest', params', swallowed')
    <3>1. FunctionAt(calls', to - 1, params')
      BY <2>3, <2>6, SameBelow
    <3> QED BY <2>3, <2>4, <3>1 DEF ContextRight
  <2> QED BY <1>1, <2>4, <2>5, <2>7, <2>8 DEF EvalInv
<1>4. CASE /\ calls' = <<>> /\ ctl' = [at |-> "cmdloop", flags |-> {}]
           /\ evalskip' = "none" /\ loopnest' = 0 /\ params' = 0 /\ swallowed' = FALSE
  <2>1. calls' \in Seq(Call) /\ Len(calls') = 0
    BY <1>4
  <2>2. /\ FunctionAt(calls', 0, 0) /\ LoopsAfter(calls', 0, 0) = {}
        /\ CallsRight(calls', 0, swallowed')
    BY DEF FunctionAt, LoopsAfter, CallsRight
  <2>3. ContextRight(calls', 0, 0, 0, swallowed')
    BY <2>2, FS_EmptySet DEF ContextRight
  <2> QED BY <1>1, <1>4, <2>1, <2>2, <2>3 DEF EvalInv
<1>5. CASE Exit /\ UNCHANGED <<calls, evalskip, loopnest, params, swallowed>>
  <2>1. ctl'.at = "exited" /\ evalskip' = "none"
    BY <1>2, <1>5 DEF Exit
  <2> QED BY <1>1, <1>5, <2>1, SimpleKeeps
<1> QED BY <1>1, <1>3, <1>4, <1>5

LEMMA EvalNextKeeps ==
  ASSUME EvalInv, EvalNext
  PROVE  EvalInv'
<1>1. ASSUME NEW node \in Nodes, NEW swallows \in BOOLEAN, evaltree(node, swallows) PROVE EvalInv'
  BY <1>1, evaltreeKeeps
<1>2. CASE \/ \E node \in {"not", "and", "or", "semi", "if", "while", "until", "for", "redir",
                           "case", "func", "subshell", "background"} : evaltree(node, FALSE)
           \/ \E node \in {"eval", "dot"}, swallows \in BOOLEAN : evaltree(node, swallows)
  BY <1>1, <1>2 DEF Nodes
<1>3. CASE \/ evalbinary \/ evalloop_test \/ evalloop_body
           \/ \E more \in BOOLEAN : evalif(more) \/ evalfor(more)
  BY <1>3, evalbinaryKeeps, evalloopKeeps
<1> QED BY <1>2, <1>3, cmdloopKeeps, cmdloop_returnKeeps, exitcmdKeeps, exraiseKeeps,
           evalcommandKeeps, breakcmdKeeps, returncmdKeeps, evalnotKeeps, evallastKeeps,
           evalfunKeeps, evalstringKeeps, dotcmdKeeps DEF EvalNext

LEMMA EvalInvSound ==
  ASSUME EvalInv
  PROVE  ControlSound
<1> DEFINE n == Len(calls)
<1>1. n \in Nat /\ DOMAIN calls = 1..n
  BY DEF EvalInv
<1>2. FunctionContext
  BY ContextIs DEF FunctionContext, EvalInv, ContextRight
<1>3. NothingRunsSkipping
  BY DEF NothingRunsSkipping, EvalInv
<1>4. TestedExact
  BY <1>1 DEF TestedExact, EvalInv, FlagsRight, Tested
<1>5. ExitOnlyLast
  BY <1>1 DEF ExitOnlyLast, EvalInv, FlagsRight, LastIn, NoneWaits
<1> QED BY <1>2, <1>3, <1>4, <1>5 DEF ControlSound

\* Steps that end a skip.
LEMMA SkipEnds ==
  ASSUME EvalInv, EvalNext, ctl.at = "return", evalskip # "none", evalskip' = "none"
  PROVE  /\ evalskip \in {"break", "cont"} /\ ~swallowed => Len(calls) = target
         /\ evalskip = "func" => exitstatus' = retstatus
<1>1. CASE evalloop_test \/ evalloop_body \/ (\E more \in BOOLEAN : evalfor(more))
  <2>1. calls # <<>> /\ TopCall.node \in LoopKinds /\ skiploop
    BY <1>1 DEF evalloop_test, evalloop_body, evalfor, Returns, LoopKinds
  <2>2. evalskip # "func"
    BY <2>1 DEF skiploop, LastSkipped
  <2> QED BY <2>1, <2>2, LoopStep
<1>2. CASE evalfun \/ (\E more \in BOOLEAN : dotcmd(more))
  <2>1. evalskip \in {"func", "funcdef"} /\ exitstatus' = exitstatus
    BY <1>2 DEF evalfun, dotcmd, EndReturn, Leave
  <2> QED BY <2>1 DEF EvalInv
<1>3. evalloop_test \/ evalloop_body \/ (\E more \in BOOLEAN : evalfor(more))
      \/ evalfun \/ (\E more \in BOOLEAN : dotcmd(more))
  <2>1. ~Evaltree /\ ctl.at # "cmdloop" /\ evalskip' # evalskip
    BY DEF Evaltree
  <2>2. ~evalbinary /\ ~evallast /\ ~evalnot /\ ~cmdloop_return
    BY <2>1 DEF evalbinary, evallast, evalnot, cmdloop_return, skipVars
  <2>3. \A more \in BOOLEAN : ~evalif(more) /\ ~evalstring(more) /\ ~cmdloop(more)
    BY <2>1 DEF evalif, evalstring, cmdloop, skipVars
  <2>4. ~exraise /\ ~exitcmd
    BY <2>1 DEF exraise, exitcmd
  <2>5. \A status \in {0, 1}, checkexit \in BOOLEAN : ~evalcommand(status, checkexit)
    BY <2>1 DEF evalcommand
  <2>6. \A l \in Levels, kind \in {"break", "cont"} : ~breakcmd(l, kind)
    BY <2>1 DEF breakcmd
  <2>7. \A status \in {0, 1}, skip \in {"func", "funcdef"} : ~returncmd(status, skip)
    BY <2>1 DEF returncmd
  <2>8. \A node, swallows : ~evaltree(node, swallows)
    BY <2>1 DEF evaltree
  <2> QED BY <2>2, <2>3, <2>4, <2>5, <2>6, <2>7, <2>8 DEF EvalNext
<1> QED BY <1>1, <1>2, <1>3

-----------------------------------------------------------------------------
\* The variables (Var).

VarType == [there : BOOLEAN, text : Nat, unset : BOOLEAN, export : BOOLEAN, readonly : BOOLEAN,
            strfixed : BOOLEAN, textfixed : BOOLEAN, func : BOOLEAN]
SavedType == [vp : VarNames \cup {"-"}, v : VarType]

\* What the variables are and the texts they have.
VarStates ==
  {st \in [vars : [VarNames -> VarType], texts : SUBSET (Nat \ {0}), seen : [VarNames -> Nat],
           aflag : BOOLEAN] : IsFiniteSet(st.texts)}

\* The place of what is saved: its list, and how many of the list are not newer.
SavedPlaces(stack) ==
  {p \in Nat \X Nat : p[1] \in 1..Len(stack) /\ p[2] \in 1..Len(stack[p[1]])}

SavedAt(stack, p) == stack[p[1]][Len(stack[p[1]]) + 1 - p[2]]

\* All that is saved up to the a-th of the j-th list.
Saves(stack, j, a) ==
  [p \in {p \in SavedPlaces(stack) : p[1] < j \/ (p[1] = j /\ p[2] <= a)} |-> SavedAt(stack, p)]

AllSaves(stack) == [p \in SavedPlaces(stack) |-> SavedAt(stack, p)]

Newer(q, p) == q[1] > p[1] \/ (q[1] = p[1] /\ q[2] > p[2])

Owns(v) == v.text # Static /\ ~v.textfixed

VarRight(v) ==
  /\ v \in VarType
  /\ ~v.there => v = NotThere
  /\ v.there /\ v.text = Static => v.textfixed
  /\ v.func => v.there /\ v.strfixed

SaveRight(lv, V) ==
  /\ lv \in SavedType
  /\ lv.vp = "-" => lv.v.text = Static
  /\ lv.vp # "-" => VarRight(lv.v) /\ lv.v.func = V[lv.vp].func

\* Nobody has the text of the variable that owns it; what has the text of one
\* that is saved is newer, and of the same variable.
OwnersApart(V, g) ==
  /\ \A n, m \in VarNames : Owns(V[n]) /\ V[m].text = V[n].text => m = n
  /\ \A n \in VarNames, p \in DOMAIN g : Owns(V[n]) => g[p].v.text # V[n].text
  /\ \A n \in VarNames, p \in DOMAIN g : Owns(g[p].v) /\ V[n].text = g[p].v.text => g[p].vp = n
  /\ \A p, q \in DOMAIN g :
       Owns(g[p].v) /\ g[q].v.text = g[p].v.text => g[q].vp = g[p].vp /\ (q = p \/ Newer(q, p))

Owned(V, g, t) ==
  \/ \E n \in VarNames : Owns(V[n]) /\ V[n].text = t
  \/ \E p \in DOMAIN g : Owns(g[p].v) /\ g[p].v.text = t

SavesRight(V, g) == \A p \in DOMAIN g : p \in Nat \X Nat /\ SaveRight(g[p], V)

TextsThere(st, g) ==
  /\ \A n \in VarNames : st.vars[n].text \in st.texts \cup {Static}
  /\ \A p \in DOMAIN g : g[p].v.text \in st.texts \cup {Static}

Told(st) ==
  \A n \in VarNames : st.vars[n].func /\ ~st.vars[n].unset => st.seen[n] = st.vars[n].text

\* The state of variables st, while g is saved.
VarHolds(st, g, lost) ==
  /\ st \in VarStates
  /\ \A n \in VarNames : VarRight(st.vars[n])
  /\ SavesRight(st.vars, g)
  /\ OwnersApart(st.vars, g)
  /\ TextsThere(st, g)
  /\ ~lost => \A t \in st.texts : Owned(st.vars, g, t)
  /\ Told(st)

\* The inductive invariant of the variables.
VarInv ==
  /\ localvar_stack \in Seq(Seq(SavedType)) /\ failed \in BOOLEAN
  /\ VarHolds(Vars, AllSaves(localvar_stack), failed)

-----------------------------------------------------------------------------
\* The steps that the shell's folds take: putting back what one local variable
\* was, and what a list of them was; going on by a name, and walking by one;
\* and reading a word for getopts.
Turn(op, st, x) ==
  CASE op = "one"     -> PutBack(st, x)
    [] op = "list"    -> Restored(st, x)
    [] op = "enter"   -> Enter(st, x)
    [] op = "entered" -> Entered(st, x)
    [] op = "walked"  -> Walked(st, x)
    [] op = "silent"  -> ReadWord(TRUE, st, x)
    [] op = "loud"    -> ReadWord(FALSE, st, x)

\* What folding over all at the places t has made of s, if f has what
\* folding over fewer has.
Turned(f, op, s, seq, t) ==
  IF t = {} THEN s ELSE Turn(op, f[t \ {Largest(t)}], seq[Largest(t)])

FoldAt(f, op, s, seq, n) == f = [t \in SUBSET (1..n) |-> Turned(f, op, s, seq, t)]

LEMMA TurnedExists ==
  ASSUME NEW op, NEW s, NEW seq, NEW n \in Nat
  PROVE  \E f : FoldAt(f, op, s, seq, n)
<1> DEFINE all == SUBSET (1..n)
           Upto(k) == \E f : \A t \in all : Cardinality(t) < k => f[t] = Turned(f, op, s, seq, t)
           Reached == {k \in Nat : Upto(k)}
<1>2. ASSUME NEW t \in all PROVE Cardinality(t) \in Nat /\ Cardinality(t) <= n
  <2>1. t \in SUBSET (1..n)
    OBVIOUS
  <2>2. Cardinality(t) \in 0..n
    BY <2>1, SmallerPlaces
  <2> QED BY <2>2
<1>3. 0 \in Reached
  <2>1. \A t \in all : ~(Cardinality(t) < 0)
    BY <1>2
  <2> QED BY <2>1
<1>4. ASSUME NEW k \in Reached PROVE k + 1 \in Reached
  <2>1. PICK f : \A t \in all : Cardinality(t) < k => f[t] = Turned(f, op, s, seq, t)
    OBVIOUS
  <2> DEFINE h == [t \in all |-> Turned(f, op, s, seq, t)]
  <2>2. ASSUME NEW t \in all, Cardinality(t) < k + 1
        PROVE  h[t] = Turned(h, op, s, seq, t)
    <3>1. CASE t = {}
      BY <3>1 DEF Turned
    <3>2. CASE t # {}
      <4> DEFINE i == Largest(t)
                 r == t \ {i}
      <4>0. t \in SUBSET (1..n)
        OBVIOUS
      <4>1. r \in all /\ Cardinality(r) = Cardinality(t) - 1 /\ Cardinality(t) \in Nat
        BY <1>2, <3>2, <4>0, SmallerPlaces
      <4>2. Cardinality(r) < k
        BY <2>2, <4>1
      <4>3. h[r] = f[r]
        BY <2>1, <4>1, <4>2
      <4>4. h[t] = Turn(op, f[r], seq[i])
        BY <3>2 DEF Turned
      <4> HIDE DEF h
      <4> QED BY <3>2, <4>3, <4>4 DEF Turned
    <3> QED BY <3>1, <3>2
  <2> HIDE DEF h
  <2>3. Upto(k + 1)
    BY <2>2
  <2> QED BY <2>3
<1>6. Upto(n + 1)
  <2>1. Reached = Nat
    <3>1. Reached \in SUBSET Nat
      OBVIOUS
    <3> HIDE DEF Reached
    <3> QED BY <1>3, <1>4, <3>1, AllNaturals
  <2>2. n + 1 \in Reached
    <3> HIDE DEF Reached
    <3> QED BY <2>1
  <2> QED BY <2>2
<1>7. PICK f : \A t \in all : Cardinality(t) < n + 1 => f[t] = Turned(f, op, s, seq, t)
  BY <1>6
<1> DEFINE h == [t \in all |-> f[t]]
<1>8. ASSUME NEW t \in all PROVE h[t] = Turned(h, op, s, seq, t)
  <2>1. Cardinality(t) < n + 1
    BY <1>2
  <2>2. h[t] = Turned(f, op, s, seq, t)
    BY <1>7, <2>1
  <2>3. CASE t = {}
    BY <2>2, <2>3 DEF Turned
  <2>4. CASE t # {}
    <3> DEFINE r == t \ {Largest(t)}
    <3>1. h[r] = f[r]
      OBVIOUS
    <3> HIDE DEF h
    <3> QED BY <2>2, <2>4, <3>1 DEF Turned
  <2> QED BY <2>3, <2>4
<1>9. h = [t \in all |-> h[t]]
  OBVIOUS
<1> HIDE DEF h
<1>10. h = [t \in all |-> Turned(h, op, s, seq, t)]
  BY <1>8, <1>9
<1> QED BY <1>10 DEF FoldAt

\* The same from one place to the next: g has the store after k of the n places.
Steps(g, op, s, seq, n, last) ==
  /\ g[0] = s /\ g[n] = last
  /\ \A k \in 1..n : g[k] = Turn(op, g[k - 1], seq[k])

LEMMA PlaceByPlace ==
  ASSUME NEW op, NEW s, NEW seq, NEW n \in Nat,
         NEW f, FoldAt(f, op, s, seq, n)
  PROVE  \E g : Steps(g, op, s, seq, n, f[1..n])
<1> DEFINE F(t) == Turned(f, op, s, seq, t)
<1>1. \A t \in SUBSET (1..n) : f[t] = F(t)
  <2>1. f = [t \in SUBSET (1..n) |-> F(t)]
    BY DEF FoldAt
  <2> HIDE DEF F
  <2> QED BY <2>1
<1> DEFINE g == [k \in 0..n |-> f[1..k]]
<1>2. g[0] = s
  <2>1. 1..0 = {} /\ {} \in SUBSET (1..n)
    OBVIOUS
  <2> QED BY <1>1, <2>1 DEF Turned
<1>3. ASSUME NEW k \in 1..n PROVE g[k] = Turn(op, g[k - 1], seq[k])
  <2> DEFINE t == 1..k
  <2>1. t \in SUBSET (1..n) /\ t # {} /\ k \in t
    OBVIOUS
  <2>2. Largest(t) = k
    <3>1. Largest(t) \in t /\ Largest(t) >= k
      BY <2>1, SmallerPlaces
    <3> QED BY <3>1
  <2>3. t \ {k} = 1..(k - 1)
    OBVIOUS
  <2>4. f[t] = Turn(op, f[1..(k - 1)], seq[k])
    <3>1. f[t] = F(t)
      BY <1>1, <2>1
    <3> HIDE DEF t
    <3> QED BY <2>1, <2>2, <2>3, <3>1 DEF Turned
  <2>5. g[k] = f[t] /\ g[k - 1] = f[1..(k - 1)]
    OBVIOUS
  <2> QED BY <2>4, <2>5
<1>4. g[n] = f[1..n]
  OBVIOUS
<1> HIDE DEF g
<1> QED BY <1>2, <1>3, <1>4 DEF Steps

\* g has the variables after each that is put back.
RestoresBy(g, st, lvs) ==
  /\ g[0] = st /\ g[Len(lvs)] = Restored(st, lvs)
  /\ \A k \in 1..Len(lvs) : g[k] = PutBack(g[k - 1], lvs[k])

LEMMA RestoredSteps ==
  ASSUME NEW st, NEW S, NEW lvs \in Seq(S)
  PROVE  \E g : RestoresBy(g, st, lvs)
<1> DEFINE n == Len(lvs)
           D == DOMAIN lvs
           G(h) == [t \in SUBSET D |->
                     IF t = {} THEN st
                     ELSE PutBack(h[t \ {CHOOSE x \in t : \A y \in t : x >= y}],
                                  lvs[CHOOSE x \in t : \A y \in t : x >= y])]
           f == CHOOSE h : h = G(h)
<1>1. n \in Nat /\ D = 1..n
  OBVIOUS
<1>2. \A h : FoldAt(h, "one", st, lvs, n) <=> h = G(h)
  BY <1>1 DEF FoldAt, Turned, Turn, Largest
<1>3. Restored(st, lvs) = f[D]
  BY DEF Restored, FoldLeft, MapThenFoldSet, Max
<1> HIDE DEF G
<1>4. \E h : h = G(h)
  BY <1>1, <1>2, TurnedExists
<1>5. f = G(f)
  BY <1>4
<1> HIDE DEF f
<1> HIDE DEF n, D
<1>6. FoldAt(f, "one", st, lvs, n)
  BY <1>2, <1>5
<1>7. PICK g : Steps(g, "one", st, lvs, n, f[1..n])
  BY <1>1, <1>6, PlaceByPlace
<1>8. \A k \in 1..n : g[k] = PutBack(g[k - 1], lvs[k])
  BY <1>7 DEF Steps, Turn
<1>9. g[0] = st /\ g[n] = f[1..n]
  BY <1>7 DEF Steps
<1> QED BY <1>1, <1>3, <1>8, <1>9 DEF n, RestoresBy

\* g has the variables after each of the lists.
UnwindsBy(g, st, all, lists) ==
  /\ g[0] = st /\ g[Len(lists)] = Unwound(st, all)
  /\ \A k \in 1..Len(lists) : g[k] = Restored(g[k - 1], lists[k])

LEMMA UnwoundSteps ==
  ASSUME NEW st, NEW S, NEW all \in Seq(S), NEW lists, lists = Reverse(all), lists \in Seq(S)
  PROVE  \E g : UnwindsBy(g, st, all, lists)
<1> DEFINE n == Len(lists)
           D == DOMAIN lists
           G(h) == [t \in SUBSET D |->
                     IF t = {} THEN st
                     ELSE Restored(h[t \ {CHOOSE x \in t : \A y \in t : x >= y}],
                                  lists[CHOOSE x \in t : \A y \in t : x >= y])]
           f == CHOOSE h : h = G(h)
<1>1. n \in Nat /\ D = 1..n
  OBVIOUS
<1>2. \A h : FoldAt(h, "list", st, lists, n) <=> h = G(h)
  BY <1>1 DEF FoldAt, Turned, Turn, Largest
<1>3. Unwound(st, all) = f[D]
  BY DEF Unwound, FoldLeft, MapThenFoldSet, Max
<1> HIDE DEF G
<1>4. \E h : h = G(h)
  BY <1>1, <1>2, TurnedExists
<1>5. f = G(f)
  BY <1>4
<1> HIDE DEF f
<1> HIDE DEF n, D
<1>6. FoldAt(f, "list", st, lists, n)
  BY <1>2, <1>5
<1>7. PICK g : Steps(g, "list", st, lists, n, f[1..n])
  BY <1>1, <1>6, PlaceByPlace
<1>8. \A k \in 1..n : g[k] = Restored(g[k - 1], lists[k])
  BY <1>7 DEF Steps, Turn
<1>9. g[0] = st /\ g[n] = f[1..n]
  BY <1>7 DEF Steps
<1> QED BY <1>1, <1>3, <1>8, <1>9 DEF n, UnwindsBy

\* An address that no text has.
LEMMA FreshTextIs ==
  ASSUME NEW st \in VarStates
  PROVE  FreshText(st) \in Nat \ {0} /\ FreshText(st) \notin st.texts
<1> DEFINE T == st.texts
           c == Cardinality(T)
           free == (1..(c + 1)) \ T
<1>1. IsFiniteSet(T) /\ c \in Nat
  BY FS_CardinalityType DEF VarStates
<1>2. IsFiniteSet(1..(c + 1)) /\ Cardinality(1..(c + 1)) = c + 1
  BY <1>1, FS_Interval
<1>3. free # {}
  <2>1. SUFFICES ASSUME 1..(c + 1) \subseteq T PROVE FALSE
    OBVIOUS
  <2>2. Cardinality(1..(c + 1)) <= c
    BY <1>1, <2>1, FS_Subset
  <2> QED BY <1>1, <1>2, <2>2
<1>4. free \in SUBSET Nat
  BY <1>1
<1> HIDE DEF free
<1>5. \E m \in free : \A y \in free : m <= y
  BY <1>3, <1>4, LeastElement
<1>6. Min(free) \in free
  BY <1>5 DEF Min
<1> QED BY <1>1, <1>6 DEF free, FreshText

\* What a variable is where only what is exported, readonly or fixed changes.
Reflagged(w, v) ==
  /\ w \in VarType /\ VarRight(w)
  /\ w.text = v.text /\ w.textfixed = v.textfixed /\ w.func = v.func /\ w.unset = v.unset

LEMMA FlagsKeep ==
  ASSUME NEW st, NEW g, NEW lost \in BOOLEAN, VarHolds(st, g, lost), NEW n \in VarNames,
         NEW w, Reflagged(w, st.vars[n])
  PROVE  VarHolds([st EXCEPT !.vars[n] = w], g, lost)
<1> DEFINE V == st.vars
           to == [st EXCEPT !.vars[n] = w]
           W == to.vars
<1>1. /\ st \in VarStates /\ V \in [VarNames -> VarType] /\ IsFiniteSet(st.texts)
  BY DEF VarHolds, VarStates
<1>2. /\ to \in VarStates /\ to.texts = st.texts /\ to.seen = st.seen
      /\ W = [V EXCEPT ![n] = w]
  BY <1>1 DEF VarStates, Reflagged
<1>3. \A m \in VarNames :
        /\ W[m].text = V[m].text /\ W[m].textfixed = V[m].textfixed
        /\ W[m].func = V[m].func /\ W[m].unset = V[m].unset
  BY <1>1, <1>2 DEF Reflagged
<1>4. \A m \in VarNames : VarRight(W[m])
  BY <1>1, <1>2 DEF VarHolds, Reflagged
<1>5. \A m \in VarNames : Owns(W[m]) <=> Owns(V[m])
  BY <1>3 DEF Owns
<1> HIDE DEF W, to
<1>6. SavesRight(W, g)
  BY <1>3 DEF VarHolds, SavesRight, SaveRight, SavedType
<1>7. OwnersApart(W, g)
  <2>1. OwnersApart(V, g)
    BY DEF VarHolds
  <2> QED BY <2>1, <1>3, <1>5 DEF OwnersApart
<1>8. TextsThere(to, g)
  BY <1>2, <1>3 DEF VarHolds, TextsThere, W
<1>9. ASSUME ~lost, NEW t \in to.texts PROVE Owned(W, g, t)
  <2>1. Owned(V, g, t)
    BY <1>2, <1>9 DEF VarHolds
  <2> QED BY <2>1, <1>3, <1>5 DEF Owned
<1>10. Told(to)
  BY <1>2, <1>3 DEF VarHolds, Told, W
<1> QED BY <1>2, <1>4, <1>6, <1>7, <1>8, <1>9, <1>10 DEF VarHolds, W, to

\* A variable goes away, or gets a text of its own.
Replaced(st, n, w, to) ==
  LET v == st.vars[n] IN
  /\ to \in VarStates /\ to.vars = [st.vars EXCEPT ![n] = w] /\ VarRight(w) /\ w.func = v.func
  /\ \/ /\ w = NotThere /\ to.seen = st.seen
        /\ to.texts = st.texts \ (IF v.there THEN FreesText(v) ELSE {})
     \/ /\ Owns(w) /\ w.text \notin st.texts
        /\ to.texts = (st.texts \cup {w.text}) \ (IF v.there THEN FreesText(v) ELSE {})
        /\ to.seen = (IF v.func THEN [st.seen EXCEPT ![n] = w.text] ELSE st.seen)

LEMMA ReplaceKeeps ==
  ASSUME NEW st, NEW g, NEW lost \in BOOLEAN, VarHolds(st, g, lost), NEW n \in VarNames,
         NEW w, NEW to, Replaced(st, n, w, to)
  PROVE  VarHolds(to, g, lost)
<1> DEFINE V == st.vars
           W == to.vars
           v == V[n]
           freed == IF v.there THEN FreesText(v) ELSE {}
<1>1. /\ st \in VarStates /\ V \in [VarNames -> VarType] /\ IsFiniteSet(st.texts)
      /\ st.texts \in SUBSET (Nat \ {0}) /\ v \in VarType /\ VarRight(v) /\ OwnersApart(V, g)
      /\ TextsThere(st, g) /\ st.seen \in [VarNames -> Nat]
  BY DEF VarHolds, VarStates
<1>2. /\ to \in VarStates /\ W = [V EXCEPT ![n] = w] /\ VarRight(w) /\ w.func = v.func
      /\ W[n] = w /\ \A m \in VarNames : m # n => W[m] = V[m]
  BY <1>1 DEF Replaced
<1>3. \/ w.text = Static /\ to.texts = st.texts \ freed /\ to.seen = st.seen /\ ~Owns(w)
         /\ w = NotThere
      \/ /\ Owns(w) /\ w.text \notin st.texts /\ w.text # Static
         /\ to.texts = (st.texts \cup {w.text}) \ freed
         /\ to.seen = (IF v.func THEN [st.seen EXCEPT ![n] = w.text] ELSE st.seen)
  BY DEF Replaced, NotThere, Owns
\* What is freed is the variable's own text.
<1>4. /\ freed = IF Owns(v) THEN {v.text} ELSE {}
  BY <1>1 DEF FreesText, VarRight, Owns, NotThere
<1> HIDE DEF freed
<1>5. \A m \in VarNames : m # n => V[m].text \notin freed
  BY <1>1, <1>4 DEF OwnersApart
<1>6. \A p \in DOMAIN g : g[p].v.text \notin freed
  BY <1>1, <1>4 DEF OwnersApart
<1>7. \A m \in VarNames : V[m].text \in st.texts \cup {Static}
  BY <1>1 DEF TextsThere
<1>8. \A p \in DOMAIN g : g[p].v.text \in st.texts \cup {Static}
  BY <1>1 DEF TextsThere
<1>9. \A m \in VarNames : VarRight(W[m])
  BY <1>2 DEF VarHolds
<1>10. SavesRight(W, g)
  <2>1. \A m \in VarNames : W[m].func = V[m].func
    BY <1>2
  <2> HIDE DEF W, V
  <2> QED BY <2>1 DEF VarHolds, SavesRight, SaveRight, SavedType, V
<1> HIDE DEF W, V
<1>11. OwnersApart(W, g)
  <2>1. ASSUME NEW k \in VarNames, NEW m \in VarNames, Owns(W[k]), W[m].text = W[k].text
        PROVE  m = k
    <3>1. CASE k = n /\ m # n
      BY <1>2, <1>3, <1>7, <2>1, <3>1
    <3>2. CASE k # n /\ m = n
      BY <1>2, <1>3, <1>7, <2>1, <3>2 DEF Owns
    <3>3. CASE k # n /\ m # n
      BY <1>1, <1>2, <2>1, <3>3 DEF OwnersApart
    <3> QED BY <3>1, <3>2, <3>3
  <2>2. ASSUME NEW k \in VarNames, NEW p \in DOMAIN g, Owns(W[k])
        PROVE  g[p].v.text # W[k].text
    <3>1. CASE k = n
      BY <1>2, <1>3, <1>8, <2>2, <3>1
    <3>2. CASE k # n
      BY <1>1, <1>2, <2>2, <3>2 DEF OwnersApart
    <3> QED BY <3>1, <3>2
  <2>3. ASSUME NEW k \in VarNames, NEW p \in DOMAIN g, Owns(g[p].v), W[k].text = g[p].v.text
        PROVE  g[p].vp = k
    <3>1. CASE k = n
      BY <1>2, <1>3, <1>8, <2>3, <3>1 DEF Owns
    <3>2. CASE k # n
      BY <1>1, <1>2, <2>3, <3>2 DEF OwnersApart
    <3> QED BY <3>1, <3>2
  <2>4. \A p, q \in DOMAIN g :
          Owns(g[p].v) /\ g[q].v.text = g[p].v.text => g[q].vp = g[p].vp /\ (q = p \/ Newer(q, p))
    BY <1>1 DEF OwnersApart
  <2> QED BY <2>1, <2>2, <2>3, <2>4 DEF OwnersApart
<1>12. TextsThere(to, g)
  <2>1. ASSUME NEW m \in VarNames PROVE W[m].text \in to.texts \cup {Static}
    <3>1. CASE m = n
      <4>1. w.text \notin freed \/ w.text = Static
        BY <1>3, <1>4, <1>7 DEF V
      <4> QED BY <1>2, <1>3, <3>1, <4>1
    <3>2. CASE m # n
      BY <1>2, <1>3, <1>5, <1>7, <3>2
    <3> QED BY <3>1, <3>2
  <2>2. ASSUME NEW p \in DOMAIN g PROVE g[p].v.text \in to.texts \cup {Static}
    BY <1>3, <1>6, <1>8
  <2> QED BY <2>1, <2>2 DEF TextsThere, W
<1>13. ASSUME ~lost, NEW t \in to.texts PROVE Owned(W, g, t)
  <2>1. CASE t \in st.texts
    <3>1. Owned(V, g, t)
      BY <1>13, <2>1 DEF VarHolds, V
    <3>2. ~(Owns(v) /\ v.text = t)
      BY <1>3, <1>4, <1>13
    <3> HIDE DEF v
    <3>3. CASE \E p \in DOMAIN g : Owns(g[p].v) /\ g[p].v.text = t
      BY <3>3 DEF Owned
    <3>4. CASE \E m \in VarNames : Owns(V[m]) /\ V[m].text = t
      <4>1. PICK m \in VarNames : Owns(V[m]) /\ V[m].text = t
        BY <3>4
      <4>2. m # n
        BY <3>2, <4>1 DEF v
      <4> QED BY <1>2, <4>1, <4>2 DEF Owned
    <3> QED BY <3>1, <3>3, <3>4 DEF Owned
  <2>2. CASE t \notin st.texts
    <3>1. Owns(w) /\ t = w.text
      BY <1>3, <1>13, <2>2
    <3> QED BY <1>2, <3>1 DEF Owned
  <2> QED BY <2>1, <2>2
<1>14. Told(to)
  <2>1. ASSUME NEW m \in VarNames, W[m].func, ~W[m].unset
        PROVE  to.seen[m] = W[m].text
    <3>1. CASE m # n
      <4>1. st.seen[m] = V[m].text
        BY <1>2, <2>1, <3>1 DEF VarHolds, Told, V
      <4> QED BY <1>1, <1>2, <1>3, <3>1, <4>1
    <3>2. CASE m = n
      <4>1. ~(w = NotThere)
        BY <1>2, <2>1, <3>2 DEF NotThere
      <4> QED BY <1>1, <1>2, <1>3, <2>1, <3>2, <4>1
    <3> QED BY <3>1, <3>2
  <2> QED BY <2>1 DEF Told, W
<1> QED BY <1>2, <1>9, <1>10, <1>11, <1>12, <1>13, <1>14 DEF VarHolds, W

FlagsType == [export : BOOLEAN, readonly : BOOLEAN, strfixed : BOOLEAN]

NewVariable(v, t, unset, fl) ==
  [there |-> TRUE, text |-> t, unset |-> unset, textfixed |-> FALSE, func |-> v.func,
   export |-> fl.export \/ v.export, readonly |-> fl.readonly,
   strfixed |-> fl.strfixed \/ v.strfixed]

FlagsFor(st, flags) == [flags EXCEPT !.export = @ \/ st.aflag]

FreedOf(v) == IF v.there THEN FreesText(v) ELSE {}

GoneFrom(st, n, v) == [st EXCEPT !.vars[n] = NotThere, !.texts = st.texts \ FreedOf(v)]

AssignedIn(st, n, v, t, unset, fl) ==
  [st EXCEPT !.vars[n] = NewVariable(v, t, unset, fl), !.texts = (st.texts \cup {t}) \ FreedOf(v),
             !.seen = Called(st, n, t)]

LEMMA SetvareqIs ==
  ASSUME NEW st \in VarStates, NEW n \in VarNames, NEW unset \in BOOLEAN, NEW flags \in FlagsType,
         NEW v, v = st.vars[n], NEW fl, fl = FlagsFor(st, flags), NEW t, t = FreshText(st)
  PROVE  /\ fl \in FlagsType
         /\ GoesAway(v, unset, fl) =>
              Setvareq(st, n, unset, flags) = GoneFrom(st, n, v)
         /\ ~GoesAway(v, unset, fl) =>
              Setvareq(st, n, unset, flags) = AssignedIn(st, n, v, t, unset, fl)
<1>1. fl \in FlagsType
  BY DEF FlagsFor, FlagsType, VarStates
<1> QED BY <1>1 DEF Setvareq, FlagsFor, FreedOf, NewVariable, GoneFrom, AssignedIn

\* What of a variable a caller of setvareq decides.
AsGiven(w, unset, flags) ==
  w = NotThere \/ (w.there /\ w.unset = unset /\ w.readonly = flags.readonly)

LEMMA SetvareqReplaces ==
  ASSUME NEW st \in VarStates, NEW n \in VarNames, VarRight(st.vars[n]), NEW unset \in BOOLEAN,
         NEW flags \in FlagsType
  PROVE  \E w : Replaced(st, n, w, Setvareq(st, n, unset, flags)) /\ AsGiven(w, unset, flags)
<1> DEFINE v == st.vars[n]
           fl == FlagsFor(st, flags)
           t == FreshText(st)
           to == Setvareq(st, n, unset, flags)
           w == NewVariable(v, t, unset, fl)
<1>0. /\ fl \in FlagsType
      /\ GoesAway(v, unset, fl) => to = GoneFrom(st, n, v)
      /\ ~GoesAway(v, unset, fl) => to = AssignedIn(st, n, v, t, unset, fl)
  BY SetvareqIs
<1>1. /\ st \in [vars : [VarNames -> VarType], texts : SUBSET (Nat \ {0}), seen : [VarNames -> Nat],
                 aflag : BOOLEAN] /\ IsFiniteSet(st.texts)
      /\ v \in VarType /\ VarRight(v) /\ t \in Nat \ {0} /\ t \notin st.texts
  BY FreshTextIs DEF VarStates
<1>2. fl \in FlagsType /\ fl.readonly = flags.readonly
  BY <1>0 DEF FlagsFor, FlagsType
<1>3. IsFiniteSet(st.texts \cup {t})
  BY <1>1, FS_AddElement
<1>4. IsFiniteSet(st.texts \ FreedOf(v)) /\ IsFiniteSet((st.texts \cup {t}) \ FreedOf(v))
  BY <1>1, <1>3, FS_Subset
<1>5. ASSUME GoesAway(v, unset, fl)
      PROVE  Replaced(st, n, NotThere, to)
  <2>1. to = [st EXCEPT !.vars[n] = NotThere, !.texts = st.texts \ FreedOf(v)]
    BY <1>0, <1>5 DEF GoneFrom
  <2>2. /\ to.vars = [st.vars EXCEPT ![n] = NotThere] /\ to.texts = st.texts \ FreedOf(v)
        /\ to.seen = st.seen
    BY <1>1, <2>1
  <2>3. NotThere \in VarType /\ VarRight(NotThere)
    BY DEF NotThere, VarType, VarRight, Static
  <2>4. to \in VarStates
    <3> HIDE DEF to, v
    <3> QED BY <1>1, <1>4, <2>1, <2>2, <2>3 DEF VarStates
  <2>5. NotThere.func = v.func
    BY <1>1, <1>5 DEF GoesAway, VarRight, NotThere, VarType
  <2> QED BY <2>2, <2>3, <2>4, <2>5 DEF Replaced, FreedOf
<1>6. ASSUME ~GoesAway(v, unset, fl)
      PROVE  Replaced(st, n, w, to)
  <2>1. to = [st EXCEPT !.vars[n] = w, !.texts = (st.texts \cup {t}) \ FreedOf(v),
                        !.seen = Called(st, n, t)]
    BY <1>0, <1>6 DEF AssignedIn
  <2>2. Called(st, n, t) = (IF v.func THEN [st.seen EXCEPT ![n] = t] ELSE st.seen)
    BY DEF Called
  <2>3. /\ to.vars = [st.vars EXCEPT ![n] = w] /\ to.texts = (st.texts \cup {t}) \ FreedOf(v)
        /\ to.seen = Called(st, n, t)
    BY <1>1, <2>1
  <2>4. /\ w \in VarType /\ w.text = t /\ ~w.textfixed /\ w.func = v.func /\ w.there
        /\ w.strfixed = (fl.strfixed \/ v.strfixed)
    BY <1>1, <1>2 DEF NewVariable, VarType, FlagsType
  <2>5. VarRight(w) /\ Owns(w)
    <3> HIDE DEF w
    <3>1. v.func => v.strfixed
      BY <1>1 DEF VarRight
    <3> QED BY <1>1, <2>4, <3>1 DEF VarRight, Owns, Static
  <2>6. to \in VarStates
    <3>1. Called(st, n, t) \in [VarNames -> Nat]
      BY <1>1, <2>2
    <3> HIDE DEF to, w, v
    <3> QED BY <1>1, <1>4, <2>1, <2>3, <2>4, <3>1 DEF VarStates
  <2> QED BY <1>1, <2>2, <2>3, <2>4, <2>5, <2>6 DEF Replaced, FreedOf
<1>7. AsGiven(NotThere, unset, flags) /\ AsGiven(w, unset, flags)
  BY <1>2 DEF NewVariable, AsGiven
<1> QED BY <1>5, <1>6, <1>7

LEMMA SetvareqKeeps ==
  ASSUME NEW st, NEW g, NEW lost \in BOOLEAN, VarHolds(st, g, lost), NEW n \in VarNames,
         NEW unset \in BOOLEAN, NEW flags \in FlagsType
  PROVE  VarHolds(Setvareq(st, n, unset, flags), g, lost)
<1>1. st \in VarStates /\ VarRight(st.vars[n])
  BY DEF VarHolds
<1>2. PICK w : Replaced(st, n, w, Setvareq(st, n, unset, flags))
  BY <1>1, SetvareqReplaces
<1> QED BY <1>2, ReplaceKeeps

-----------------------------------------------------------------------------
\* g and at the newest place q also lv.
Extended(g, q, lv) == [p \in DOMAIN g \cup {q} |-> IF p = q THEN lv ELSE g[p]]

Newest(q, g) == q \in Nat \X Nat /\ q \notin DOMAIN g /\ \A p \in DOMAIN g : Newer(q, p)

\* What has no text can be saved.
LEMMA SavedWithoutText ==
  ASSUME NEW st, NEW g, NEW lost \in BOOLEAN, VarHolds(st, g, lost), NEW q, Newest(q, g),
         NEW lv, SaveRight(lv, st.vars), lv.v.text = Static
  PROVE  VarHolds(st, Extended(g, q, lv), lost)
<1> DEFINE V == st.vars
           h == Extended(g, q, lv)
<1>1. /\ DOMAIN h = DOMAIN g \cup {q} /\ h[q] = lv
      /\ \A p \in DOMAIN g : h[p] = g[p] /\ p \in DOMAIN h
      /\ \A p \in DOMAIN h : p = q \/ (p \in DOMAIN g /\ h[p] = g[p])
  BY DEF Extended, Newest
<1> HIDE DEF h
<1>2. SavesRight(V, h)
  BY <1>1 DEF VarHolds, SavesRight, Newest
<1>3. OwnersApart(V, h)
  <2>1. OwnersApart(V, g)
    BY DEF VarHolds
  <2>2. ~Owns(lv.v) /\ \A v : Owns(v) => v.text # lv.v.text
    BY DEF Owns
  <2>3. ASSUME NEW n \in VarNames, NEW p \in DOMAIN h
        PROVE  /\ Owns(V[n]) => h[p].v.text # V[n].text
               /\ Owns(h[p].v) /\ V[n].text = h[p].v.text => h[p].vp = n
    BY <1>1, <2>1, <2>2 DEF OwnersApart
  <2>4. ASSUME NEW p \in DOMAIN h, NEW r \in DOMAIN h, Owns(h[p].v), h[r].v.text = h[p].v.text
        PROVE  h[r].vp = h[p].vp /\ (r = p \/ Newer(r, p))
    <3>1. p # q /\ r # q
      BY <1>1, <2>2, <2>4
    <3> QED BY <1>1, <2>1, <2>4, <3>1 DEF OwnersApart
  <2> QED BY <2>1, <2>3, <2>4 DEF OwnersApart
<1>4. TextsThere(st, h)
  BY <1>1 DEF VarHolds, TextsThere
<1>5. ASSUME ~lost, NEW t \in st.texts PROVE Owned(V, h, t)
  <2>1. Owned(V, g, t)
    BY <1>5 DEF VarHolds
  <2> QED BY <1>1, <2>1 DEF Owned
<1> QED BY <1>2, <1>3, <1>4, <1>5 DEF VarHolds, h

FixedIn(st, n) == [st EXCEPT !.vars[n] = Fixed(@)]

LEMMA FixedIs ==
  ASSUME NEW st \in VarStates, NEW n \in VarNames, VarRight(st.vars[n]), st.vars[n].there
  PROVE  LET v == st.vars[n]
             to == FixedIn(st, n)
         IN /\ to \in VarStates /\ to.texts = st.texts /\ to.seen = st.seen
            /\ VarRight(Fixed(v)) /\ ~Owns(Fixed(v)) /\ Fixed(v).text = v.text
            /\ Fixed(v).func = v.func /\ Fixed(v).unset = v.unset
            /\ to.vars = [st.vars EXCEPT ![n] = Fixed(v)]
<1> DEFINE v == st.vars[n]
<1>1. v \in VarType
  BY DEF VarStates
<1>2. /\ Fixed(v) \in VarType /\ Fixed(v).text = v.text /\ Fixed(v).func = v.func
      /\ Fixed(v).there /\ Fixed(v).textfixed /\ Fixed(v).strfixed /\ Fixed(v).unset = v.unset
  BY <1>1 DEF Fixed, VarType
<1>3. VarRight(Fixed(v)) /\ ~Owns(Fixed(v))
  BY <1>2 DEF VarRight, Owns
<1>4. st.vars \in [VarNames -> VarType]
  BY DEF VarStates
<1>5. FixedIn(st, n) \in VarStates
  BY <1>1, <1>2 DEF FixedIn, VarStates
<1> QED BY <1>2, <1>3, <1>5 DEF FixedIn, VarStates

\* What mklocal fixes and saves changes its owner.
LEMMA FixKeeps ==
  ASSUME NEW st, NEW g, NEW lost \in BOOLEAN, VarHolds(st, g, lost), NEW n \in VarNames,
         st.vars[n].there, NEW q, Newest(q, g)
  PROVE  VarHolds(FixedIn(st, n), Extended(g, q, [vp |-> n, v |-> st.vars[n]]), lost)
<1> DEFINE V == st.vars
           v == V[n]
           lv == [vp |-> n, v |-> v]
           to == FixedIn(st, n)
           W == to.vars
           h == Extended(g, q, lv)
<1>1. /\ st \in VarStates /\ VarRight(v) /\ v \in VarType /\ V \in [VarNames -> VarType]
  BY DEF VarHolds, VarStates
<1>2. /\ to \in VarStates /\ to.texts = st.texts /\ to.seen = st.seen
      /\ VarRight(Fixed(v)) /\ ~Owns(Fixed(v)) /\ Fixed(v).text = v.text
      /\ Fixed(v).func = v.func /\ Fixed(v).unset = v.unset
      /\ W = [V EXCEPT ![n] = Fixed(v)]
  BY <1>1, FixedIs
<1>3. \A m \in VarNames :
        /\ W[m].text = V[m].text /\ W[m].func = V[m].func /\ VarRight(W[m])
        /\ W[m].unset = V[m].unset
        /\ Owns(W[m]) => m # n /\ Owns(V[m])
        /\ m # n => W[m] = V[m]
  BY <1>1, <1>2 DEF VarHolds
<1>4. /\ DOMAIN h = DOMAIN g \cup {q} /\ h[q] = lv /\ q \in DOMAIN h
      /\ \A p \in DOMAIN g : h[p] = g[p] /\ p \in DOMAIN h /\ p # q
      /\ \A p \in DOMAIN h : p = q \/ (p \in DOMAIN g /\ h[p] = g[p])
  BY DEF Extended, Newest
<1>5. lv.vp = n /\ lv.v = v /\ lv \in SavedType
  BY <1>1 DEF SavedType
<1> HIDE DEF h, W, to, lv
<1>6. SavesRight(W, h)
  <2>1. VarAssumption
    BY VarAssumption
  <2>2. SaveRight(lv, W)
    BY <1>1, <1>3, <1>5, <2>1 DEF SaveRight, VarAssumption
  <2>3. \A p \in DOMAIN g : p \in Nat \X Nat /\ SaveRight(g[p], W)
    BY <1>3 DEF VarHolds, SavesRight, SaveRight, SavedType
  <2> QED BY <1>4, <2>2, <2>3 DEF SavesRight, Newest
<1>7. OwnersApart(W, h)
  <2>1. OwnersApart(V, g)
    BY DEF VarHolds
  <2>2. ASSUME NEW k \in VarNames, NEW m \in VarNames, Owns(W[k]), W[m].text = W[k].text
        PROVE  m = k
    BY <1>3, <2>1, <2>2 DEF OwnersApart
  <2>3. ASSUME NEW k \in VarNames, NEW p \in DOMAIN h, Owns(W[k])
        PROVE  h[p].v.text # W[k].text
    <3>1. k # n /\ Owns(V[k]) /\ W[k].text = V[k].text
      BY <1>3, <2>3
    <3>2. CASE p = q
      <4>1. h[p].v.text = V[n].text
        BY <1>4, <1>5, <3>2
      <4> QED BY <2>1, <3>1, <4>1 DEF OwnersApart
    <3>3. CASE p # q
      BY <1>4, <2>1, <3>1, <3>3 DEF OwnersApart
    <3> QED BY <3>2, <3>3
  <2>4. ASSUME NEW k \in VarNames, NEW p \in DOMAIN h, Owns(h[p].v), W[k].text = h[p].v.text
        PROVE  h[p].vp = k
    <3>1. W[k].text = V[k].text
      BY <1>3
    <3>2. CASE p = q
      <4>1. Owns(V[n]) /\ V[k].text = V[n].text /\ h[p].vp = n
        BY <1>4, <1>5, <2>4, <3>1, <3>2
      <4> QED BY <2>1, <4>1 DEF OwnersApart
    <3>3. CASE p # q
      <4>1. p \in DOMAIN g /\ Owns(g[p].v) /\ V[k].text = g[p].v.text /\ h[p].vp = g[p].vp
        BY <1>4, <2>4, <3>1, <3>3
      <4> QED BY <2>1, <4>1 DEF OwnersApart
    <3> QED BY <3>2, <3>3
  <2>5. ASSUME NEW p \in DOMAIN h, NEW r \in DOMAIN h, Owns(h[p].v), h[r].v.text = h[p].v.text
        PROVE  h[r].vp = h[p].vp /\ (r = p \/ Newer(r, p))
    <3>1. CASE p = q /\ r # q
      <4>1. Owns(V[n]) /\ r \in DOMAIN g /\ g[r].v.text = V[n].text
        BY <1>4, <1>5, <2>5, <3>1
      <4> QED BY <2>1, <4>1 DEF OwnersApart
    <3>2. CASE p # q /\ r = q
      <4>1. p \in DOMAIN g /\ Owns(g[p].v) /\ V[n].text = g[p].v.text /\ h[r].vp = n
            /\ h[p] = g[p]
        BY <1>4, <1>5, <2>5, <3>2
      <4>2. g[p].vp = n /\ Newer(r, p)
        BY <2>1, <3>2, <4>1 DEF OwnersApart, Newest
      <4> QED BY <4>1, <4>2
    <3>3. CASE p # q /\ r # q
      BY <1>4, <2>1, <2>5, <3>3 DEF OwnersApart
    <3> QED BY <3>1, <3>2, <3>3
  <2> QED BY <2>2, <2>3, <2>4, <2>5 DEF OwnersApart
<1>8. TextsThere(to, h)
  <2>1. TextsThere(st, g)
    BY DEF VarHolds
  <2>2. \A m \in VarNames : W[m].text \in to.texts \cup {Static}
    BY <1>2, <1>3, <2>1 DEF TextsThere
  <2>3. lv.v.text \in to.texts \cup {Static}
    BY <1>2, <1>5, <2>1 DEF TextsThere
  <2> QED BY <1>2, <1>4, <2>1, <2>2, <2>3 DEF TextsThere, W
<1>9. ASSUME ~lost, NEW t \in to.texts PROVE Owned(W, h, t)
  <2>1. Owned(V, g, t)
    BY <1>2, <1>9 DEF VarHolds
  <2>2. CASE \E p \in DOMAIN g : Owns(g[p].v) /\ g[p].v.text = t
    BY <1>4, <2>2 DEF Owned
  <2>3. CASE \E m \in VarNames : Owns(V[m]) /\ V[m].text = t
    <3>1. PICK m \in VarNames : Owns(V[m]) /\ V[m].text = t
      BY <2>3
    <3>2. CASE m = n
      <4>1. Owns(h[q].v) /\ h[q].v.text = t
        BY <1>4, <1>5, <3>1, <3>2
      <4> QED BY <1>4, <4>1 DEF Owned
    <3>3. CASE m # n
      BY <1>3, <3>1, <3>3 DEF Owned
    <3> QED BY <3>2, <3>3
  <2> QED BY <2>1, <2>2, <2>3 DEF Owned
<1>10. Told(to)
  BY <1>2, <1>3 DEF VarHolds, Told, W
<1> QED BY <1>2, <1>3, <1>6, <1>7, <1>8, <1>9, <1>10 DEF VarHolds, W, h, lv, to

Without(g, q) == [p \in DOMAIN g \ {q} |-> g[p]]

WithoutIs(g, q, h) ==
  /\ DOMAIN h = DOMAIN g \ {q}
  /\ \A p \in DOMAIN h : p \in DOMAIN g /\ p # q /\ h[p] = g[p]

LEMMA WithoutText ==
  ASSUME NEW st, NEW g, NEW lost \in BOOLEAN, VarHolds(st, g, lost), NEW q \in DOMAIN g,
         g[q].v.text = Static
  PROVE  VarHolds(st, Without(g, q), lost)
<1> DEFINE h == Without(g, q)
           V == st.vars
<1>1. WithoutIs(g, q, h)
  BY DEF Without, WithoutIs
<1> HIDE DEF h
<1>2. SavesRight(V, h)
  BY <1>1 DEF VarHolds, SavesRight, WithoutIs
<1>3. OwnersApart(V, h)
  <2>1. OwnersApart(V, g)
    BY DEF VarHolds
  <2> QED BY <1>1, <2>1 DEF OwnersApart, WithoutIs
<1>4. TextsThere(st, h)
  BY <1>1 DEF VarHolds, TextsThere, WithoutIs
<1>5. ASSUME ~lost, NEW t \in st.texts PROVE Owned(V, h, t)
  <2>1. Owned(V, g, t)
    BY <1>5 DEF VarHolds
  <2>2. CASE \E p \in DOMAIN g : Owns(g[p].v) /\ g[p].v.text = t
    <3>1. PICK p \in DOMAIN g : Owns(g[p].v) /\ g[p].v.text = t
      BY <2>2
    <3>2. p # q
      BY <3>1 DEF Owns
    <3>3. p \in DOMAIN h /\ h[p] = g[p]
      BY <1>1, <3>2 DEF WithoutIs
    <3> QED BY <3>1, <3>3 DEF Owned
  <2>3. CASE \E m \in VarNames : Owns(V[m]) /\ V[m].text = t
    BY <2>3 DEF Owned
  <2> QED BY <2>1, <2>2, <2>3 DEF Owned
<1> QED BY <1>2, <1>3, <1>4, <1>5 DEF VarHolds, h

\* A variable is what it was when it was saved last.
ReturnedTo(st, n, v, to) ==
  /\ to \in VarStates /\ to.vars = [st.vars EXCEPT ![n] = v]
  /\ to.texts = st.texts \ FreesText(st.vars[n])
  /\ to.seen = IF st.vars[n].func THEN [st.seen EXCEPT ![n] = v.text] ELSE st.seen

LEMMA ReturnKeeps ==
  ASSUME NEW st, NEW g, NEW lost \in BOOLEAN, VarHolds(st, g, lost), NEW q \in DOMAIN g,
         \A p \in DOMAIN g \ {q} : Newer(q, p), g[q].vp \in VarNames,
         NEW to, ReturnedTo(st, g[q].vp, g[q].v, to)
  PROVE  VarHolds(to, Without(g, q), lost)
<1> DEFINE V == st.vars
           W == to.vars
           n == g[q].vp
           w == g[q].v
           v == V[n]
           freed == FreesText(v)
           h == Without(g, q)
<1>1. /\ st \in VarStates /\ V \in [VarNames -> VarType]
      /\ st.texts \in SUBSET (Nat \ {0}) /\ v \in VarType /\ VarRight(v) /\ OwnersApart(V, g)
      /\ TextsThere(st, g) /\ st.seen \in [VarNames -> Nat]
  BY DEF VarHolds, VarStates
<1>2. /\ n \in VarNames /\ w \in VarType /\ VarRight(w) /\ w.func = v.func
  BY VarAssumption DEF VarHolds, SavesRight, SaveRight, SavedType, VarAssumption
<1>3. /\ to \in VarStates /\ W[n] = w /\ \A m \in VarNames : m # n => W[m] = V[m]
      /\ to.texts = st.texts \ freed
      /\ to.seen = IF v.func THEN [st.seen EXCEPT ![n] = w.text] ELSE st.seen
  BY <1>1, <1>2 DEF ReturnedTo
<1>4. WithoutIs(g, q, h)
  BY DEF Without, WithoutIs
<1>5. ASSUME NEW p \in DOMAIN h
      PROVE  p \in DOMAIN g /\ p # q /\ h[p] = g[p] /\ ~Newer(p, q)
  <2>1. p \in DOMAIN g /\ p # q /\ h[p] = g[p]
    BY <1>4 DEF WithoutIs
  <2>2. Newer(q, p) /\ p \in Nat \X Nat /\ q \in Nat \X Nat
    BY <2>1 DEF VarHolds, SavesRight
  <2> QED BY <2>1, <2>2 DEF Newer
<1>6. \A t \in freed : t # Static => Owns(v) /\ v.text = t
  BY DEF FreesText, Owns
<1> HIDE DEF freed
<1>7. \A m \in VarNames : m # n => V[m].text = Static \/ V[m].text \notin freed
  BY <1>1, <1>2, <1>6 DEF OwnersApart
<1>8. \A p \in DOMAIN g : g[p].v.text = Static \/ g[p].v.text \notin freed
  BY <1>1, <1>2, <1>6 DEF OwnersApart
<1>9. \A m \in VarNames : VarRight(W[m])
  BY <1>2, <1>3 DEF VarHolds
<1>10. \A m \in VarNames : W[m].func = V[m].func
  BY <1>2, <1>3
<1> HIDE DEF W, V, h, w, n
<1>11. SavesRight(W, h)
  <2>1. ASSUME NEW p \in DOMAIN h PROVE p \in Nat \X Nat /\ SaveRight(h[p], W)
    <3>1. p \in Nat \X Nat /\ SaveRight(h[p], V)
      BY <1>5 DEF VarHolds, SavesRight, V
    <3> QED BY <1>10, <3>1 DEF SaveRight, SavedType
  <2> QED BY <2>1 DEF SavesRight
<1>12. OwnersApart(W, h)
  <2>1. ASSUME NEW k \in VarNames, NEW m \in VarNames, Owns(W[k]), W[m].text = W[k].text
        PROVE  m = k
    <3>1. CASE k = n /\ m # n
      <4>1. Owns(g[q].v) /\ V[m].text = g[q].v.text
        BY <1>3, <2>1, <3>1 DEF w
      <4> QED BY <1>1, <3>1, <4>1 DEF OwnersApart, n
    <3>2. CASE k # n /\ m = n
      <4>1. Owns(V[k]) /\ g[q].v.text = V[k].text
        BY <1>3, <2>1, <3>2 DEF w
      <4> QED BY <1>1, <4>1 DEF OwnersApart
    <3>3. CASE k # n /\ m # n
      BY <1>1, <1>3, <2>1, <3>3 DEF OwnersApart
    <3> QED BY <3>1, <3>2, <3>3
  <2>2. ASSUME NEW k \in VarNames, NEW p \in DOMAIN h, Owns(W[k])
        PROVE  h[p].v.text # W[k].text
    <3>1. CASE k = n
      <4>1. Owns(g[q].v) /\ W[k] = g[q].v
        BY <1>3, <2>2, <3>1 DEF w
      <4>2. p \in DOMAIN g /\ p # q /\ h[p] = g[p] /\ ~Newer(p, q)
        BY <1>5
      <4> QED BY <1>1, <4>1, <4>2 DEF OwnersApart
    <3>2. CASE k # n
      BY <1>1, <1>3, <1>5, <2>2, <3>2 DEF OwnersApart
    <3> QED BY <3>1, <3>2
  <2>3. ASSUME NEW k \in VarNames, NEW p \in DOMAIN h, Owns(h[p].v), W[k].text = h[p].v.text
        PROVE  h[p].vp = k
    <3>0. p \in DOMAIN g /\ p # q /\ h[p] = g[p]
      BY <1>5
    <3>1. CASE k = n
      <4>1. Owns(g[p].v) /\ g[q].v.text = g[p].v.text
        BY <1>3, <2>3, <3>0, <3>1 DEF w
      <4>2. g[q].vp = g[p].vp
        BY <1>1, <3>0, <4>1 DEF OwnersApart
      <4> QED BY <3>0, <3>1, <4>2 DEF n
    <3>2. CASE k # n
      BY <1>1, <1>3, <3>0, <2>3, <3>2 DEF OwnersApart
    <3> QED BY <3>1, <3>2
  <2>4. ASSUME NEW p \in DOMAIN h, NEW r \in DOMAIN h, Owns(h[p].v), h[r].v.text = h[p].v.text
        PROVE  h[r].vp = h[p].vp /\ (r = p \/ Newer(r, p))
    BY <1>1, <1>5, <2>4 DEF OwnersApart
  <2> QED BY <2>1, <2>2, <2>3, <2>4 DEF OwnersApart
<1>13. TextsThere(to, h)
  <2>0. TextsThere(st, g)
    BY DEF VarHolds
  <2>1. ASSUME NEW m \in VarNames PROVE W[m].text \in to.texts \cup {Static}
    <3>1. CASE m = n
      BY <1>3, <1>8, <2>0, <3>1 DEF TextsThere, w
    <3>2. CASE m # n
      BY <1>3, <1>7, <2>0, <3>2 DEF TextsThere, V
    <3> QED BY <3>1, <3>2
  <2>2. ASSUME NEW p \in DOMAIN h PROVE h[p].v.text \in to.texts \cup {Static}
    BY <1>3, <1>5, <1>8, <2>0 DEF TextsThere
  <2> QED BY <2>1, <2>2 DEF TextsThere, W
<1>14. ASSUME ~lost, NEW t \in to.texts PROVE Owned(W, h, t)
  <2>1. t \in st.texts /\ t \notin freed
    BY <1>3, <1>14
  <2>2. Owned(V, g, t)
    BY <1>14, <2>1 DEF VarHolds, V
  <2>3. CASE \E p \in DOMAIN g : Owns(g[p].v) /\ g[p].v.text = t
    <3>1. PICK p \in DOMAIN g : Owns(g[p].v) /\ g[p].v.text = t
      BY <2>3
    <3>2. CASE p = q
      BY <1>2, <1>3, <3>1, <3>2 DEF Owned, w
    <3>3. CASE p # q
      <4>1. p \in DOMAIN h /\ h[p] = g[p]
        BY <1>4, <3>3 DEF WithoutIs
      <4> QED BY <3>1, <4>1 DEF Owned
    <3> QED BY <3>2, <3>3
  <2>4. CASE \E m \in VarNames : Owns(V[m]) /\ V[m].text = t
    <3>1. PICK m \in VarNames : Owns(V[m]) /\ V[m].text = t
      BY <2>4
    <3>2. m # n
      <4>1. SUFFICES ASSUME m = n PROVE FALSE
        OBVIOUS
      <4>2. v.text \in freed
        BY <3>1, <4>1 DEF freed, FreesText, Owns, v
      <4> QED BY <2>1, <3>1, <4>1, <4>2 DEF v
    <3> QED BY <1>3, <3>1, <3>2 DEF Owned
  <2> QED BY <2>2, <2>3, <2>4 DEF Owned
<1>15. Told(to)
  <2>1. ASSUME NEW m \in VarNames, W[m].func, ~W[m].unset
        PROVE  to.seen[m] = W[m].text
    <3>1. CASE m # n
      <4>1. st.seen[m] = V[m].text
        BY <1>3, <2>1, <3>1 DEF VarHolds, Told, V
      <4> QED BY <1>1, <1>3, <3>1, <4>1
    <3>2. CASE m = n
      BY <1>1, <1>2, <1>3, <2>1, <3>2
    <3> QED BY <3>1, <3>2
  <2> QED BY <2>1 DEF Told, W
<1> QED BY <1>3, <1>9, <1>11, <1>12, <1>13, <1>14, <1>15 DEF VarHolds, W, h

\* PutBack of what was saved last.
LEMMA PutBackKeeps ==
  ASSUME NEW st, NEW g, NEW lost \in BOOLEAN, VarHolds(st, g, lost), NEW q \in DOMAIN g,
         \A p \in DOMAIN g \ {q} : Newer(q, p)
  PROVE  VarHolds(PutBack(st, g[q]), Without(g, q), lost)
<1> DEFINE lv == g[q]
           n == lv.vp
           h == Without(g, q)
           to == PutBack(st, lv)
<1>1. /\ st \in VarStates
      /\ st \in [vars : [VarNames -> VarType], texts : SUBSET (Nat \ {0}), seen : [VarNames -> Nat],
                 aflag : BOOLEAN] /\ IsFiniteSet(st.texts)
      /\ SaveRight(lv, st.vars) /\ lv \in SavedType /\ lv.v \in VarType
      /\ n \in VarNames \cup {"-"}
  BY DEF VarHolds, VarStates, SavesRight, SaveRight, SavedType
<1>2. ASSUME n = "-" PROVE VarHolds(to, h, lost)
  <2>1. VarHolds(st, h, lost)
    BY <1>1, <1>2, WithoutText DEF SaveRight
  <2>2. to = [st EXCEPT !.aflag = lv.v.export]
    BY <1>2 DEF PutBack
  <2>3. to \in VarStates /\ to.vars = st.vars /\ to.texts = st.texts /\ to.seen = st.seen
    BY <1>1, <2>2 DEF VarStates, VarType
  <2> HIDE DEF to, h
  <2> QED BY <2>1, <2>3 DEF VarHolds, TextsThere, Told
<1>3. ASSUME n # "-", ~lv.v.there PROVE VarHolds(to, h, lost)
  <2>1. n \in VarNames /\ lv.v = NotThere /\ VarRight(st.vars[n]) /\ st.vars[n] \in VarType
    BY <1>1, <1>3 DEF SaveRight, VarRight, VarHolds
  <2>2. lv.v.text = Static /\ ~st.vars[n].func
    <3>1. NotThere.text = Static /\ NotThere.func = FALSE
      BY DEF NotThere
    <3>2. lv.v.func = st.vars[n].func /\ st.vars[n].func \in BOOLEAN
      BY <1>1, <1>3, <2>1 DEF SaveRight, VarType
    <3> QED BY <2>1, <3>1, <3>2
  <2> DEFINE v == st.vars[n]
             w == [v EXCEPT !.strfixed = FALSE]
             mid == [st EXCEPT !.vars[n] = w]
  <2>3. VarHolds(st, h, lost)
    BY <2>2, WithoutText
  <2>4. /\ w \in VarType /\ w.text = v.text /\ w.textfixed = v.textfixed /\ w.func = v.func
        /\ w.unset = v.unset /\ w.there = v.there
    BY <2>1 DEF VarType
  <2>5. w = NotThere \/ v.there
    <3>1. SUFFICES ASSUME ~v.there PROVE w = NotThere
      OBVIOUS
    <3>2. v = NotThere
      BY <2>1, <3>1 DEF VarRight
    <3>3. v.strfixed = FALSE
      BY <3>2 DEF NotThere
    <3>4. w = v
      BY <2>1, <3>3 DEF VarType
    <3> QED BY <3>2, <3>4
  <2>6. Reflagged(w, v)
    <3> HIDE DEF w, v
    <3> QED BY <2>1, <2>2, <2>4, <2>5 DEF Reflagged, VarRight, NotThere, v
  <2>7. VarHolds(mid, h, lost)
    <3> HIDE DEF w, h
    <3> QED BY <2>1, <2>3, <2>6, FlagsKeep
  <2>8. to = Setvareq([st EXCEPT !.vars[n].strfixed = FALSE], n, TRUE, Plain)
    BY <1>3 DEF PutBack
  <2>9. [st EXCEPT !.vars[n].strfixed = FALSE] = mid
    BY <1>1, <2>1
  <2>10. Plain \in FlagsType
    BY DEF Plain, FlagsType
  <2>11. to = Setvareq(mid, n, TRUE, Plain)
    BY <2>8, <2>9
  <2> HIDE DEF mid, h, to, n
  <2> QED BY <2>1, <2>7, <2>10, <2>11, SetvareqKeeps
<1>4. ASSUME n # "-", lv.v.there PROVE VarHolds(to, h, lost)
  <2>1. n \in VarNames /\ lv.v \in VarType /\ lv.v.text \in Nat
    BY <1>1, <1>4 DEF VarType
  <2>2. to = [st EXCEPT !.vars[n] = lv.v, !.texts = @ \ FreesText(st.vars[n]),
                        !.seen = Called(st, n, lv.v.text)]
    BY <1>4 DEF PutBack
  <2>3. Called(st, n, lv.v.text)
          = IF st.vars[n].func THEN [st.seen EXCEPT ![n] = lv.v.text] ELSE st.seen
    BY DEF Called
  <2>4. Called(st, n, lv.v.text) \in [VarNames -> Nat]
    BY <1>1, <2>1, <2>3
  <2>5. /\ to.vars = [st.vars EXCEPT ![n] = lv.v] /\ to.texts = st.texts \ FreesText(st.vars[n])
        /\ to.seen = Called(st, n, lv.v.text)
    BY <1>1, <2>2
  <2>6. IsFiniteSet(st.texts \ FreesText(st.vars[n]))
    BY <1>1, FS_Subset
  <2>7. to \in VarStates
    <3>1. to \in [vars : [VarNames -> VarType], texts : SUBSET (Nat \ {0}),
                  seen : [VarNames -> Nat], aflag : BOOLEAN]
      <4>1. Called(st, n, lv.v.text) \in [VarNames -> Nat] /\ lv.v \in VarType /\ n \in VarNames
        BY <2>1, <2>4
      <4> HIDE DEF to, n, lv
      <4> QED BY <1>1, <2>2, <2>5, <4>1
    <3> QED BY <2>5, <2>6, <3>1 DEF VarStates
  <2>8. ReturnedTo(st, n, lv.v, to)
    BY <2>3, <2>5, <2>7 DEF ReturnedTo
  <2> HIDE DEF to
  <2> QED BY <2>1, <2>8, ReturnKeeps
<1> QED BY <1>2, <1>3, <1>4

Stacks == Seq(Seq(SavedType))

\* The place of what is saved next.
NextPlace(stack) == <<Len(stack), Len(stack[Len(stack)]) + 1>>

Pushed(stack, lv) == [stack EXCEPT ![Len(stack)] = <<lv>> \o @]

LEMMA PlacesAre ==
  ASSUME NEW stack \in Stacks
  PROVE  /\ Len(stack) \in Nat
         /\ \A i \in 1..Len(stack) : stack[i] \in Seq(SavedType) /\ Len(stack[i]) \in Nat
         /\ \A p \in SavedPlaces(stack) :
              /\ p[1] \in 1..Len(stack) /\ p[2] \in 1..Len(stack[p[1]]) /\ p = <<p[1], p[2]>>
              /\ p[1] \in Nat /\ p[2] \in Nat
              /\ SavedAt(stack, p) \in SavedType
<1>1. /\ Len(stack) \in Nat
      /\ \A i \in 1..Len(stack) : stack[i] \in Seq(SavedType) /\ Len(stack[i]) \in Nat
  BY DEF Stacks
<1>2. ASSUME NEW p \in SavedPlaces(stack)
      PROVE  /\ p[1] \in 1..Len(stack) /\ p[2] \in 1..Len(stack[p[1]]) /\ p = <<p[1], p[2]>>
             /\ p[1] \in Nat /\ p[2] \in Nat
             /\ SavedAt(stack, p) \in SavedType
  <2>1. /\ p[1] \in 1..Len(stack) /\ p[2] \in 1..Len(stack[p[1]]) /\ p = <<p[1], p[2]>>
        /\ p[1] \in Nat /\ p[2] \in Nat
    BY DEF SavedPlaces
  <2> DEFINE l == stack[p[1]]
  <2>2. l \in Seq(SavedType) /\ Len(l) \in Nat /\ Len(l) + 1 - p[2] \in 1..Len(l)
    BY <1>1, <2>1
  <2>3. SavedAt(stack, p) = l[Len(l) + 1 - p[2]]
    BY DEF SavedAt
  <2> HIDE DEF l
  <2>4. l[Len(l) + 1 - p[2]] \in SavedType
    BY <2>2
  <2> QED BY <2>1, <2>3, <2>4
<1> QED BY <1>1, <1>2

\* One more is saved.
LEMMA PushedIs ==
  ASSUME NEW stack \in Stacks, stack # <<>>, NEW lv \in SavedType
  PROVE  /\ Pushed(stack, lv) \in Stacks
         /\ Newest(NextPlace(stack), AllSaves(stack))
         /\ AllSaves(Pushed(stack, lv)) = Extended(AllSaves(stack), NextPlace(stack), lv)
<1> DEFINE n == Len(stack)
           l == stack[n]
           to == Pushed(stack, lv)
           q == <<n, Len(l) + 1>>
<1>1. /\ n \in 1..n /\ n \in Nat /\ l \in Seq(SavedType) /\ Len(l) \in Nat
      /\ \A i \in 1..n : stack[i] \in Seq(SavedType) /\ Len(stack[i]) \in Nat
  BY PlacesAre DEF Stacks
<1>2. /\ <<lv>> \o l \in Seq(SavedType) /\ Len(<<lv>> \o l) = Len(l) + 1
      /\ (<<lv>> \o l)[1] = lv
      /\ \A k \in 1..Len(l) : (<<lv>> \o l)[k + 1] = l[k]
  <2> HIDE DEF l
  <2> QED BY <1>1
<1>3. to = [stack EXCEPT ![n] = <<lv>> \o l]
  BY DEF Pushed
<1>4. /\ to \in Stacks /\ Len(to) = n /\ to[n] = <<lv>> \o l
      /\ \A i \in 1..n : i # n => to[i] = stack[i]
  <2>1. stack \in Seq(Seq(SavedType)) /\ DOMAIN stack = 1..n
    BY DEF Stacks
  <2> DEFINE m == <<lv>> \o l
  <2>2. m \in Seq(SavedType)
    BY <1>2
  <2>3. to = [stack EXCEPT ![n] = m]
    BY <1>3
  <2> HIDE DEF m, to
  <2>5. DOMAIN to = 1..n /\ to[n] = m /\ \A i \in 1..n : i # n => to[i] = stack[i]
    <3> HIDE DEF n
    <3> QED BY <1>1, <2>1, <2>3
  <2>6. \A i \in 1..n : to[i] \in Seq(SavedType)
    <3> HIDE DEF n
    <3> QED BY <1>1, <2>2, <2>5
  <2>7. to \in [1..n -> Seq(SavedType)]
    <3> HIDE DEF n
    <3>1. to = [i \in 1..n |-> to[i]]
      BY <2>3, <2>1, <2>5
    <3> QED BY <2>6, <3>1
  <2>8. to \in Seq(Seq(SavedType)) /\ Len(to) = n
    <3> HIDE DEF n
    <3>1. n \in Nat
      BY <1>1
    <3>2. to \in Seq(Seq(SavedType))
      BY <2>7, <3>1
    <3>3. DOMAIN to = 1..Len(to) /\ Len(to) \in Nat
      BY <3>2
    <3> QED BY <1>1, <2>5, <3>2, <3>3
  <2>4. to \in Seq(Seq(SavedType)) /\ Len(to) = n /\ to[n] = m
        /\ \A i \in 1..n : i # n => to[i] = stack[i]
    BY <2>5, <2>8
  <2> QED BY <2>4 DEF Stacks, m
<1> HIDE DEF to
<1>5. q = NextPlace(stack) /\ q \in Nat \X Nat /\ q[1] = n /\ q[2] = Len(l) + 1
  BY <1>1 DEF NextPlace
<1> HIDE DEF q
<1>6. SavedPlaces(to) = SavedPlaces(stack) \cup {q} /\ q \notin SavedPlaces(stack)
  <2> HIDE DEF l, n
  <2>1. ASSUME NEW p \in Nat \X Nat
        PROVE  p \in SavedPlaces(to) <=> p \in SavedPlaces(stack) \/ p = q
    <3>1. p[1] \in Nat /\ p[2] \in Nat /\ p = <<p[1], p[2]>> /\ q = <<q[1], q[2]>>
      BY <1>5
    <3>2. p = q <=> p[1] = n /\ p[2] = Len(l) + 1
      BY <1>5, <3>1
    <3>3. p \in SavedPlaces(to) <=> p[1] \in 1..n /\ p[2] \in 1..Len(to[p[1]])
      BY <1>4 DEF SavedPlaces
    <3>4. p \in SavedPlaces(stack) <=> p[1] \in 1..n /\ p[2] \in 1..Len(stack[p[1]])
      BY DEF SavedPlaces, n
    <3>5. CASE p[1] = n
      <4>1. p \in SavedPlaces(to) <=> p[2] \in 1..(Len(l) + 1)
        BY <1>1, <1>2, <1>4, <3>3, <3>5
      <4>2. p \in SavedPlaces(stack) <=> p[2] \in 1..Len(l)
        BY <1>1, <3>4, <3>5 DEF l
      <4> QED BY <1>1, <3>1, <3>2, <3>5, <4>1, <4>2
    <3>6. CASE p[1] # n
      BY <1>4, <3>2, <3>3, <3>4, <3>6
    <3> QED BY <3>5, <3>6
  <2>2. SavedPlaces(to) \subseteq Nat \X Nat /\ SavedPlaces(stack) \subseteq Nat \X Nat
    BY DEF SavedPlaces
  <2>3. q \notin SavedPlaces(stack)
    <3>1. ~(q[2] \in 1..Len(stack[q[1]]))
      BY <1>1, <1>5 DEF l
    <3> QED BY <3>1 DEF SavedPlaces
  <2> QED BY <1>5, <2>1, <2>2, <2>3
<1>7. SavedAt(to, q) = lv
  BY <1>1, <1>2, <1>4, <1>5 DEF SavedAt
<1>8. ASSUME NEW p \in SavedPlaces(stack) PROVE SavedAt(to, p) = SavedAt(stack, p)
  <2>1. p[1] \in 1..n /\ p[2] \in 1..Len(stack[p[1]])
    BY PlacesAre
  <2>2. CASE p[1] = n
    <3>1. Len(l) + 1 - p[2] \in 1..Len(l)
      BY <1>1, <2>1, <2>2
    <3>2. SavedAt(to, p) = (<<lv>> \o l)[(Len(l) + 1 - p[2]) + 1]
      <4>1. Len(to[p[1]]) + 1 - p[2] = (Len(l) + 1 - p[2]) + 1
        BY <1>1, <1>2, <1>4, <2>1, <2>2
      <4> QED BY <1>4, <2>2, <4>1 DEF SavedAt
    <3>3. SavedAt(stack, p) = l[Len(l) + 1 - p[2]]
      BY <2>2 DEF SavedAt
    <3> QED BY <1>2, <3>1, <3>2, <3>3
  <2>3. CASE p[1] # n
    BY <1>4, <2>1, <2>3 DEF SavedAt
  <2> QED BY <2>2, <2>3
<1>9. AllSaves(to) = Extended(AllSaves(stack), q, lv)
  <2>1. DOMAIN AllSaves(stack) = SavedPlaces(stack)
    BY DEF AllSaves
  <2>2. \A p \in SavedPlaces(stack) : p # q /\ AllSaves(stack)[p] = SavedAt(to, p)
    BY <1>6, <1>8 DEF AllSaves
  <2> QED BY <1>6, <1>7, <2>1, <2>2 DEF AllSaves, Extended
<1>10. Newest(q, AllSaves(stack))
  <2>1. DOMAIN AllSaves(stack) = SavedPlaces(stack)
    BY DEF AllSaves
  <2>2. ASSUME NEW p \in SavedPlaces(stack) PROVE Newer(q, p)
    <3>1. p[1] \in 1..n /\ p[2] \in 1..Len(stack[p[1]])
      BY PlacesAre
    <3>2. CASE p[1] = n
      BY <1>1, <1>5, <3>1, <3>2 DEF Newer
    <3>3. CASE p[1] # n
      BY <1>1, <1>5, <3>1, <3>3 DEF Newer
    <3> QED BY <3>2, <3>3
  <2> QED BY <1>5, <1>6, <2>1, <2>2 DEF Newest
<1> QED BY <1>4, <1>5, <1>9, <1>10 DEF to

\* All up to the a-th of the j-th list, and without that.
LEMMA SavesWithout ==
  ASSUME NEW stack \in Stacks, NEW j \in 1..Len(stack), NEW a \in 1..Len(stack[j])
  PROVE  LET g == Saves(stack, j, a) IN
         /\ <<j, a>> \in DOMAIN g /\ g[<<j, a>>] = stack[j][Len(stack[j]) + 1 - a]
         /\ \A p \in DOMAIN g \ {<<j, a>>} : Newer(<<j, a>>, p)
         /\ Without(g, <<j, a>>) = Saves(stack, j, a - 1)
<1> DEFINE upto(b) == {p \in SavedPlaces(stack) : p[1] < j \/ (p[1] = j /\ p[2] <= b)}
           g == Saves(stack, j, a)
           q == <<j, a>>
<1>1. j \in Nat /\ a \in Nat /\ Len(stack[j]) \in Nat /\ Len(stack) \in Nat
  BY PlacesAre
<1>2. q \in SavedPlaces(stack) /\ q[1] = j /\ q[2] = a
  BY <1>1 DEF SavedPlaces
<1>3. DOMAIN g = upto(a) /\ \A p \in upto(a) : g[p] = SavedAt(stack, p)
  BY DEF Saves
<1>4. q \in upto(a) /\ g[q] = stack[j][Len(stack[j]) + 1 - a]
  <2>1. q \in upto(a)
    BY <1>1, <1>2
  <2>2. SavedAt(stack, q) = stack[j][Len(stack[j]) + 1 - a]
    BY <1>2 DEF SavedAt
  <2> QED BY <1>3, <2>1, <2>2
<1>5. ASSUME NEW p \in upto(a), p # q PROVE Newer(q, p) /\ p \in upto(a - 1)
  <2>1. p \in SavedPlaces(stack) /\ p[1] \in Nat /\ p[2] \in Nat /\ p = <<p[1], p[2]>>
    BY PlacesAre
  <2>2. ~(p[1] = j /\ p[2] = a)
    BY <1>5, <2>1
  <2> QED BY <1>1, <1>2, <2>1, <2>2 DEF Newer
<1>6. ASSUME NEW p \in upto(a - 1) PROVE p \in upto(a) /\ p # q
  <2>1. p \in SavedPlaces(stack) /\ p[1] \in Nat /\ p[2] \in Nat
    BY PlacesAre
  <2> QED BY <1>1, <1>2, <2>1
<1>7. upto(a - 1) = upto(a) \ {q}
  BY <1>5, <1>6
<1>8. Without(g, q) = Saves(stack, j, a - 1)
  <2>1. Saves(stack, j, a - 1) = [p \in upto(a - 1) |-> SavedAt(stack, p)]
    BY DEF Saves
  <2> HIDE DEF upto, g, q
  <2> QED BY <1>3, <1>7, <2>1 DEF Without
<1> QED BY <1>3, <1>4, <1>5, <1>8

\* The saves of some of the lists.
LEMMA SavesAre ==
  ASSUME NEW stack \in Stacks
  PROVE  /\ stack # <<>> =>
              /\ Saves(stack, Len(stack), Len(stack[Len(stack)])) = AllSaves(stack)
              /\ Front(stack) \in Stacks
              /\ Saves(stack, Len(stack), 0) = AllSaves(Front(stack))
              /\ Saves(stack, 1, 0) = AllSaves(<<>>)
         /\ \A j \in 1..Len(stack) :
              j > 1 => Saves(stack, j, 0) = Saves(stack, j - 1, Len(stack[j - 1]))
         /\ Append(stack, <<>>) \in Stacks
         /\ AllSaves(Append(stack, <<>>)) = AllSaves(stack)
<1> DEFINE n == Len(stack)
           upto(j, a) == {p \in SavedPlaces(stack) : p[1] < j \/ (p[1] = j /\ p[2] <= a)}
<1>1. /\ n \in Nat /\ \A p \in SavedPlaces(stack) :
           p[1] \in 1..n /\ p[2] \in 1..Len(stack[p[1]]) /\ p[1] \in Nat /\ p[2] \in Nat
      /\ \A i \in 1..n : Len(stack[i]) \in Nat
  BY PlacesAre
<1>2. ASSUME stack # <<>>
      PROVE  /\ Saves(stack, n, Len(stack[n])) = AllSaves(stack)
             /\ Front(stack) \in Stacks
             /\ Saves(stack, n, 0) = AllSaves(Front(stack))
             /\ Saves(stack, 1, 0) = AllSaves(<<>>)
  <2>1. n \in 1..n /\ n - 1 \in Nat
    BY <1>2 DEF Stacks
  <2>2. upto(n, Len(stack[n])) = SavedPlaces(stack)
    BY <1>1, <2>1
  <2>3. Saves(stack, n, Len(stack[n])) = AllSaves(stack)
    BY <2>2 DEF Saves, AllSaves
  <2>4. /\ Front(stack) \in Stacks /\ Len(Front(stack)) = n - 1
        /\ \A i \in 1..(n - 1) : Front(stack)[i] = stack[i]
    <3>1. Front(stack) = SubSeq(stack, 1, n - 1)
      BY DEF Front
    <3>2. /\ Front(stack) = [i \in 1..(n - 1) |-> stack[i]]
      BY <1>1, <2>1, <3>1
    <3>3. \A i \in 1..(n - 1) : stack[i] \in Seq(SavedType)
      BY <1>1, <2>1 DEF Stacks
    <3> HIDE DEF n
    <3>4. Front(stack) \in [1..(n - 1) -> Seq(SavedType)]
      BY <3>2, <3>3
    <3>5. Front(stack) \in Seq(Seq(SavedType))
      BY <2>1, <3>4
    <3>6. DOMAIN Front(stack) = 1..Len(Front(stack)) /\ Len(Front(stack)) \in Nat
      BY <3>5
    <3> QED BY <2>1, <3>2, <3>5, <3>6 DEF Stacks
  <2>5. ASSUME NEW p PROVE p \in SavedPlaces(Front(stack)) <=> p \in upto(n, 0)
    <3>1. p \in SavedPlaces(Front(stack)) <=>
            p \in Nat \X Nat /\ p[1] \in 1..(n - 1) /\ p[2] \in 1..Len(stack[p[1]])
      BY <2>4 DEF SavedPlaces
    <3>2. p \in SavedPlaces(stack) <=>
            p \in Nat \X Nat /\ p[1] \in 1..n /\ p[2] \in 1..Len(stack[p[1]])
      BY DEF SavedPlaces
    <3> QED BY <1>1, <2>1, <3>1, <3>2
  <2>6. ASSUME NEW p \in upto(n, 0) PROVE SavedAt(Front(stack), p) = SavedAt(stack, p)
    <3>1. p[1] \in 1..(n - 1)
      BY <1>1, <2>1
    <3> QED BY <2>4, <3>1 DEF SavedAt
  <2>7. Saves(stack, n, 0) = AllSaves(Front(stack))
    <3>1. SavedPlaces(Front(stack)) = upto(n, 0)
      BY <2>5
    <3>2. Saves(stack, n, 0) = [p \in upto(n, 0) |-> SavedAt(stack, p)]
      BY DEF Saves
    <3> HIDE DEF upto
    <3> QED BY <2>6, <3>1, <3>2 DEF AllSaves
  <2>8. Saves(stack, 1, 0) = AllSaves(<<>>)
    <3>1. upto(1, 0) = {}
      BY <1>1
    <3>2. SavedPlaces(<<>>) = {}
      BY DEF SavedPlaces
    <3>3. Saves(stack, 1, 0) = [p \in upto(1, 0) |-> SavedAt(stack, p)]
      BY DEF Saves
    <3> HIDE DEF upto
    <3>4. Saves(stack, 1, 0) = [p \in {} |-> SavedAt(stack, p)]
      BY <3>1, <3>3
    <3> QED BY <3>2, <3>4 DEF AllSaves
  <2> QED BY <2>3, <2>4, <2>7, <2>8
<1>3. ASSUME NEW j \in 1..n, j > 1
      PROVE  Saves(stack, j, 0) = Saves(stack, j - 1, Len(stack[j - 1]))
  <2>1. upto(j, 0) = upto(j - 1, Len(stack[j - 1]))
    BY <1>1, <1>3
  <2>2. /\ Saves(stack, j, 0) = [p \in upto(j, 0) |-> SavedAt(stack, p)]
        /\ Saves(stack, j - 1, Len(stack[j - 1]))
             = [p \in upto(j - 1, Len(stack[j - 1])) |-> SavedAt(stack, p)]
    BY DEF Saves
  <2> HIDE DEF upto
  <2> QED BY <2>1, <2>2
<1>4. /\ Append(stack, <<>>) \in Stacks
      /\ AllSaves(Append(stack, <<>>)) = AllSaves(stack)
  <2> DEFINE to == Append(stack, <<>>)
  <2>1. to \in Stacks
    <3>1. <<>> \in Seq(SavedType)
      OBVIOUS
    <3> QED BY <3>1 DEF Stacks
  <2>2. Len(to) = n + 1 /\ to[n + 1] = <<>> /\ \A i \in 1..n : to[i] = stack[i]
    BY DEF Stacks
  <2> HIDE DEF to
  <2>3. ASSUME NEW p PROVE p \in SavedPlaces(to) <=> p \in SavedPlaces(stack)
    <3>1. p \in SavedPlaces(to) <=>
            p \in Nat \X Nat /\ p[1] \in 1..(n + 1) /\ p[2] \in 1..Len(to[p[1]])
      BY <2>2 DEF SavedPlaces
    <3>2. p \in SavedPlaces(stack) <=>
            p \in Nat \X Nat /\ p[1] \in 1..n /\ p[2] \in 1..Len(stack[p[1]])
      BY DEF SavedPlaces
    <3>3. Len(to[n + 1]) = 0
      BY <2>2
    <3> QED BY <1>1, <2>2, <3>1, <3>2, <3>3
  <2>4. ASSUME NEW p \in SavedPlaces(stack) PROVE SavedAt(to, p) = SavedAt(stack, p)
    BY <1>1, <2>2 DEF SavedAt
  <2>5. SavedPlaces(to) = SavedPlaces(stack)
    BY <2>3
  <2>6. AllSaves(to) = AllSaves(stack)
    BY <2>4, <2>5 DEF AllSaves
  <2> QED BY <2>1, <2>6 DEF to
<1> QED BY <1>2, <1>3, <1>4

-----------------------------------------------------------------------------
\* A list is put back, and all lists are.
LEMMA PutBackPlace ==
  ASSUME NEW stack \in Stacks, NEW j \in 1..Len(stack), NEW a \in 1..Len(stack[j]),
         NEW st, NEW lost \in BOOLEAN, VarHolds(st, Saves(stack, j, a), lost)
  PROVE  VarHolds(PutBack(st, stack[j][Len(stack[j]) + 1 - a]), Saves(stack, j, a - 1), lost)
<1> DEFINE g == Saves(stack, j, a)
           q == <<j, a>>
<1>1. /\ q \in DOMAIN g /\ g[q] = stack[j][Len(stack[j]) + 1 - a]
      /\ \A p \in DOMAIN g \ {q} : Newer(q, p)
      /\ Without(g, q) = Saves(stack, j, a - 1)
  BY SavesWithout
<1>2. VarHolds(st, g, lost)
  OBVIOUS
<1> HIDE DEF g, q
<1>3. VarHolds(PutBack(st, g[q]), Without(g, q), lost)
  BY <1>1, <1>2, PutBackKeeps
<1> QED BY <1>1, <1>3

LEMMA RestoredStages ==
  ASSUME NEW stack \in Stacks, NEW j \in 1..Len(stack), NEW lost \in BOOLEAN,
         NEW n, n = Len(stack[j]), NEW g, VarHolds(g[0], Saves(stack, j, n), lost),
         \A k \in 1..n : g[k] = PutBack(g[k - 1], stack[j][k])
  PROVE  \A k \in 0..n : VarHolds(g[k], Saves(stack, j, n - k), lost)
<1> DEFINE Good == {k \in Nat : k <= n => VarHolds(g[k], Saves(stack, j, n - k), lost)}
<1>1. n \in Nat
  BY PlacesAre
<1>2. 0 \in Good
  <2>1. n - 0 = n
    BY <1>1
  <2> QED BY <2>1
<1>3. ASSUME NEW k \in Good PROVE k + 1 \in Good
  <2>1. SUFFICES ASSUME k + 1 <= n
                 PROVE  VarHolds(g[k + 1], Saves(stack, j, n - (k + 1)), lost)
    OBVIOUS
  <2> DEFINE a == n - k
  <2>2. /\ k \in Nat /\ k <= n /\ a \in 1..n /\ n + 1 - a = k + 1 /\ a - 1 = n - (k + 1)
        /\ k + 1 \in 1..n /\ (k + 1) - 1 = k
    BY <1>1, <2>1
  <2>3. VarHolds(g[k], Saves(stack, j, a), lost)
    BY <2>2
  <2> HIDE DEF a
  <2>4. VarHolds(PutBack(g[k], stack[j][n + 1 - a]), Saves(stack, j, a - 1), lost)
    BY <2>2, <2>3, PutBackPlace
  <2>5. g[k + 1] = PutBack(g[k], stack[j][k + 1])
    BY <2>2
  <2> QED BY <2>2, <2>4, <2>5
<1>4. Good = Nat
  <2>1. Good \in SUBSET Nat
    OBVIOUS
  <2> HIDE DEF Good
  <2> QED BY <1>2, <1>3, <2>1, AllNaturals
<1>5. ASSUME NEW k \in 0..n PROVE VarHolds(g[k], Saves(stack, j, n - k), lost)
  <2>1. k \in Nat /\ k <= n
    BY <1>1
  <2>2. k \in Good
    <3> HIDE DEF Good
    <3> QED BY <1>4, <2>1
  <2> QED BY <2>1, <2>2
<1> QED BY <1>5

LEMMA RestoredKeeps ==
  ASSUME NEW stack \in Stacks, NEW j \in 1..Len(stack), NEW lost \in BOOLEAN,
         NEW st, VarHolds(st, Saves(stack, j, Len(stack[j])), lost)
  PROVE  VarHolds(Restored(st, stack[j]), Saves(stack, j, 0), lost)
<1> DEFINE n == Len(stack[j])
           lvs == stack[j]
<1>1. n \in Nat /\ lvs \in Seq(SavedType) /\ n = Len(lvs)
  BY PlacesAre
<1> HIDE DEF n, lvs
<1>2. PICK g : /\ g[0] = st /\ g[n] = Restored(st, lvs)
               /\ \A k \in 1..n : g[k] = PutBack(g[k - 1], lvs[k])
  <2>1. \E g : RestoresBy(g, st, lvs)
    BY <1>1, RestoredSteps
  <2> QED BY <1>1, <2>1 DEF RestoresBy
<1>3. \A k \in 0..n : VarHolds(g[k], Saves(stack, j, n - k), lost)
  BY <1>2, RestoredStages DEF n, lvs
<1>4. n \in 0..n /\ n - n = 0
  BY <1>1
<1>5. VarHolds(g[n], Saves(stack, j, 0), lost)
  BY <1>3, <1>4
<1> QED BY <1>2, <1>5 DEF lvs

\* What is still saved when k lists are put back.
StillSaved(stack, k) ==
  IF k = Len(stack) THEN AllSaves(<<>>)
  ELSE Saves(stack, Len(stack) - k, Len(stack[Len(stack) - k]))

LEMMA UnwoundKeeps ==
  ASSUME NEW stack \in Stacks, stack # <<>>, NEW lost \in BOOLEAN,
         NEW st, VarHolds(st, AllSaves(stack), lost)
  PROVE  VarHolds(Unwound(st, stack), AllSaves(<<>>), lost)
<1> DEFINE n == Len(stack)
           lists == Reverse(stack)
<1>1. n \in Nat /\ n \in 1..n
  BY DEF Stacks
<1>2. /\ lists \in Seq(Seq(SavedType)) /\ Len(lists) = n
      /\ \A k \in 1..n : lists[k] = stack[n + 1 - k]
  <2>1. lists = [k \in 1..n |-> stack[(n - k) + 1]]
    BY DEF Reverse
  <2>2. \A k \in 1..n : (n - k) + 1 \in 1..n /\ n + 1 - k = (n - k) + 1
    BY <1>1
  <2>3. \A i \in 1..n : stack[i] \in Seq(SavedType)
    BY PlacesAre
  <2> HIDE DEF lists, n
  <2>4. lists \in [1..n -> Seq(SavedType)]
    BY <2>1, <2>2, <2>3
  <2>5. lists \in Seq(Seq(SavedType))
    BY <1>1, <2>4
  <2>6. DOMAIN lists = 1..Len(lists) /\ Len(lists) \in Nat
    BY <2>5
  <2> QED BY <1>1, <2>1, <2>2, <2>5, <2>6
<1> HIDE DEF lists
<1>8. \E g : UnwindsBy(g, st, stack, lists)
  <2> DEFINE T == Seq(SavedType)
  <2>1. lists \in Seq(T) /\ stack \in Seq(T)
    BY <1>2 DEF Stacks
  <2>2. lists = Reverse(stack)
    BY DEF lists
  <2> HIDE DEF T, n
  <2> QED BY <2>1, <2>2, UnwoundSteps
<1>3. PICK g : /\ g[0] = st /\ g[n] = Unwound(st, stack)
               /\ \A k \in 1..n : g[k] = Restored(g[k - 1], lists[k])
  <2>1. Len(lists) = n
    BY <1>2
  <2> HIDE DEF n
  <2> QED BY <1>8, <2>1 DEF UnwindsBy
<1> DEFINE Good == {k \in Nat : k <= n => VarHolds(g[k], StillSaved(stack, k), lost)}
<1>4. 0 \in Good
  <2>1. StillSaved(stack, 0) = AllSaves(stack)
    BY <1>1, SavesAre DEF StillSaved
  <2> QED BY <1>3, <2>1
<1>5. ASSUME NEW k \in Good PROVE k + 1 \in Good
  <2>1. SUFFICES ASSUME k + 1 <= n PROVE VarHolds(g[k + 1], StillSaved(stack, k + 1), lost)
    OBVIOUS
  <2> DEFINE j == n - k
  <2>2. /\ k \in Nat /\ k <= n /\ k # n /\ j \in 1..n /\ n + 1 - (k + 1) = j /\ k + 1 \in 1..n
        /\ (k + 1) - 1 = k /\ j - 1 = n - (k + 1) /\ (k + 1 = n <=> ~(j > 1))
        /\ (~(j > 1) => j = 1)
    BY <1>1, <2>1
  <2>3. VarHolds(g[k], StillSaved(stack, k), lost)
    BY <2>2
  <2>4. StillSaved(stack, k) = Saves(stack, j, Len(stack[j]))
    BY <2>2 DEF StillSaved
  <2>5. g[k + 1] = Restored(g[k], stack[j])
    BY <1>2, <1>3, <2>2
  <2> HIDE DEF j
  <2>6. VarHolds(g[k + 1], Saves(stack, j, 0), lost)
    BY <2>2, <2>3, <2>4, <2>5, RestoredKeeps
  <2>7. Saves(stack, j, 0) = StillSaved(stack, k + 1)
    <3>1. CASE j > 1
      <4>1. Saves(stack, j, 0) = Saves(stack, j - 1, Len(stack[j - 1]))
        BY <2>2, <3>1, SavesAre
      <4> QED BY <2>2, <3>1, <4>1 DEF StillSaved
    <3>2. CASE ~(j > 1)
      <4>1. j = 1 /\ k + 1 = n
        BY <2>2, <3>2
      <4> QED BY <4>1, SavesAre DEF StillSaved
    <3> QED BY <3>1, <3>2
  <2> QED BY <2>6, <2>7
<1>6. Good = Nat
  <2>1. Good \in SUBSET Nat
    OBVIOUS
  <2> HIDE DEF Good
  <2> QED BY <1>4, <1>5, <2>1, AllNaturals
<1>7. VarHolds(g[n], StillSaved(stack, n), lost)
  <2>1. n \in Good
    <3> HIDE DEF Good
    <3> QED BY <1>1, <1>6
  <2> QED BY <1>1, <2>1
<1> QED BY <1>3, <1>7 DEF StillSaved, lists

-----------------------------------------------------------------------------
\* The operations on variables keep the invariant.
LEMMA VarInvIs ==
  ASSUME VarInv
  PROVE  /\ localvar_stack \in Stacks /\ failed \in BOOLEAN
         /\ VarHolds(Vars, AllSaves(localvar_stack), failed)
         /\ Vars \in VarStates /\ vars \in [VarNames -> VarType] /\ aflag \in BOOLEAN
         /\ Vars.vars = vars /\ Vars.texts = texts /\ Vars.seen = seen /\ Vars.aflag = aflag
         /\ \A n \in VarNames : VarRight(vars[n]) /\ vars[n] \in VarType
<1>1. /\ localvar_stack \in Stacks /\ failed \in BOOLEAN
      /\ VarHolds(Vars, AllSaves(localvar_stack), failed)
  BY DEF VarInv, Stacks
<1>2. Vars.vars = vars /\ Vars.texts = texts /\ Vars.seen = seen /\ Vars.aflag = aflag
  BY DEF Vars
<1>3. Vars \in VarStates /\ \A n \in VarNames : VarRight(Vars.vars[n])
  BY <1>1 DEF VarHolds
<1>4. vars \in [VarNames -> VarType] /\ aflag \in BOOLEAN
  BY <1>2, <1>3 DEF VarStates
<1> QED BY <1>1, <1>2, <1>3, <1>4

LEMMA BecomeVars ==
  ASSUME NEW st \in VarStates, Become_vars(st)
  PROVE  Vars' = st
<1>1. Vars' = [vars |-> st.vars, texts |-> st.texts, seen |-> st.seen, aflag |-> st.aflag]
  BY DEF Vars, Become_vars
<1>2. st = [vars |-> st.vars, texts |-> st.texts, seen |-> st.seen, aflag |-> st.aflag]
  BY DEF VarStates
<1> QED BY <1>1, <1>2

LEMMA VarHoldsNext ==
  ASSUME NEW st, VarHolds(st, AllSaves(localvar_stack'), failed'), Vars' = st,
         localvar_stack' \in Stacks, failed' \in BOOLEAN
  PROVE  VarInv'
<1>1. VarHolds(Vars', AllSaves(localvar_stack'), failed')
  OBVIOUS
<1> QED BY <1>1 DEF VarInv, Stacks

LEMMA FlagsAre ==
  ASSUME NEW b \in BOOLEAN, NEW c \in BOOLEAN
  PROVE  /\ Plain \in FlagsType
         /\ [Plain EXCEPT !.readonly = TRUE] \in FlagsType
         /\ [Plain EXCEPT !.export = TRUE] \in FlagsType
         /\ [Plain EXCEPT !.export = b, !.strfixed = c] \in FlagsType
BY DEF Plain, FlagsType

LEMMA VariablesAre ==
  /\ NotThere \in VarType /\ VarRight(NotThere) /\ NotThere.text = Static /\ ~Owns(NotThere)
  /\ NotThere.func = FALSE /\ NotThere.readonly = FALSE /\ NotThere.there = FALSE
  /\ Initial \in VarType /\ VarRight(Initial) /\ Initial.text = Static /\ ~Owns(Initial)
<1>1. NotThere \in VarType /\ Initial \in VarType
  BY DEF NotThere, Initial, VarType, Static
<1>2. /\ NotThere.text = Static /\ NotThere.func = FALSE /\ NotThere.readonly = FALSE
      /\ NotThere.there = FALSE
  BY DEF NotThere
<1>3. /\ Initial.text = Static /\ Initial.there = TRUE /\ Initial.strfixed = TRUE
      /\ Initial.textfixed = TRUE
  BY DEF Initial, NotThere
<1> QED BY <1>1, <1>2, <1>3 DEF VarRight, Owns

LEMMA VarInitHolds ==
  ASSUME VarInit
  PROVE  VarInv
<1> DEFINE g == AllSaves(<<>>)
<1>1. /\ localvar_stack = <<>> /\ texts = {} /\ aflag = FALSE /\ failed = FALSE
      /\ vars \in [VarNames -> {NotThere, Initial}] /\ seen = [n \in VarNames |-> Static]
  BY DEF VarInit
<1>2. DOMAIN g = {}
  <2>1. SavedPlaces(<<>>) = {}
    BY DEF SavedPlaces
  <2> QED BY <2>1 DEF AllSaves
<1>3. ASSUME NEW n \in VarNames
      PROVE  /\ vars[n] \in VarType /\ VarRight(vars[n]) /\ vars[n].text = Static
             /\ ~Owns(vars[n])
  <2>1. vars[n] = NotThere \/ vars[n] = Initial
    BY <1>1
  <2> QED BY <2>1, VariablesAre
<1>4. Vars.vars = vars /\ Vars.texts = {} /\ Vars.seen = seen
  BY <1>1 DEF Vars
<1>5. Vars \in VarStates
  <2>1. vars \in [VarNames -> VarType]
    BY <1>1, <1>3
  <2>2. seen \in [VarNames -> Nat]
    BY <1>1 DEF Static
  <2>3. IsFiniteSet({})
    BY FS_EmptySet
  <2> QED BY <1>1, <2>1, <2>2, <2>3 DEF VarStates, Vars
<1> HIDE DEF g
<1>6. VarHolds(Vars, g, FALSE)
  <2>1. SavesRight(vars, g)
    BY <1>2 DEF SavesRight
  <2>2. OwnersApart(vars, g)
    BY <1>2, <1>3 DEF OwnersApart
  <2>3. TextsThere(Vars, g)
    BY <1>2, <1>3, <1>4 DEF TextsThere
  <2>4. Told(Vars)
    BY <1>1, <1>3, <1>4 DEF Told
  <2> QED BY <1>3, <1>4, <1>5, <2>1, <2>2, <2>3, <2>4 DEF VarHolds
<1>7. <<>> \in Seq(Seq(SavedType))
  OBVIOUS
<1> QED BY <1>1, <1>6, <1>7 DEF VarInv, g

LEMMA setvarKeeps ==
  ASSUME VarInv, NEW n \in VarNames, NEW unset \in BOOLEAN, NEW flags \in FlagsType,
         setvar(n, unset, flags)
  PROVE  VarInv'
<1> DEFINE st == Setvareq(Vars, n, unset, flags)
           g == AllSaves(localvar_stack)
<1>1. Become_vars(st) /\ localvar_stack' = localvar_stack /\ failed' = failed
  BY DEF setvar
<1>2. VarHolds(st, g, failed)
  <2> HIDE DEF g
  <2> QED BY VarInvIs, SetvareqKeeps DEF g
<1>3. st \in VarStates
  <2> HIDE DEF st
  <2> QED BY <1>2 DEF VarHolds
<1> HIDE DEF st
<1>4. Vars' = st
  BY <1>1, <1>3, BecomeVars
<1> QED BY <1>1, <1>2, <1>4, VarInvIs, VarHoldsNext

LEMMA exportcmdKeeps ==
  ASSUME VarInv, NEW n \in VarNames, NEW flag \in {"export", "readonly"}, exportcmd(n, flag)
  PROVE  VarInv'
<1> DEFINE v == vars[n]
           w == [v EXCEPT ![flag] = TRUE]
           st == [Vars EXCEPT !.vars[n] = w]
<1>1. /\ v.there /\ vars' = [vars EXCEPT ![n] = w] /\ localvar_stack' = localvar_stack
      /\ texts' = texts /\ seen' = seen /\ aflag' = aflag /\ failed' = failed
  BY DEF exportcmd
<1>2. v \in VarType /\ VarRight(v)
  BY VarInvIs
<1>3. /\ w \in VarType /\ w.text = v.text /\ w.textfixed = v.textfixed /\ w.func = v.func
      /\ w.unset = v.unset /\ w.there = v.there /\ w.strfixed = v.strfixed
  <2> HIDE DEF v
  <2>1. CASE flag = "export"
    BY <1>2, <2>1 DEF VarType
  <2>2. CASE flag = "readonly"
    BY <1>2, <2>2 DEF VarType
  <2> QED BY <2>1, <2>2
<1> HIDE DEF w
<1>4. Reflagged(w, v)
  BY <1>1, <1>2, <1>3 DEF Reflagged, VarRight
<1>5. VarHolds(st, AllSaves(localvar_stack), failed)
  <2>1. v = Vars.vars[n]
    BY VarInvIs
  <2> QED BY <1>4, <2>1, VarInvIs, FlagsKeep
<1>6. Vars' = st
  BY <1>1 DEF Vars
<1> HIDE DEF st
<1> QED BY <1>1, <1>5, <1>6, VarInvIs, VarHoldsNext

LEMMA setoptionKeeps ==
  ASSUME VarInv, setoption_a
  PROVE  VarInv'
<1>1. /\ aflag' = ~aflag /\ vars' = vars /\ localvar_stack' = localvar_stack /\ texts' = texts
      /\ seen' = seen /\ failed' = failed
  BY DEF setoption_a
<1> DEFINE st == [vars |-> vars, texts |-> texts, seen |-> seen, aflag |-> ~aflag]
<1>2. Vars' = st
  BY <1>1 DEF Vars
<1>3. st \in VarStates
  <2>1. /\ Vars \in [vars : [VarNames -> VarType], texts : SUBSET (Nat \ {0}),
                     seen : [VarNames -> Nat], aflag : BOOLEAN]
        /\ IsFiniteSet(Vars.texts)
    BY VarInvIs DEF VarStates
  <2>2. /\ vars \in [VarNames -> VarType] /\ texts \in SUBSET (Nat \ {0})
        /\ seen \in [VarNames -> Nat] /\ IsFiniteSet(texts)
    BY <2>1 DEF Vars
  <2> QED BY <2>2 DEF VarStates
<1>4. st.vars = vars /\ st.texts = texts /\ st.seen = seen
  OBVIOUS
<1> HIDE DEF st
<1> DEFINE g == AllSaves(localvar_stack)
<1>5. VarHolds(Vars, g, failed)
  BY VarInvIs
<1>6. Vars.vars = vars /\ Vars.texts = texts /\ Vars.seen = seen
  BY VarInvIs
<1> HIDE DEF g
<1>7. VarHolds(st, g, failed)
  BY <1>3, <1>4, <1>5, <1>6 DEF VarHolds, TextsThere, Told
<1> QED BY <1>1, <1>2, <1>7, VarInvIs, VarHoldsNext DEF g

LEMMA pushlocalvarsKeeps ==
  ASSUME VarInv, pushlocalvars
  PROVE  VarInv'
<1>1. /\ localvar_stack' = Append(localvar_stack, <<>>) /\ Vars' = Vars /\ failed' = failed
  BY DEF pushlocalvars, Vars
<1>2. localvar_stack' \in Stacks /\ AllSaves(localvar_stack') = AllSaves(localvar_stack)
  BY <1>1, VarInvIs, SavesAre
<1>3. VarHolds(Vars, AllSaves(localvar_stack'), failed')
  BY <1>1, <1>2, VarInvIs
<1> QED BY <1>1, <1>2, <1>3, VarInvIs, VarHoldsNext

LEMMA poplocalvarsKeeps ==
  ASSUME VarInv, poplocalvars
  PROVE  VarInv'
<1> DEFINE n == Len(localvar_stack)
           st == Restored(Vars, localvar_stack[n])
<1>1. /\ localvar_stack # <<>> /\ Become_vars(st) /\ localvar_stack' = Front(localvar_stack)
      /\ failed' = failed
  BY DEF poplocalvars, Last
<1>2. n \in 1..n /\ localvar_stack \in Stacks
  BY <1>1, VarInvIs DEF Stacks
<1>3. /\ Saves(localvar_stack, n, Len(localvar_stack[n])) = AllSaves(localvar_stack)
      /\ localvar_stack' \in Stacks
      /\ Saves(localvar_stack, n, 0) = AllSaves(localvar_stack')
  BY <1>1, <1>2, SavesAre
<1> HIDE DEF n
<1>4. VarHolds(st, Saves(localvar_stack, n, 0), failed)
  BY <1>2, <1>3, VarInvIs, RestoredKeeps DEF n
<1> HIDE DEF st
<1>5. Vars' = st
  BY <1>1, <1>4, BecomeVars DEF VarHolds
<1> QED BY <1>1, <1>3, <1>4, <1>5, VarInvIs, VarHoldsNext

LEMMA unwindlocalvarsKeeps ==
  ASSUME VarInv, unwindlocalvars
  PROVE  VarInv'
<1> DEFINE st == Unwound(Vars, localvar_stack)
<1>1. /\ localvar_stack # <<>> /\ Become_vars(st) /\ localvar_stack' = <<>>
      /\ failed' = failed
  <2>1. Len(localvar_stack) > 1 /\ Become_vars(st) /\ localvar_stack' = <<>> /\ failed' = failed
    BY DEF unwindlocalvars
  <2> QED BY <2>1
<1>2. VarHolds(st, AllSaves(<<>>), failed)
  BY <1>1, VarInvIs, UnwoundKeeps
<1> HIDE DEF st
<1>3. Vars' = st
  BY <1>1, <1>2, BecomeVars DEF VarHolds
<1>4. localvar_stack' \in Stacks
  <2>1. <<>> \in Seq(Seq(SavedType))
    OBVIOUS
  <2> QED BY <1>1, <2>1 DEF Stacks
<1> QED BY <1>1, <1>2, <1>3, <1>4, VarInvIs, VarHoldsNext

\* One more is saved.
LEMMA SaveIs ==
  ASSUME VarInv, NEW lv \in SavedType, Save(lv)
  PROVE  /\ localvar_stack' \in Stacks /\ localvar_stack # <<>>
         /\ Newest(NextPlace(localvar_stack), AllSaves(localvar_stack))
         /\ AllSaves(localvar_stack')
              = Extended(AllSaves(localvar_stack), NextPlace(localvar_stack), lv)
<1>1. localvar_stack # <<>> /\ localvar_stack' = Pushed(localvar_stack, lv)
  BY DEF Save, Pushed
<1> QED BY <1>1, VarInvIs, PushedIs

\* What is saved may be forgotten: then the text is lost.
LEMMA ForgottenKeeps ==
  ASSUME NEW st, NEW g, NEW q, NEW lv, NEW lost, Newest(q, g),
         VarHolds(st, Extended(g, q, lv), lost)
  PROVE  VarHolds(st, g, TRUE)
<1> DEFINE h == Extended(g, q, lv)
<1>1. \A p \in DOMAIN g : p \in DOMAIN h /\ h[p] = g[p]
  BY DEF Extended, Newest
<1>2. VarHolds(st, h, lost)
  OBVIOUS
<1> HIDE DEF h
<1>3. SavesRight(st.vars, g)
  BY <1>1, <1>2 DEF VarHolds, SavesRight
<1>4. TextsThere(st, g)
  BY <1>1, <1>2 DEF VarHolds, TextsThere
<1>5. OwnersApart(st.vars, g)
  BY <1>1, <1>2 DEF VarHolds, OwnersApart
<1> QED BY <1>2, <1>3, <1>4, <1>5 DEF VarHolds

LEMMA mklocal_failsKeeps ==
  ASSUME VarInv, NEW n \in VarNames, mklocal_fails(n)
  PROVE  VarInv'
<1> DEFINE v == vars[n]
           st == FixedIn(Vars, n)
           lv == [vp |-> n, v |-> v]
           g == AllSaves(localvar_stack)
           q == NextPlace(localvar_stack)
<1>1. /\ v.readonly /\ vars' = [vars EXCEPT ![n] = Fixed(v)] /\ failed' = TRUE
      /\ localvar_stack' = localvar_stack /\ texts' = texts /\ seen' = seen /\ aflag' = aflag
      /\ localvar_stack # <<>>
  BY DEF mklocal_fails
<1>2. /\ v \in VarType /\ VarRight(v) /\ Vars.vars[n] = v /\ Vars \in VarStates
      /\ VarHolds(Vars, g, failed) /\ failed \in BOOLEAN
  BY VarInvIs
<1>3. v.there
  BY <1>1, <1>2, VariablesAre DEF VarRight, VarType
<1>4. Newest(q, g)
  <2>1. lv \in SavedType
    BY <1>2 DEF SavedType
  <2> QED BY <1>1, <2>1, VarInvIs, PushedIs
<1> HIDE DEF g, q
<1>5. VarHolds(st, Extended(g, q, [vp |-> n, v |-> Vars.vars[n]]), failed)
  BY <1>2, <1>3, <1>4, FixKeeps
<1>6. VarHolds(st, g, TRUE)
  BY <1>4, <1>5, ForgottenKeeps
<1>7. Vars' = st
  BY <1>1 DEF Vars, FixedIn
<1> HIDE DEF st
<1> QED BY <1>1, <1>6, <1>7, VarInvIs, VarHoldsNext DEF g

LEMMA mklocal_optionsKeeps ==
  ASSUME VarInv, mklocal_options
  PROVE  VarInv'
<1> DEFINE v == [NotThere EXCEPT !.export = aflag]
           lv == [vp |-> "-", v |-> v]
           g == AllSaves(localvar_stack)
           q == NextPlace(localvar_stack)
<1>1. Save(lv) /\ Vars' = Vars /\ failed' = failed
  BY DEF mklocal_options, Vars
<1>2. v \in VarType /\ v.text = Static
  <2>1. aflag \in BOOLEAN
    BY VarInvIs
  <2> QED BY <2>1, VariablesAre DEF VarType
<1> HIDE DEF v
<1>3. lv \in SavedType /\ lv.vp = "-" /\ lv.v = v
  BY <1>2 DEF SavedType
<1> HIDE DEF lv
<1>4. SaveRight(lv, Vars.vars)
  BY <1>2, <1>3 DEF SaveRight
<1>5. /\ localvar_stack' \in Stacks /\ Newest(q, g) /\ AllSaves(localvar_stack') = Extended(g, q, lv)
  BY <1>1, <1>3, SaveIs
<1>6. VarHolds(Vars, g, failed) /\ failed \in BOOLEAN
  BY VarInvIs
<1> HIDE DEF g, q
<1>7. VarHolds(Vars, Extended(g, q, lv), failed)
  BY <1>2, <1>3, <1>4, <1>5, <1>6, SavedWithoutText
<1> QED BY <1>1, <1>5, <1>6, <1>7, VarHoldsNext

\* What a variable was is saved, and its text fixed.
LEMMA SavedKeeps ==
  ASSUME VarInv, NEW n \in VarNames, Save([vp |-> n, v |-> vars[n]]),
         NEW saved, saved = [Vars EXCEPT !.vars[n] = IF vars[n].there THEN Fixed(vars[n])
                                                     ELSE vars[n]]
  PROVE  /\ localvar_stack' \in Stacks
         /\ VarHolds(saved, AllSaves(localvar_stack'), failed)
<1> DEFINE v == vars[n]
           lv == [vp |-> n, v |-> v]
           g == AllSaves(localvar_stack)
           q == NextPlace(localvar_stack)
<1>1. /\ v \in VarType /\ VarRight(v) /\ Vars.vars[n] = v /\ Vars \in VarStates
      /\ VarHolds(Vars, g, failed) /\ failed \in BOOLEAN
  BY VarInvIs
<1>2. lv \in SavedType /\ lv.vp = n /\ lv.v = v
  BY <1>1 DEF SavedType
<1>3. /\ localvar_stack' \in Stacks /\ Newest(q, g) /\ AllSaves(localvar_stack') = Extended(g, q, lv)
  BY <1>2, SaveIs
<1>4. ASSUME v.there PROVE VarHolds(saved, Extended(g, q, lv), failed)
  <2>1. saved = FixedIn(Vars, n)
    BY <1>1, <1>4 DEF FixedIn
  <2> HIDE DEF g, q
  <2>2. VarHolds(FixedIn(Vars, n), Extended(g, q, [vp |-> n, v |-> Vars.vars[n]]), failed)
    BY <1>1, <1>3, <1>4, FixKeeps
  <2> QED BY <1>1, <2>1, <2>2
<1>5. ASSUME ~v.there PROVE VarHolds(saved, Extended(g, q, lv), failed)
  <2>1. v = NotThere /\ lv.v.text = Static
    BY <1>1, <1>2, <1>5, VariablesAre DEF VarRight
  <2>2. saved = Vars
    <3>1. saved = [Vars EXCEPT !.vars[n] = Vars.vars[n]]
      BY <1>1, <1>5
    <3> QED BY <1>1, <3>1 DEF VarStates
  <2> HIDE DEF lv
  <2>3. SaveRight(lv, Vars.vars)
    BY <1>1, <1>2, <2>1 DEF SaveRight
  <2> HIDE DEF g, q
  <2> QED BY <1>1, <1>3, <2>1, <2>2, <2>3, SavedWithoutText
<1> QED BY <1>3, <1>4, <1>5

LEMMA mklocalKeeps ==
  ASSUME VarInv, NEW n \in VarNames, NEW eq \in BOOLEAN, NEW export \in BOOLEAN,
         mklocal(n, eq, export)
  PROVE  VarInv'
<1> DEFINE v == vars[n]
           flags == [Plain EXCEPT !.export = export, !.strfixed = ~v.there]
           saved == [Vars EXCEPT !.vars[n] = IF v.there THEN Fixed(v) ELSE v]
           to == IF ~v.there \/ eq THEN Setvareq(saved, n, ~eq, flags) ELSE saved
           g == AllSaves(localvar_stack')
<1>1. Save([vp |-> n, v |-> v]) /\ Become_vars(to) /\ failed' = failed
  BY DEF mklocal
<1>2. localvar_stack' \in Stacks /\ VarHolds(saved, g, failed)
  BY <1>1, SavedKeeps
<1>3. flags \in FlagsType
  <2>1. v.there \in BOOLEAN
    BY VarInvIs DEF VarType
  <2> QED BY <2>1, FlagsAre
<1> HIDE DEF saved, g, flags
<1>4. failed \in BOOLEAN
  BY VarInvIs
<1>5. VarHolds(Setvareq(saved, n, ~eq, flags), g, failed)
  BY <1>2, <1>3, <1>4, SetvareqKeeps
<1>6. VarHolds(to, g, failed)
  BY <1>2, <1>5
<1> HIDE DEF to
<1>7. Vars' = to
  BY <1>1, <1>6, BecomeVars DEF VarHolds
<1> QED BY <1>1, <1>2, <1>4, <1>6, <1>7, VarHoldsNext DEF g

LEMMA VarNextKeeps ==
  ASSUME VarInv, VarNext
  PROVE  VarInv'
<1>1. ASSUME NEW n \in VarNames, NEW unset \in BOOLEAN, setvar(n, unset, Plain) PROVE VarInv'
  BY <1>1, setvarKeeps, FlagsAre
<1>2. ASSUME NEW n \in VarNames, setvar(n, FALSE, [Plain EXCEPT !.readonly = TRUE])
      PROVE  VarInv'
  BY <1>2, setvarKeeps, FlagsAre
<1>3. ASSUME NEW n \in VarNames, NEW unset \in BOOLEAN,
             setvar(n, unset, [Plain EXCEPT !.export = TRUE])
      PROVE  VarInv'
  BY <1>3, setvarKeeps, FlagsAre
<1> QED BY <1>1, <1>2, <1>3, exportcmdKeeps, mklocalKeeps, mklocal_failsKeeps, setoptionKeeps,
           pushlocalvarsKeeps, mklocal_optionsKeeps, poplocalvarsKeeps, unwindlocalvarsKeeps
        DEF VarNext

-----------------------------------------------------------------------------
\* The place of what is saved k-th in the i-th list, and the other way round.
LEMMA PlaceOf ==
  ASSUME NEW stack \in Stacks, NEW i \in DOMAIN stack, NEW k \in DOMAIN stack[i],
         NEW p, p = <<i, Len(stack[i]) + 1 - k>>
  PROVE  /\ p \in SavedPlaces(stack) /\ p \in DOMAIN AllSaves(stack)
         /\ AllSaves(stack)[p] = stack[i][k]
<1>1. i \in 1..Len(stack) /\ Len(stack) \in Nat /\ i \in Nat
  BY DEF Stacks
<1>2. stack[i] \in Seq(SavedType) /\ Len(stack[i]) \in Nat
  BY <1>1, PlacesAre
<1>3. k \in 1..Len(stack[i])
  BY <1>2
<1>4. p \in SavedPlaces(stack)
  BY <1>1, <1>2, <1>3 DEF SavedPlaces
<1>5. SavedAt(stack, p) = stack[i][k]
  BY <1>2, <1>3 DEF SavedAt
<1> QED BY <1>4, <1>5 DEF AllSaves

LEMMA PlaceFrom ==
  ASSUME NEW stack \in Stacks, NEW p \in SavedPlaces(stack)
  PROVE  /\ p[1] \in DOMAIN stack /\ Len(stack[p[1]]) + 1 - p[2] \in DOMAIN stack[p[1]]
         /\ AllSaves(stack)[p] = stack[p[1]][Len(stack[p[1]]) + 1 - p[2]]
<1>1. p[1] \in 1..Len(stack) /\ p[2] \in 1..Len(stack[p[1]]) /\ Len(stack) \in Nat
  BY PlacesAre
<1>2. stack[p[1]] \in Seq(SavedType) /\ Len(stack[p[1]]) \in Nat
  BY <1>1, PlacesAre
<1>3. AllSaves(stack)[p] = stack[p[1]][Len(stack[p[1]]) + 1 - p[2]]
  BY DEF AllSaves, SavedAt
<1> QED BY <1>1, <1>2, <1>3 DEF Stacks

\* What is saved in a list owns a text.
SaveOwns(lv) == lv.vp # "-" /\ lv.v.text # Static /\ ~lv.v.textfixed

LEMMA OwnersAre ==
  ASSUME NEW o
  PROVE  o \in Owners <=>
           \/ \E n \in VarNames : o = <<0, n>> /\ Owns(vars[n])
           \/ \E i \in DOMAIN localvar_stack : \E k \in DOMAIN localvar_stack[i] :
                o = <<i, k>> /\ SaveOwns(localvar_stack[i][k])
<1> DEFINE ofVars == {<<0, n>> : n \in {n \in VarNames : vars[n].text # Static /\ ~vars[n].textfixed}}
           owning(i) == {k \in DOMAIN localvar_stack[i] :
                           LET lv == localvar_stack[i][k] IN
                             lv.vp # "-" /\ lv.v.text # Static /\ ~lv.v.textfixed}
           ofList(i) == {<<i, k>> : k \in owning(i)}
           ofLists == UNION {ofList(i) : i \in DOMAIN localvar_stack}
<1>1. Owners = ofVars \cup ofLists
  BY DEF Owners
<1>2. o \in ofVars <=> \E n \in VarNames : o = <<0, n>> /\ Owns(vars[n])
  BY DEF Owns
<1>3. \A i, k : k \in owning(i) <=> k \in DOMAIN localvar_stack[i] /\ SaveOwns(localvar_stack[i][k])
  BY DEF SaveOwns
<1> HIDE DEF owning
<1>4. o \in ofLists <=> \E i \in DOMAIN localvar_stack : o \in ofList(i)
  BY Zenon
<1>5. \A i : o \in ofList(i) <=> \E k \in owning(i) : o = <<i, k>>
  OBVIOUS
<1> HIDE DEF ofVars, ofList, ofLists
<1> QED BY <1>1, <1>2, <1>3, <1>4, <1>5

\* o is what is saved at place p.
SavedOwner(o, p) ==
  /\ p \in SavedPlaces(localvar_stack)
  /\ o = <<p[1], Len(localvar_stack[p[1]]) + 1 - p[2]>>
  /\ Owns(AllSaves(localvar_stack)[p].v)
  /\ TextOf(o) = AllSaves(localvar_stack)[p].v.text

VarOwner(o, n) == o = <<0, n>> /\ Owns(vars[n]) /\ TextOf(o) = vars[n].text

LEMMA OwnerIs ==
  ASSUME VarInv, NEW o \in Owners
  PROVE  (\E n \in VarNames : VarOwner(o, n)) \/ (\E p : SavedOwner(o, p))
<1>1. localvar_stack \in Stacks
  BY VarInvIs
<1>2. CASE \E n \in VarNames : o = <<0, n>> /\ Owns(vars[n])
  <2>1. PICK n \in VarNames : o = <<0, n>> /\ Owns(vars[n])
    BY <1>2
  <2>2. o[1] = 0 /\ o[2] = n
    BY <2>1
  <2>3. TextOf(o) = vars[n].text
    BY <2>2 DEF TextOf
  <2> QED BY <2>1, <2>3 DEF VarOwner
<1>3. CASE \E i \in DOMAIN localvar_stack : \E k \in DOMAIN localvar_stack[i] :
             o = <<i, k>> /\ SaveOwns(localvar_stack[i][k])
  <2>11. PICK i \in DOMAIN localvar_stack : \E k \in DOMAIN localvar_stack[i] :
                o = <<i, k>> /\ SaveOwns(localvar_stack[i][k])
    BY <1>3
  <2>1. PICK k \in DOMAIN localvar_stack[i] : o = <<i, k>> /\ SaveOwns(localvar_stack[i][k])
    BY <2>11
  <2> DEFINE l == localvar_stack[i]
             p == <<i, Len(l) + 1 - k>>
  <2>2. p \in SavedPlaces(localvar_stack) /\ AllSaves(localvar_stack)[p] = l[k]
    BY <1>1, PlaceOf
  <2>3. i \in 1..Len(localvar_stack) /\ Len(localvar_stack) \in Nat
    BY <1>1 DEF Stacks
  <2>4. l \in Seq(SavedType) /\ Len(l) \in Nat
    BY <1>1, <2>3, PlacesAre
  <2>5. k \in 1..Len(l) /\ i \in Nat /\ i # 0
    BY <2>3, <2>4
  <2>6. o[1] = i /\ o[2] = k /\ i # 0
    BY <2>1, <2>5
  <2>7. TextOf(o) = l[k].v.text
    BY <2>6 DEF TextOf
  <2>8. p[1] = i /\ Len(l) + 1 - p[2] = k
    BY <2>4, <2>5
  <2>9. Owns(l[k].v)
    BY <2>1 DEF SaveOwns, Owns
  <2> HIDE DEF l, p
  <2>10. o = <<p[1], Len(localvar_stack[p[1]]) + 1 - p[2]>>
    BY <2>1, <2>8 DEF l
  <2> QED BY <2>2, <2>7, <2>9, <2>10 DEF SavedOwner
<1> QED BY <1>2, <1>3, OwnersAre

\* The other way round.
LEMMA OwnerOf ==
  ASSUME VarInv
  PROVE  /\ \A n \in VarNames : Owns(vars[n]) => \E o \in Owners : TextOf(o) = vars[n].text
         /\ \A p \in SavedPlaces(localvar_stack) :
              Owns(AllSaves(localvar_stack)[p].v) =>
              \E o \in Owners : TextOf(o) = AllSaves(localvar_stack)[p].v.text
<1>1. localvar_stack \in Stacks
  BY VarInvIs
<1>2. ASSUME NEW n \in VarNames, Owns(vars[n])
      PROVE  \E o \in Owners : TextOf(o) = vars[n].text
  <2> DEFINE o == <<0, n>>
  <2>1. o \in Owners
    BY <1>2, OwnersAre
  <2>2. TextOf(o) = vars[n].text
    BY DEF TextOf
  <2> QED BY <2>1, <2>2
<1>3. ASSUME NEW p \in SavedPlaces(localvar_stack), Owns(AllSaves(localvar_stack)[p].v)
      PROVE  \E o \in Owners : TextOf(o) = AllSaves(localvar_stack)[p].v.text
  <2> DEFINE i == p[1]
             k == Len(localvar_stack[i]) + 1 - p[2]
             lv == localvar_stack[i][k]
             o == <<i, k>>
  <2>1. i \in DOMAIN localvar_stack /\ k \in DOMAIN localvar_stack[i] /\ AllSaves(localvar_stack)[p] = lv
    BY <1>1, PlaceFrom
  <2>2. i \in 1..Len(localvar_stack) /\ Len(localvar_stack) \in Nat
    BY <1>1, PlacesAre
  <2>3. lv.vp # "-"
    <3>1. SaveRight(AllSaves(localvar_stack)[p], vars)
      <4>1. p \in DOMAIN AllSaves(localvar_stack)
        BY DEF AllSaves
      <4> QED BY <4>1, VarInvIs DEF VarHolds, SavesRight
    <3> QED BY <1>3, <2>1, <3>1 DEF SaveRight, Owns
  <2>4. SaveOwns(lv)
    BY <1>3, <2>1, <2>3 DEF SaveOwns, Owns
  <2>5. o \in Owners
    BY <2>1, <2>4, OwnersAre
  <2>6. TextOf(o) = lv.v.text
    <3>1. o[1] = i /\ o[2] = k /\ i # 0
      BY <2>2
    <3> QED BY <3>1 DEF TextOf
  <2> QED BY <2>1, <2>5, <2>6
<1> QED BY <1>2, <1>3

LEMMA VarInvSound ==
  ASSUME VarInv
  PROVE  VariablesSound
<1> DEFINE g == AllSaves(localvar_stack)
           places == SavedPlaces(localvar_stack)
<1>1. /\ VarHolds(Vars, g, failed) /\ Vars.vars = vars /\ Vars.texts = texts /\ Vars.seen = seen
      /\ localvar_stack \in Stacks /\ failed \in BOOLEAN
  BY VarInvIs
<1>2. DOMAIN g = places
  BY DEF AllSaves
<1> HIDE DEF g
<1>3. OwnersApart(vars, g) /\ TextsThere(Vars, g) /\ Told(Vars)
  BY <1>1 DEF VarHolds
<1>4. ASSUME NEW o \in Owners, NEW r \in Owners, TextOf(o) = TextOf(r)
      PROVE  o = r
  <2>1. (\E n \in VarNames : VarOwner(o, n)) \/ (\E p : SavedOwner(o, p))
    BY OwnerIs
  <2>2. (\E n \in VarNames : VarOwner(r, n)) \/ (\E p : SavedOwner(r, p))
    BY OwnerIs
  <2>3. ASSUME NEW n \in VarNames, NEW m \in VarNames, VarOwner(o, n), VarOwner(r, m)
        PROVE  o = r
    <3>1. vars[m].text = vars[n].text /\ Owns(vars[n])
      BY <1>4, <2>3 DEF VarOwner
    <3>2. n = m
      BY <1>3, <3>1 DEF OwnersApart
    <3> QED BY <2>3, <3>2 DEF VarOwner
  <2>4. ASSUME NEW n \in VarNames, NEW p, VarOwner(o, n), SavedOwner(r, p)
        PROVE  FALSE
    <3>1. p \in DOMAIN g /\ Owns(vars[n]) /\ g[p].v.text = vars[n].text
      BY <1>2, <1>4, <2>4 DEF VarOwner, SavedOwner, g
    <3> QED BY <1>3, <3>1 DEF OwnersApart
  <2>5. ASSUME NEW n \in VarNames, NEW p, VarOwner(r, n), SavedOwner(o, p)
        PROVE  FALSE
    <3>1. p \in DOMAIN g /\ Owns(vars[n]) /\ g[p].v.text = vars[n].text
      BY <1>2, <1>4, <2>5 DEF VarOwner, SavedOwner, g
    <3> QED BY <1>3, <3>1 DEF OwnersApart
  <2>6. ASSUME NEW p, NEW q, SavedOwner(o, p), SavedOwner(r, q)
        PROVE  o = r
    <3>1. /\ p \in DOMAIN g /\ q \in DOMAIN g /\ Owns(g[p].v) /\ Owns(g[q].v)
          /\ g[q].v.text = g[p].v.text
      BY <1>2, <1>4, <2>6 DEF SavedOwner, g
    <3>2. (q = p \/ Newer(q, p)) /\ (p = q \/ Newer(p, q))
      BY <1>3, <3>1 DEF OwnersApart
    <3>3. p[1] \in Nat /\ p[2] \in Nat /\ q[1] \in Nat /\ q[2] \in Nat
      BY <1>1, <1>2, <3>1, PlacesAre
    <3>4. p = q
      BY <3>2, <3>3 DEF Newer
    <3> QED BY <2>6, <3>4 DEF SavedOwner
  <2> QED BY <2>1, <2>2, <2>3, <2>4, <2>5, <2>6
<1>5. ASSUME NEW o \in Owners PROVE TextOf(o) \in texts
  <2>1. ASSUME NEW n \in VarNames, VarOwner(o, n) PROVE TextOf(o) \in texts
    <3>1. vars[n].text \in texts \cup {Static}
      BY <1>1, <1>3 DEF TextsThere
    <3> QED BY <2>1, <3>1 DEF VarOwner, Owns
  <2>2. ASSUME NEW p, SavedOwner(o, p) PROVE TextOf(o) \in texts
    <3>1. p \in DOMAIN g /\ Owns(g[p].v) /\ TextOf(o) = g[p].v.text
      BY <1>2, <2>2 DEF SavedOwner, g
    <3>2. g[p].v.text \in texts \cup {Static}
      BY <1>1, <1>3, <3>1 DEF TextsThere
    <3> QED BY <3>1, <3>2 DEF Owns
  <2> QED BY <2>1, <2>2, OwnerIs
<1>6. \A n \in VarNames : vars[n].text \in texts \cup {Static}
  BY <1>1, <1>3 DEF TextsThere
<1>7. ASSUME ~failed, NEW t \in texts PROVE \E o \in Owners : TextOf(o) = t
  <2>1. Owned(vars, g, t)
    BY <1>1, <1>7 DEF VarHolds
  <2>2. CASE \E n \in VarNames : Owns(vars[n]) /\ vars[n].text = t
    BY <2>2, OwnerOf
  <2>3. CASE \E p \in DOMAIN g : Owns(g[p].v) /\ g[p].v.text = t
    BY <1>2, <2>3, OwnerOf DEF g
  <2> QED BY <2>1, <2>2, <2>3 DEF Owned
<1>8. TextsOwned
  <2>1. {TextOf(o) : o \in Owners} \subseteq texts
    BY <1>5
  <2>2. {vars[n].text : n \in VarNames} \subseteq texts \cup {Static}
    BY <1>6
  <2>3. ~failed => {TextOf(o) : o \in Owners} = texts
    BY <1>5, <1>7
  <2>4. \A o, r \in Owners : TextOf(o) = TextOf(r) => o = r
    BY <1>4
  <2> QED BY <2>1, <2>2, <2>3, <2>4 DEF TextsOwned
<1>9. CallbacksTold
  BY <1>1, <1>3 DEF CallbacksTold, Told
<1> QED BY <1>8, <1>9 DEF VariablesSound

-----------------------------------------------------------------------------
\* What can be seen of w is what can be seen of the variable v that was saved.
SeenAs(w, v) == View(w) = [View(v) EXCEPT !.export = @ \/ (~v.there /\ w.export)]

LEMMA NotThereSeen ==
  ASSUME NEW w, w.unset = TRUE, w.readonly = FALSE, w.export \in BOOLEAN
  PROVE  SeenAs(w, NotThere)
<1> DEFINE ViewType == [text : {Static}, unset : BOOLEAN, export : BOOLEAN, readonly : BOOLEAN]
           x == View(NotThere)
           y == View(w)
           e == x.export \/ (~NotThere.there /\ w.export)
           z == [x EXCEPT !.export = e]
<1>1. /\ x \in ViewType /\ x.text = Static /\ x.unset /\ ~x.export /\ ~x.readonly
      /\ ~NotThere.there
  BY DEF View, NotThere
<1>2. y \in ViewType /\ y.text = Static /\ y.unset /\ ~y.readonly /\ (y.export <=> w.export)
  BY DEF View
<1> HIDE DEF x, y
<1>3. e \in BOOLEAN /\ (e <=> w.export)
  BY <1>1
<1> HIDE DEF e
<1>4. z \in ViewType /\ z.text = Static /\ z.unset /\ ~z.readonly /\ (z.export <=> w.export)
  BY <1>1, <1>3
<1> HIDE DEF z
<1>5. y = z
  BY <1>2, <1>4
<1> QED BY <1>5 DEF SeenAs, x, y, z, e

LEMMA PutBackShows ==
  ASSUME NEW st, NEW g, NEW lost, VarHolds(st, g, lost), NEW q \in DOMAIN g,
         NEW lv, lv = g[q], NEW to, to = PutBack(st, lv), NEW n \in VarNames
  PROVE  /\ lv.vp # n => to.vars[n] = st.vars[n]
         /\ lv.vp = n => SeenAs(to.vars[n], lv.v)
<1> DEFINE m == lv.vp
<1>1. /\ st \in [vars : [VarNames -> VarType], texts : SUBSET (Nat \ {0}),
                 seen : [VarNames -> Nat], aflag : BOOLEAN]
      /\ st \in VarStates /\ IsFiniteSet(st.texts)
      /\ lv \in SavedType /\ lv.v \in VarType /\ m \in VarNames \cup {"-"}
      /\ SaveRight(lv, st.vars)
      /\ \A i \in VarNames : VarRight(st.vars[i]) /\ st.vars[i] \in VarType
  BY DEF VarHolds, VarStates, SavesRight, SaveRight, SavedType
<1>2. "-" \notin VarNames
  BY VarAssumption
<1>3. CASE m = "-"
  <2>1. to = [st EXCEPT !.aflag = lv.v.export]
    BY <1>3 DEF PutBack
  <2>2. to.vars = st.vars
    BY <1>1, <2>1
  <2> QED BY <1>2, <1>3, <2>2
<1>4. CASE m # "-" /\ lv.v.there
  <2>1. to.vars = [st.vars EXCEPT ![m] = lv.v]
    BY <1>1, <1>4 DEF PutBack
  <2>2. m \in VarNames
    BY <1>1, <1>4
  <2>3. to.vars[m] = lv.v /\ (n # m => to.vars[n] = st.vars[n])
    BY <1>1, <2>1, <2>2
  <2>4. SeenAs(lv.v, lv.v)
    <3> DEFINE v == lv.v
    <3>1. v.export \in BOOLEAN /\ v.there
      BY <1>1, <1>4 DEF VarType
    <3> QED BY <3>1 DEF SeenAs, View
  <2> QED BY <2>3, <2>4
<1>5. CASE m # "-" /\ ~lv.v.there
  <2>1. m \in VarNames /\ lv.v = NotThere /\ VarRight(st.vars[m]) /\ st.vars[m] \in VarType
    BY <1>1, <1>5 DEF SaveRight, VarRight
  <2> DEFINE v == st.vars[m]
             u == [v EXCEPT !.strfixed = FALSE]
             mid == [st EXCEPT !.vars[m] = u]
  <2>2. lv.v.text = Static /\ ~v.func
    <3>1. lv.v.func = v.func /\ v.func \in BOOLEAN
      BY <1>1, <1>5, <2>1 DEF SaveRight, VarType
    <3> QED BY <2>1, <3>1, VariablesAre
  <2>3. u \in VarType /\ u.text = v.text /\ u.there = v.there /\ ~u.func /\ u.textfixed = v.textfixed
    BY <2>1, <2>2 DEF VarType
  <2>4. VarRight(u)
    <3>1. v = NotThere => u = NotThere
      <4>1. NotThere.strfixed = FALSE
        BY DEF NotThere
      <4>2. v = NotThere => v.strfixed = FALSE
        BY <4>1
      <4> HIDE DEF v
      <4> QED BY <2>1, <4>2 DEF VarType, v
    <3> HIDE DEF u
    <3> QED BY <2>1, <2>3, <3>1 DEF VarRight
  <2>5. mid \in VarStates /\ mid.vars = [st.vars EXCEPT ![m] = u]
    <3> HIDE DEF u
    <3>1. mid \in [vars : [VarNames -> VarType], texts : SUBSET (Nat \ {0}),
                   seen : [VarNames -> Nat], aflag : BOOLEAN]
      BY <1>1, <2>1, <2>3
    <3>2. mid.texts = st.texts /\ mid.vars = [st.vars EXCEPT ![m] = u]
      BY <1>1
    <3> QED BY <1>1, <3>1, <3>2 DEF VarStates
  <2>6. to = Setvareq(mid, m, TRUE, Plain)
    <3>1. to = Setvareq([st EXCEPT !.vars[m].strfixed = FALSE], m, TRUE, Plain)
      BY <1>5 DEF PutBack
    <3>2. [st EXCEPT !.vars[m].strfixed = FALSE] = mid
      BY <1>1, <2>1
    <3> QED BY <3>1, <3>2
  <2>7. mid.vars[m] = u /\ VarRight(mid.vars[m])
    <3> HIDE DEF u, mid
    <3> QED BY <1>1, <2>1, <2>4, <2>5
  <2> HIDE DEF mid, u, v
  <2>12. PICK yes \in BOOLEAN : yes = TRUE
    OBVIOUS
  <2>13. PICK w : Replaced(mid, m, w, Setvareq(mid, m, yes, Plain)) /\ AsGiven(w, yes, Plain)
    <3>1. Plain \in FlagsType
      BY DEF Plain, FlagsType
    <3> HIDE DEF m
    <3> QED BY <2>1, <2>5, <2>7, <3>1, SetvareqReplaces
  <2>8. /\ Replaced(mid, m, w, Setvareq(mid, m, TRUE, Plain))
        /\ w = NotThere \/ (w.there /\ w.unset = TRUE /\ w.readonly = Plain.readonly)
    BY <2>12, <2>13 DEF AsGiven
  <2>9. to.vars = [mid.vars EXCEPT ![m] = w] /\ VarRight(w)
    BY <2>6, <2>8 DEF Replaced
  <2>10. to.vars[m] = w /\ (n # m => to.vars[n] = st.vars[n])
    BY <1>1, <2>1, <2>5, <2>9
  <2>14. w.unset = TRUE /\ w.readonly = FALSE /\ w.export \in BOOLEAN
    <3>1. Plain.readonly = FALSE /\ NotThere.unset = TRUE /\ NotThere.readonly = FALSE
      BY DEF Plain, NotThere
    <3>2. w.export \in BOOLEAN
      BY <2>9 DEF VarRight, VarType
    <3> QED BY <2>8, <3>1, <3>2
  <2>11. SeenAs(w, NotThere)
    BY <2>14, NotThereSeen
  <2> QED BY <2>1, <2>10, <2>11
<1> QED BY <1>3, <1>4, <1>5

\* What became of variable n when the first k of the list lvs were put back.
BackUpto(V, W, lvs, n, k) ==
  \/ (\A i \in 1..k : lvs[i].vp # n) /\ W[n] = V[n]
  \/ \E m \in 1..k : /\ lvs[m].vp = n /\ \A i \in (m + 1)..k : lvs[i].vp # n
                     /\ SeenAs(W[n], lvs[m].v)

LEMMA RestoredShows ==
  ASSUME NEW stack \in Stacks, NEW j \in 1..Len(stack), NEW lost \in BOOLEAN,
         NEW st, VarHolds(st, Saves(stack, j, Len(stack[j])), lost), NEW n \in VarNames,
         NEW lvs, lvs = stack[j]
  PROVE  BackUpto(st.vars, Restored(st, lvs).vars, lvs, n, Len(lvs))
<1> DEFINE L == Len(lvs)
<1>1. L \in Nat /\ lvs \in Seq(SavedType)
  BY PlacesAre
<1>2. PICK g : /\ g[0] = st /\ g[L] = Restored(st, lvs)
               /\ \A k \in 1..L : g[k] = PutBack(g[k - 1], lvs[k])
  <2>1. \E g : RestoresBy(g, st, lvs)
    BY <1>1, RestoredSteps
  <2> QED BY <2>1 DEF RestoresBy
<1>3. \A k \in 0..L : VarHolds(g[k], Saves(stack, j, L - k), lost)
  <2>1. L = Len(stack[j]) /\ VarHolds(g[0], Saves(stack, j, L), lost)
    BY <1>2
  <2>2. \A k \in 1..L : g[k] = PutBack(g[k - 1], stack[j][k])
    BY <1>2
  <2> HIDE DEF L
  <2> QED BY <2>1, <2>2, RestoredStages
<1> DEFINE Good == {k \in Nat : k <= L => BackUpto(st.vars, g[k].vars, lvs, n, k)}
<1> HIDE DEF L
<1>4. 0 \in Good
  BY <1>2 DEF BackUpto
<1>5. ASSUME NEW k \in Good PROVE k + 1 \in Good
  <2>1. SUFFICES ASSUME k + 1 <= L PROVE BackUpto(st.vars, g[k + 1].vars, lvs, n, k + 1)
    OBVIOUS
  <2> DEFINE a == L - k
             S == Saves(stack, j, a)
             q == <<j, a>>
             lv == lvs[k + 1]
  <2>2. k \in Nat /\ k <= L /\ k \in 0..L /\ a \in 1..L /\ L + 1 - a = k + 1 /\ k + 1 \in 1..L
        /\ (k + 1) - 1 = k
    BY <1>1, <2>1
  <2>3. BackUpto(st.vars, g[k].vars, lvs, n, k)
    BY <2>2
  <2>4. VarHolds(g[k], S, lost)
    BY <1>3, <2>2
  <2>5. q \in DOMAIN S /\ S[q] = lv
    <3> HIDE DEF a
    <3> QED BY <2>2, SavesWithout DEF L
  <2>6. g[k + 1] = PutBack(g[k], lv)
    BY <1>2, <2>2
  <2> HIDE DEF a, S, q
  <2>7. /\ lv.vp # n => g[k + 1].vars[n] = g[k].vars[n]
        /\ lv.vp = n => SeenAs(g[k + 1].vars[n], lv.v)
    BY <2>4, <2>5, <2>6, PutBackShows
  <2>8. CASE lv.vp = n
    <3>1. k + 1 \in 1..(k + 1) /\ \A i \in ((k + 1) + 1)..(k + 1) : lvs[i].vp # n
      BY <2>2
    <3> QED BY <2>7, <2>8, <3>1 DEF BackUpto
  <2>9. CASE lv.vp # n
    <3>1. g[k + 1].vars[n] = g[k].vars[n]
      BY <2>7, <2>9
    <3>2. CASE (\A i \in 1..k : lvs[i].vp # n) /\ g[k].vars[n] = st.vars[n]
      <4>1. \A i \in 1..(k + 1) : i \in 1..k \/ i = k + 1
        BY <2>2
      <4>2. \A i \in 1..(k + 1) : lvs[i].vp # n
        BY <2>9, <3>2, <4>1
      <4> QED BY <3>1, <3>2, <4>2 DEF BackUpto
    <3>3. CASE \E m \in 1..k : /\ lvs[m].vp = n /\ \A i \in (m + 1)..k : lvs[i].vp # n
                               /\ SeenAs(g[k].vars[n], lvs[m].v)
      <4>1. PICK m \in 1..k : /\ lvs[m].vp = n /\ \A i \in (m + 1)..k : lvs[i].vp # n
                              /\ SeenAs(g[k].vars[n], lvs[m].v)
        BY <3>3
      <4>2. m \in 1..(k + 1) /\ \A i \in (m + 1)..(k + 1) : i \in (m + 1)..k \/ i = k + 1
        BY <2>2
      <4>3. \A i \in (m + 1)..(k + 1) : lvs[i].vp # n
        BY <2>9, <4>1, <4>2
      <4> QED BY <3>1, <4>1, <4>2, <4>3 DEF BackUpto
    <3> QED BY <2>3, <3>2, <3>3 DEF BackUpto
  <2> QED BY <2>8, <2>9
<1>6. Good = Nat
  <2>1. Good \in SUBSET Nat
    OBVIOUS
  <2> HIDE DEF Good
  <2> QED BY <1>4, <1>5, <2>1, AllNaturals
<1>7. BackUpto(st.vars, g[L].vars, lvs, n, L)
  <2>1. L \in Good
    <3> HIDE DEF Good
    <3> QED BY <1>1, <1>6
  <2> QED BY <1>1, <2>1
<1> QED BY <1>2, <1>7 DEF L

LEMMA LocalsAreBack ==
  ASSUME VarInv, poplocalvars, NEW n \in VarNames, NEW lvs, lvs = Last(localvar_stack)
  PROVE  /\ (\E k \in DOMAIN lvs : lvs[k].vp = n) => SeenAs(vars'[n], FirstSaved(lvs, n))
         /\ ~(\E k \in DOMAIN lvs : lvs[k].vp = n) => vars'[n] = vars[n]
<1> DEFINE c == Len(localvar_stack)
           st == Restored(Vars, lvs)
           L == Len(lvs)
<1>1. localvar_stack # <<>> /\ lvs = localvar_stack[c] /\ vars' = st.vars
  BY DEF poplocalvars, Last, Become_vars
<1>2. c \in 1..c /\ localvar_stack \in Stacks
  BY <1>1, VarInvIs DEF Stacks
<1>3. lvs \in Seq(SavedType) /\ L \in Nat /\ DOMAIN lvs = 1..L
  BY <1>1, <1>2, PlacesAre
<1>4. Saves(localvar_stack, c, Len(localvar_stack[c])) = AllSaves(localvar_stack)
  BY <1>1, <1>2, SavesAre
<1>5. BackUpto(vars, vars', lvs, n, L)
  <2>1. VarHolds(Vars, Saves(localvar_stack, c, Len(localvar_stack[c])), failed)
    BY <1>4, VarInvIs
  <2> HIDE DEF c
  <2>2. BackUpto(Vars.vars, st.vars, lvs, n, L)
    BY <1>1, <1>2, <2>1, VarInvIs, RestoredShows DEF c
  <2> QED BY <1>1, <2>2, VarInvIs
<1> HIDE DEF L, st, c
<1>6. CASE (\A i \in 1..L : lvs[i].vp # n) /\ vars'[n] = vars[n]
  BY <1>3, <1>6
<1>7. CASE \E m \in 1..L : /\ lvs[m].vp = n /\ \A i \in (m + 1)..L : lvs[i].vp # n
                           /\ SeenAs(vars'[n], lvs[m].v)
  <2>1. PICK m \in 1..L : /\ lvs[m].vp = n /\ \A i \in (m + 1)..L : lvs[i].vp # n
                          /\ SeenAs(vars'[n], lvs[m].v)
    BY <1>7
  <2> DEFINE S == {k \in DOMAIN lvs : lvs[k].vp = n}
  <2>2. m \in S /\ \A y \in S : m >= y
    <3>1. ASSUME NEW y \in S PROVE m >= y
      <4>1. y \in 1..L /\ lvs[y].vp = n
        BY <1>3
      <4>2. ~(y \in (m + 1)..L)
        BY <2>1, <4>1
      <4> QED BY <1>3, <4>1, <4>2
    <3> QED BY <1>3, <2>1, <3>1
  <2>3. S \in SUBSET Nat
    BY <1>3
  <2> HIDE DEF S
  <2>4. ASSUME NEW x \in S, \A y \in S : x >= y PROVE x = m
    BY <2>2, <2>3, <2>4
  <2>5. Max(S) = m
    BY <2>2, <2>4 DEF Max
  <2>6. FirstSaved(lvs, n) = lvs[m].v
    BY <2>5 DEF FirstSaved, S
  <2> QED BY <1>3, <2>1, <2>6
<1> QED BY <1>5, <1>6, <1>7 DEF BackUpto

-----------------------------------------------------------------------------
\* The working directory (Cd).

\* What the kernel does with the name, while the leaf is there or gone.
EnterIn(isgone, dir, name) ==
  IF dir = Nowhere THEN Nowhere
  ELSE IF name = "." THEN dir
  ELSE IF name = ".." THEN IF dir = <<>> THEN dir ELSE Front(dir)
  ELSE IF <<dir, name>> \notin DOMAIN Tree \/ (isgone /\ Tree[<<dir, name>>] = Leaf)
  THEN Nowhere
  ELSE Tree[<<dir, name>>]

\* The names lead from the directory to to, one after the other.
EntersBy(g, isgone, dir, names, to) ==
  /\ g[0] = dir /\ g[Len(names)] = to
  /\ \A k \in 1..Len(names) : g[k] = EnterIn(isgone, g[k - 1], names[k])

Leads(isgone, dir, names, to) == \E g : EntersBy(g, isgone, dir, names, to)

EnteredBy(g, dir, names, to) ==
  /\ g[0] = dir /\ g[Len(names)] = to
  /\ \A k \in 1..Len(names) : g[k] = Entered(g[k - 1], names[k])

WalkedBy(g, names, more, to) ==
  /\ g[0] = names /\ g[Len(more)] = to
  /\ \A k \in 1..Len(more) : g[k] = Walked(g[k - 1], more[k])

\* What the kernel finds, name by name.
LEMMA EnterSteps ==
  ASSUME NEW st, NEW S, NEW seq \in Seq(S)
  PROVE  \E g : EntersBy(g, gone, st, seq, FoldLeft(Enter, st, seq))
<1> DEFINE n == Len(seq)
           D == DOMAIN seq
           G(h) == [t \in SUBSET D |->
                     IF t = {} THEN st
                     ELSE Enter(h[t \ {CHOOSE x \in t : \A y \in t : x >= y}],
                                 seq[CHOOSE x \in t : \A y \in t : x >= y])]
           f == CHOOSE h : h = G(h)
<1>1. n \in Nat /\ D = 1..n
  OBVIOUS
<1>2. \A h : FoldAt(h, "enter", st, seq, n) <=> h = G(h)
  BY <1>1 DEF FoldAt, Turned, Turn, Largest
<1>3. FoldLeft(Enter, st, seq) = f[D]
  BY DEF FoldLeft, MapThenFoldSet, Max
<1> HIDE DEF G
<1>4. \E h : h = G(h)
  BY <1>1, <1>2, TurnedExists
<1>5. f = G(f)
  BY <1>4
<1> HIDE DEF f
<1> HIDE DEF n, D
<1>6. FoldAt(f, "enter", st, seq, n)
  BY <1>2, <1>5
<1>7. PICK g : Steps(g, "enter", st, seq, n, f[1..n])
  BY <1>1, <1>6, PlaceByPlace
<1>8. \A k \in 1..n : g[k] = Enter(g[k - 1], seq[k])
  BY <1>7 DEF Steps, Turn
<1>9. g[0] = st /\ g[n] = f[1..n]
  BY <1>7 DEF Steps
<1>10. n = Len(seq)
  BY DEF n
<1> QED BY <1>1, <1>3, <1>8, <1>9, <1>10 DEF EntersBy, EnterIn, Enter

\* The same for the directory in PWD of the environment.
LEMMA EnteredSteps ==
  ASSUME NEW st, NEW S, NEW seq \in Seq(S)
  PROVE  \E g : EnteredBy(g, st, seq, FoldLeft(Entered, st, seq))
<1> DEFINE n == Len(seq)
           D == DOMAIN seq
           G(h) == [t \in SUBSET D |->
                     IF t = {} THEN st
                     ELSE Entered(h[t \ {CHOOSE x \in t : \A y \in t : x >= y}],
                                 seq[CHOOSE x \in t : \A y \in t : x >= y])]
           f == CHOOSE h : h = G(h)
<1>1. n \in Nat /\ D = 1..n
  OBVIOUS
<1>2. \A h : FoldAt(h, "entered", st, seq, n) <=> h = G(h)
  BY <1>1 DEF FoldAt, Turned, Turn, Largest
<1>3. FoldLeft(Entered, st, seq) = f[D]
  BY DEF FoldLeft, MapThenFoldSet, Max
<1> HIDE DEF G
<1>4. \E h : h = G(h)
  BY <1>1, <1>2, TurnedExists
<1>5. f = G(f)
  BY <1>4
<1> HIDE DEF f
<1> HIDE DEF n, D
<1>6. FoldAt(f, "entered", st, seq, n)
  BY <1>2, <1>5
<1>7. PICK g : Steps(g, "entered", st, seq, n, f[1..n])
  BY <1>1, <1>6, PlaceByPlace
<1>8. \A k \in 1..n : g[k] = Entered(g[k - 1], seq[k])
  BY <1>7 DEF Steps, Turn
<1>9. g[0] = st /\ g[n] = f[1..n]
  BY <1>7 DEF Steps
<1>10. n = Len(seq)
  BY DEF n
<1> QED BY <1>1, <1>3, <1>8, <1>9, <1>10 DEF EnteredBy

\* The name that cd computes.
LEMMA WalkedSteps ==
  ASSUME NEW st, NEW S, NEW seq \in Seq(S)
  PROVE  \E g : WalkedBy(g, st, seq, FoldLeft(Walked, st, seq))
<1> DEFINE n == Len(seq)
           D == DOMAIN seq
           G(h) == [t \in SUBSET D |->
                     IF t = {} THEN st
                     ELSE Walked(h[t \ {CHOOSE x \in t : \A y \in t : x >= y}],
                                 seq[CHOOSE x \in t : \A y \in t : x >= y])]
           f == CHOOSE h : h = G(h)
<1>1. n \in Nat /\ D = 1..n
  OBVIOUS
<1>2. \A h : FoldAt(h, "walked", st, seq, n) <=> h = G(h)
  BY <1>1 DEF FoldAt, Turned, Turn, Largest
<1>3. FoldLeft(Walked, st, seq) = f[D]
  BY DEF FoldLeft, MapThenFoldSet, Max
<1> HIDE DEF G
<1>4. \E h : h = G(h)
  BY <1>1, <1>2, TurnedExists
<1>5. f = G(f)
  BY <1>4
<1> HIDE DEF f
<1> HIDE DEF n, D
<1>6. FoldAt(f, "walked", st, seq, n)
  BY <1>2, <1>5
<1>7. PICK g : Steps(g, "walked", st, seq, n, f[1..n])
  BY <1>1, <1>6, PlaceByPlace
<1>8. \A k \in 1..n : g[k] = Walked(g[k - 1], seq[k])
  BY <1>7 DEF Steps, Turn
<1>9. g[0] = st /\ g[n] = f[1..n]
  BY <1>7 DEF Steps
<1>10. n = Len(seq)
  BY DEF n
<1> QED BY <1>1, <1>3, <1>8, <1>9, <1>10 DEF WalkedBy

Findable == Directories \cup {Nowhere}

LEMMA EnterFinds ==
  ASSUME NEW g \in BOOLEAN, NEW dir \in Findable, NEW n
  PROVE  EnterIn(g, dir, n) \in Findable /\ Entered(dir, n) \in Findable
<1>1. dir # <<>> /\ dir # Nowhere => Front(dir) \in Directories
  BY CdAssumption DEF Findable
<1> QED BY <1>1, CdAssumption DEF EnterIn, Entered, Findable, Directories

\* Every step of a way is one of the directories, or of none.
LEMMA WayFinds ==
  ASSUME NEW g \in BOOLEAN, NEW dir \in Findable, NEW S, NEW names \in Seq(S), NEW w, NEW to,
         EntersBy(w, g, dir, names, to)
  PROVE  \A k \in 0..Len(names) : w[k] \in Findable
<1> DEFINE n == Len(names)
           A == {k \in Nat : k <= n => w[k] \in Findable}
<1>1. n \in Nat
  OBVIOUS
<1>2. 0 \in A
  BY DEF EntersBy
<1>3. ASSUME NEW k \in A PROVE k + 1 \in A
  <2>1. SUFFICES ASSUME k + 1 <= n PROVE w[k + 1] \in Findable
    OBVIOUS
  <2>2. k \in Nat /\ k + 1 \in 1..n /\ (k + 1) - 1 = k /\ k <= n
    BY <1>1, <2>1
  <2>3. w[k] \in Findable /\ w[k + 1] = EnterIn(g, w[k], names[k + 1])
    BY <2>2 DEF EntersBy
  <2> QED BY <1>1, <2>2, <2>3, EnterFinds
<1>4. A = Nat
  <2> HIDE DEF A
  <2>1. A \in SUBSET Nat
    BY DEF A
  <2> QED BY <1>2, <1>3, <2>1, AllNaturals
<1>5. ASSUME NEW k \in 0..n PROVE w[k] \in Findable
  <2>1. k \in A /\ k <= n
    BY <1>1, <1>4
  <2> QED BY <2>1
<1> QED BY <1>5

LEMMA LeadsFinds ==
  ASSUME NEW g \in BOOLEAN, NEW dir \in Findable, NEW S, NEW names \in Seq(S), NEW to,
         Leads(g, dir, names, to)
  PROVE  to \in Findable
<1>1. PICK w : EntersBy(w, g, dir, names, to)
  BY DEF Leads
<1>2. \A k \in 0..Len(names) : w[k] \in Findable
  BY <1>1, WayFinds
<1>3. Len(names) \in 0..Len(names)
  OBVIOUS
<1> QED BY <1>1, <1>2, <1>3 DEF EntersBy

\* Two ways by the same names while the leaf may be removed between them: the
\* second is the first or ends nowhere.
LEMMA WaysAgree ==
  ASSUME NEW g \in BOOLEAN, NEW h \in BOOLEAN, g => h, NEW dir \in Findable,
         NEW S, NEW names \in Seq(S), NEW v, NEW w, NEW a, NEW b,
         EntersBy(v, g, dir, names, a), EntersBy(w, h, dir, names, b)
  PROVE  b = a \/ (g # h /\ b = Nowhere)
<1> DEFINE n == Len(names)
           Same(k) == w[k] = v[k] \/ (g # h /\ w[k] = Nowhere)
           A == {k \in Nat : k <= n => Same(k)}
<1>1. n \in Nat
  OBVIOUS
<1>2. 0 \in A
  BY DEF EntersBy
<1>3. ASSUME NEW k \in A PROVE k + 1 \in A
  <2>1. SUFFICES ASSUME k + 1 <= n PROVE Same(k + 1)
    OBVIOUS
  <2>2. k \in Nat /\ k + 1 \in 1..n /\ (k + 1) - 1 = k /\ k <= n
    BY <1>1, <2>1
  <2>3. /\ Same(k) /\ v[k + 1] = EnterIn(g, v[k], names[k + 1])
        /\ w[k + 1] = EnterIn(h, w[k], names[k + 1])
    BY <2>2 DEF EntersBy
  <2> QED BY <2>3 DEF EnterIn
<1>4. A = Nat
  <2> HIDE DEF A
  <2>1. A \in SUBSET Nat
    BY DEF A
  <2> QED BY <1>2, <1>3, <2>1, AllNaturals
<1>5. Same(n)
  <2>1. n \in A
    BY <1>1, <1>4
  <2> QED BY <1>1, <2>1
<1> QED BY <1>5 DEF EntersBy

LEMMA LeadsOnce ==
  ASSUME NEW g \in BOOLEAN, NEW h \in BOOLEAN, g => h, NEW dir \in Findable,
         NEW S, NEW names \in Seq(S), NEW a, NEW b,
         Leads(g, dir, names, a), Leads(h, dir, names, b)
  PROVE  b = a \/ (g # h /\ b = Nowhere)
<1>1. PICK v : EntersBy(v, g, dir, names, a)
  BY DEF Leads
<1>2. PICK w : EntersBy(w, h, dir, names, b)
  BY DEF Leads
<1> QED BY <1>1, <1>2, WaysAgree

\* One name more.
LEMMA LeadsOn ==
  ASSUME NEW g \in BOOLEAN, NEW dir, NEW S, NEW names \in Seq(S), NEW n \in S, NEW to,
         Leads(g, dir, names, to)
  PROVE  Leads(g, dir, Append(names, n), EnterIn(g, to, n))
<1>1. PICK w : EntersBy(w, g, dir, names, to)
  BY DEF Leads
<1> DEFINE l == Len(names)
           next == EnterIn(g, to, n)
           v == [k \in 0..(l + 1) |-> IF k = l + 1 THEN next ELSE w[k]]
           more == Append(names, n)
<1>2. /\ l \in Nat /\ Len(more) = l + 1 /\ more[l + 1] = n
      /\ \A k \in 1..l : more[k] = names[k]
  <2>1. /\ Len(Append(names, n)) = Len(names) + 1 /\ Append(names, n)[Len(names) + 1] = n
        /\ \A k \in 1..Len(names) : Append(names, n)[k] = names[k]
    BY AppendProperties
  <2>2. Len(names) \in Nat
    OBVIOUS
  <2> QED BY <2>1, <2>2
<1>3. v[0] = dir /\ v[l + 1] = next /\ v[l] = to
  BY <1>1, <1>2 DEF EntersBy
<1>4. ASSUME NEW k \in 1..(l + 1) PROVE v[k] = EnterIn(g, v[k - 1], more[k])
  <2>1. CASE k = l + 1
    <3>1. k - 1 = l
      BY <1>2, <2>1
    <3> HIDE DEF v, more
    <3> QED BY <1>2, <1>3, <2>1, <3>1
  <2>2. CASE k # l + 1
    <3>1. k \in 1..l /\ k - 1 \in 0..l /\ k - 1 # l + 1
      BY <1>2, <2>2
    <3>2. v[k] = w[k] /\ v[k - 1] = w[k - 1]
      BY <1>2, <3>1
    <3>3. w[k] = EnterIn(g, w[k - 1], names[k])
      BY <1>1, <3>1 DEF EntersBy
    <3> QED BY <1>2, <3>1, <3>2, <3>3
  <2> QED BY <2>1, <2>2
<1> HIDE DEF v
<1>5. EntersBy(v, g, dir, more, next)
  BY <1>2, <1>3, <1>4 DEF EntersBy
<1> QED BY <1>5 DEF Leads

LEMMA NoNamesLead ==
  ASSUME NEW g \in BOOLEAN, NEW dir
  PROVE  Leads(g, dir, <<>>, dir)
<1> DEFINE w == [k \in 0..0 |-> dir]
<1>1. EntersBy(w, g, dir, <<>>, dir)
  BY DEF EntersBy
<1> QED BY <1>1 DEF Leads

LEMMA FrontOfPart ==
  ASSUME NEW S, NEW s \in Seq(S), NEW k \in 1..Len(s)
  PROVE  /\ Front(SubSeq(s, 1, k)) = SubSeq(s, 1, k - 1) /\ Last(SubSeq(s, 1, k)) = s[k]
         /\ SubSeq(s, 1, k) # <<>> /\ SubSeq(s, 1, Len(s)) = s /\ SubSeq(s, 1, 0) = <<>>
<1>1. k \in Nat /\ Len(s) \in Nat /\ k >= 1 /\ k <= Len(s)
  OBVIOUS
<1> DEFINE p == SubSeq(s, 1, k)
<1>2. Len(p) = k /\ \A i \in 1..k : p[i] = s[i]
  BY <1>1
<1>3. p \in Seq(S)
  BY <1>1
<1> HIDE DEF p
<1>4. Last(p) = s[k]
  BY <1>1, <1>2 DEF Last
<1>5. Front(p) = SubSeq(s, 1, k - 1)
  <2>1. SubSeq(s, 1, k - 1) = [i \in 1..(k - 1) |-> s[i]]
    BY <1>1
  <2>2. Front(p) = SubSeq(p, 1, k - 1)
    BY <1>2 DEF Front
  <2>3. SubSeq(p, 1, k - 1) = [i \in 1..(k - 1) |-> p[i]]
    BY <1>1, <1>2, <1>3
  <2> QED BY <1>1, <1>2, <2>1, <2>2, <2>3
<1>6. p # <<>>
  BY <1>1, <1>2, <1>3
<1>7. SubSeq(s, 1, Len(s)) = s /\ SubSeq(s, 1, 0) = <<>>
  OBVIOUS
<1> QED BY <1>4, <1>5, <1>6, <1>7 DEF p

LEMMA DirectoryIsSeq ==
  ASSUME NEW dir \in Directories
  PROVE  dir \in Seq(FileNames) /\ Len(dir) \in Nat
<1> DEFINE S == FileNames
<1>1. dir \in Seq(S)
  <2>1. CASE dir = <<>>
    <3> HIDE DEF S
    <3> QED BY <2>1
  <2>2. CASE dir # <<>>
    <3>1. dir \in Directories \ {<<>>}
      BY <2>2
    <3> QED BY <3>1, CdAssumption, Zenon
  <2> QED BY <2>1, <2>2
<1>2. Len(dir) \in Nat
  <2> HIDE DEF S
  <2> QED BY <1>1
<1> QED BY <1>1, <1>2

\* The directories before a directory.
LEMMA DirectoriesBefore ==
  ASSUME NEW dir \in Directories, NEW k \in 0..Len(dir)
  PROVE  /\ SubSeq(dir, 1, k) \in Directories
         /\ k < Len(dir) => SubSeq(dir, 1, k) # Leaf
<1> DEFINE n == Len(dir)
           Fine(k1) == /\ SubSeq(dir, 1, k1) \in Directories
                       /\ k1 < n => SubSeq(dir, 1, k1) # Leaf
           A == {j \in Nat : j <= n => Fine(n - j)}
<1>1. dir \in Seq(FileNames) /\ n \in Nat
  BY DirectoryIsSeq
<1>2. 0 \in A
  <2>1. n - 0 = n /\ ~(n < n) /\ SubSeq(dir, 1, n) = dir
    BY <1>1
  <2> QED BY <2>1
<1>3. ASSUME NEW j \in A PROVE j + 1 \in A
  <2>1. SUFFICES ASSUME j + 1 <= n PROVE Fine(n - (j + 1))
    OBVIOUS
  <2> DEFINE m == n - j
             p == SubSeq(dir, 1, m)
  <2>2. j \in Nat /\ j <= n /\ m \in 1..n /\ n - (j + 1) = m - 1
    BY <1>1, <2>1
  <2>3. p \in Directories
    BY <2>2
  <2>4. p # <<>> /\ Front(p) = SubSeq(dir, 1, m - 1)
    BY <1>1, <2>2, FrontOfPart
  <2>5. Front(p) \in Directories \ {Leaf}
    BY <2>3, <2>4, CdAssumption
  <2> QED BY <2>2, <2>4, <2>5
<1>4. A = Nat
  <2> HIDE DEF A
  <2>1. A \in SUBSET Nat
    BY DEF A
  <2> QED BY <1>2, <1>3, <2>1, AllNaturals
<1>5. n - k \in A /\ n - k <= n /\ n - (n - k) = k
  <2>1. n - k \in Nat /\ n - k <= n /\ n - (n - k) = k
    BY <1>1
  <2> HIDE DEF A
  <2> QED BY <1>4, <2>1
<1>6. Fine(k)
  BY <1>5
<1> QED BY <1>6

\* The kernel's name of a directory leads to it.
LEMMA LeadsOwn ==
  ASSUME NEW g \in BOOLEAN, NEW dir \in Directories, g => dir # Leaf
  PROVE  Leads(g, <<>>, dir, dir)
<1> DEFINE n == Len(dir)
           w == [k \in 0..n |-> SubSeq(dir, 1, k)]
<1>1. dir \in Seq(FileNames) /\ n \in Nat
  BY DirectoryIsSeq
<1>2. w[0] = <<>> /\ w[n] = dir
  BY <1>1
<1>3. ASSUME NEW k \in 1..n PROVE w[k] = EnterIn(g, w[k - 1], dir[k])
  <2> DEFINE p == SubSeq(dir, 1, k)
  <2>1. k \in 0..n /\ k - 1 \in 0..n /\ w[k] = p /\ w[k - 1] = SubSeq(dir, 1, k - 1)
    BY <1>1
  <2>2. /\ p # <<>> /\ Front(p) = SubSeq(dir, 1, k - 1) /\ Last(p) = dir[k]
        /\ SubSeq(dir, 1, n) = dir
    BY <1>1, FrontOfPart
  <2>3. p \in Directories /\ (g => p # Leaf)
    <3>1. k < n \/ k = n
      BY <1>1
    <3> QED BY <2>1, <2>2, <3>1, DirectoriesBefore
  <2> HIDE DEF w, p
  <2>4. /\ <<Front(p), Last(p)>> \in DOMAIN Tree /\ Tree[<<Front(p), Last(p)>>] = p
        /\ Front(p) \in Directories
    BY <2>2, <2>3, CdAssumption
  <2>5. Last(p) \notin {".", ".."} /\ Front(p) # Nowhere
    <3>1. <<Front(p), Last(p)>>[2] \notin {".", ".."}
      BY <2>4, CdAssumption
    <3> QED BY <2>4, <3>1, CdAssumption
  <2>6. EnterIn(g, Front(p), Last(p)) = p
    BY <2>3, <2>4, <2>5 DEF EnterIn
  <2> QED BY <2>1, <2>2, <2>6
<1> HIDE DEF w
<1>4. EntersBy(w, g, <<>>, dir, dir)
  BY <1>2, <1>3 DEF EntersBy
<1> QED BY <1>4 DEF Leads

\* So does a name from the environment that is believed.
LEMMA BelievedLeads ==
  ASSUME NEW S, NEW names \in Seq(S), NEW w, NEW dir \in Directories,
         EnteredBy(w, <<>>, names, dir)
  PROVE  Leads(FALSE, <<>>, names, dir)
<1> DEFINE n == Len(names)
           A == {j \in Nat : j <= n => w[n - j] # Nowhere}
<1>1. n \in Nat
  OBVIOUS
<1>2. 0 \in A
  <2>1. n - 0 = n /\ w[n] = dir
    BY <1>1 DEF EnteredBy
  <2> QED BY <2>1, CdAssumption
<1>3. ASSUME NEW j \in A PROVE j + 1 \in A
  <2>1. SUFFICES ASSUME j + 1 <= n PROVE w[n - (j + 1)] # Nowhere
    OBVIOUS
  <2> DEFINE m == n - j
  <2>2. j \in Nat /\ j <= n /\ m \in 1..n /\ n - (j + 1) = m - 1
    BY <1>1, <2>1
  <2>3. w[m] # Nowhere /\ w[m] = Entered(w[m - 1], names[m])
    BY <2>2 DEF EnteredBy
  <2>4. <<w[m - 1], names[m]>> \in DOMAIN Tree
    BY <2>3 DEF Entered
  <2>5. w[m - 1] \in Directories
    <3>1. <<w[m - 1], names[m]>> \in Directories \X FileNames
      BY <2>4, CdAssumption
    <3> QED BY <3>1
  <2> QED BY <2>2, <2>5, CdAssumption
<1>4. A = Nat
  <2> HIDE DEF A
  <2>1. A \in SUBSET Nat
    BY DEF A
  <2> QED BY <1>2, <1>3, <2>1, AllNaturals
<1>5. ASSUME NEW k \in 0..n PROVE w[k] # Nowhere
  <2>1. n - k \in A /\ n - k <= n /\ n - (n - k) = k
    <3>1. n - k \in Nat /\ n - k <= n /\ n - (n - k) = k
      BY <1>1
    <3> HIDE DEF A
    <3> QED BY <1>4, <3>1
  <2> QED BY <2>1
<1>6. ASSUME NEW k \in 1..n PROVE w[k] = EnterIn(FALSE, w[k - 1], names[k])
  <2>1. w[k] # Nowhere /\ w[k - 1] # Nowhere /\ w[k] = Entered(w[k - 1], names[k])
    BY <1>1, <1>5 DEF EnteredBy
  <2>2. <<w[k - 1], names[k]>> \in DOMAIN Tree /\ w[k] = Tree[<<w[k - 1], names[k]>>]
    BY <2>1 DEF Entered
  <2>3. names[k] \notin {".", ".."}
    <3>1. <<w[k - 1], names[k]>>[2] \notin {".", ".."}
      BY <2>2, CdAssumption
    <3> QED BY <3>1
  <2> QED BY <2>1, <2>2, <2>3 DEF EnterIn
<1>7. EntersBy(w, FALSE, <<>>, names, dir)
  BY <1>6 DEF EntersBy, EnteredBy
<1> QED BY <1>7 DEF Leads

\* The name that cd computes is one.
LEMMA WalkedTyped ==
  ASSUME NEW S, NEW names \in Seq(S), NEW more \in Seq(S), NEW w, NEW to,
         WalkedBy(w, names, more, to)
  PROVE  to \in Seq(S)
<1> DEFINE n == Len(more)
           A == {k \in Nat : k <= n => w[k] \in Seq(S)}
<1>1. n \in Nat /\ \A k \in 1..n : more[k] \in S
  OBVIOUS
<1>2. 0 \in A
  BY DEF WalkedBy
<1>3. ASSUME NEW k \in A PROVE k + 1 \in A
  <2>1. SUFFICES ASSUME k + 1 <= n PROVE w[k + 1] \in Seq(S)
    OBVIOUS
  <2>2. k \in Nat /\ k + 1 \in 1..n /\ (k + 1) - 1 = k /\ k <= n
    BY <1>1, <2>1
  <2>3. w[k] \in Seq(S) /\ w[k + 1] = Walked(w[k], more[k + 1]) /\ more[k + 1] \in S
    BY <1>1, <2>2 DEF WalkedBy
  <2>4. w[k] # <<>> => Front(w[k]) \in Seq(S)
    BY <2>3 DEF Front
  <2>5. Append(w[k], more[k + 1]) \in Seq(S)
    BY <2>3
  <2> QED BY <2>3, <2>4, <2>5 DEF Walked
<1>4. A = Nat
  <2> HIDE DEF A
  <2>1. A \in SUBSET Nat
    BY DEF A
  <2> QED BY <1>2, <1>3, <2>1, AllNaturals
<1>5. n \in A
  BY <1>1, <1>4
<1>6. w[n] \in Seq(S)
  BY <1>1, <1>5
<1> QED BY <1>6 DEF WalkedBy

\* Without .. it leads where the kernel comes to from the directory that the
\* name before leads to (updatepwd, docd).
LEMMA WalkedLeads ==
  ASSUME NEW S, NEW names \in Seq(S), NEW more \in Seq(S), NEW w, NEW to,
         WalkedBy(w, names, more, to), \A k \in 1..Len(more) : more[k] # "..",
         NEW g \in BOOLEAN, NEW dir, Leads(g, <<>>, names, dir),
         NEW v, NEW e, EntersBy(v, g, dir, more, e)
  PROVE  Leads(g, <<>>, to, e)
<1> DEFINE n == Len(more)
           A == {k \in Nat : k <= n => w[k] \in Seq(S) /\ Leads(g, <<>>, w[k], v[k])}
<1>1. n \in Nat /\ \A k \in 1..n : more[k] \in S /\ more[k] # ".."
  OBVIOUS
<1>2. 0 \in A
  BY DEF WalkedBy, EntersBy
<1>3. ASSUME NEW k \in A PROVE k + 1 \in A
  <2>1. SUFFICES ASSUME k + 1 <= n
                 PROVE  w[k + 1] \in Seq(S) /\ Leads(g, <<>>, w[k + 1], v[k + 1])
    OBVIOUS
  <2>2. k \in Nat /\ k + 1 \in 1..n /\ (k + 1) - 1 = k /\ k <= n
    BY <1>1, <2>1
  <2> DEFINE x == more[k + 1]
  <2>3. /\ w[k] \in Seq(S) /\ Leads(g, <<>>, w[k], v[k])
        /\ w[k + 1] = Walked(w[k], x) /\ v[k + 1] = EnterIn(g, v[k], x)
        /\ x \in S /\ x # ".."
    BY <1>1, <2>2 DEF WalkedBy, EntersBy
  <2> HIDE DEF x, A
  <2>4. CASE x = "."
    <3>1. w[k + 1] = w[k] /\ v[k + 1] = v[k]
      BY <2>3, <2>4 DEF Walked, EnterIn
    <3> QED BY <2>3, <3>1
  <2>5. CASE x # "."
    <3>1. w[k + 1] = Append(w[k], x)
      BY <2>3, <2>5 DEF Walked
    <3>2. Append(w[k], x) \in Seq(S)
      BY <2>3
    <3>3. Leads(g, <<>>, Append(w[k], x), EnterIn(g, v[k], x))
      BY <2>3, LeadsOn
    <3> QED BY <2>3, <3>1, <3>2, <3>3
  <2> QED BY <2>4, <2>5
<1>4. A = Nat
  <2> HIDE DEF A
  <2>1. A \in SUBSET Nat
    BY DEF A
  <2> QED BY <1>2, <1>3, <2>1, AllNaturals
<1>5. n \in A
  BY <1>1, <1>4
<1>6. Leads(g, <<>>, w[n], v[n])
  BY <1>1, <1>5
<1> QED BY <1>6 DEF WalkedBy, EntersBy

\* Names always lead somewhere, or nowhere.
LEMMA LeadsSome ==
  ASSUME NEW g \in BOOLEAN, NEW dir, NEW S, NEW names \in Seq(S)
  PROVE  \E to : Leads(g, dir, names, to)
<1> DEFINE n == Len(names)
           A == {k \in Nat : k <= n => \E to : Leads(g, dir, SubSeq(names, 1, k), to)}
<1>1. n \in Nat /\ SubSeq(names, 1, 0) = <<>> /\ SubSeq(names, 1, n) = names
  OBVIOUS
<1>2. 0 \in A
  BY <1>1, NoNamesLead
<1>3. ASSUME NEW k \in A PROVE k + 1 \in A
  <2>1. SUFFICES ASSUME k + 1 <= n PROVE \E to : Leads(g, dir, SubSeq(names, 1, k + 1), to)
    OBVIOUS
  <2>2. k \in Nat /\ k + 1 \in 1..n /\ k <= n
    BY <1>1, <2>1
  <2>3. PICK to : Leads(g, dir, SubSeq(names, 1, k), to)
    BY <2>2
  <2>4. SubSeq(names, 1, k) \in Seq(S) /\ names[k + 1] \in S
    BY <2>2
  <2>5. Append(SubSeq(names, 1, k), names[k + 1]) = SubSeq(names, 1, k + 1)
    BY <2>2
  <2>6. Leads(g, dir, SubSeq(names, 1, k + 1), EnterIn(g, to, names[k + 1]))
    BY <2>3, <2>4, <2>5, LeadsOn
  <2> QED BY <2>6
<1>4. A = Nat
  <2> HIDE DEF A
  <2>1. A \in SUBSET Nat
    BY DEF A
  <2> QED BY <1>2, <1>3, <2>1, AllNaturals
<1>5. n \in A
  BY <1>1, <1>4
<1>6. \E to : Leads(g, dir, SubSeq(names, 1, n), to)
  BY <1>1, <1>5
<1> QED BY <1>1, <1>6

NameType == [known : BOOLEAN, names : Seq(FileNames)]

\* A name with its memory: none for nullstr.
Placed(x) ==
  /\ x \in [names : NameType, at : 0..4]
  /\ x.names.known <=> x.at # 0
  /\ ~x.names.known => x = nullstr

\* The name is one of the directory, or was until the leaf went.
NamesDir(isgone, name, dir) ==
  name.known => \E to : /\ Leads(isgone, <<>>, name.names, to)
                        /\ to = dir \/ (isgone /\ to = Nowhere)

PlacesOwned ==
  /\ physdir # nullstr /\ physdir.at = curdir.at => physdir = curdir
  /\ strings = {curdir.at, physdir.at} \ {0} /\ ~freedtwice

\* The inductive invariant of the working directory.
CdInv ==
  /\ curdirectory \in Directories /\ wasin \in Directories /\ gone \in BOOLEAN
  /\ Placed(curdir) /\ Placed(physdir) /\ OLDPWD \in NameType
  /\ NamesDir(gone, curdir.names, curdirectory) /\ NamesDir(gone, OLDPWD, wasin)
  /\ physdir.names.known => physdir.names.names = curdirectory
  /\ PlacesOwned

StartOf(wanted) == IF wanted.abs THEN <<>> ELSE curdirectory

LEMMA ResolveIs ==
  ASSUME gone \in BOOLEAN, curdirectory \in Directories, NEW wanted \in PathNames
  PROVE  /\ Leads(gone, StartOf(wanted), wanted.names, Resolve(wanted))
         /\ Resolve(wanted) \in Findable /\ StartOf(wanted) \in Directories
<1>1. wanted.names \in Seq(FileNames)
  BY DEF PathNames
<1>2. StartOf(wanted) \in Directories /\ StartOf(wanted) \in Findable
  BY DEF StartOf, Directories, Findable
<1>3. Resolve(wanted) = FoldLeft(Enter, StartOf(wanted), wanted.names)
  BY DEF Resolve, StartOf
<1>4. PICK w : EntersBy(w, gone, StartOf(wanted), wanted.names,
                        FoldLeft(Enter, StartOf(wanted), wanted.names))
  BY <1>1, EnterSteps
<1>5. Leads(gone, StartOf(wanted), wanted.names, Resolve(wanted))
  BY <1>3, <1>4 DEF Leads
<1> QED BY <1>1, <1>2, <1>5, LeadsFinds

LEMMA NullIs ==
  nullname \in NameType /\ nullstr.names = nullname /\ nullstr.at = 0 /\ Placed(nullstr)
  /\ ~nullname.known /\ nullname.names = <<>>
<1>1. <<>> \in Seq(FileNames)
  OBVIOUS
<1>2. nullname \in NameType /\ ~nullname.known /\ nullname.names = <<>>
  BY <1>1 DEF nullname, NameType
<1>3. nullstr.names = nullname /\ nullstr.at = 0 /\ nullstr \in [names : NameType, at : 0..4]
  BY <1>2 DEF nullstr
<1> QED BY <1>2, <1>3 DEF Placed

LEMMA NameIs ==
  ASSUME NEW names \in Seq(FileNames)
  PROVE  /\ Name(names) \in NameType /\ Name(names).known /\ Name(names).names = names
         /\ Name(names) # nullname
<1>1. Name(names) \in NameType /\ Name(names).known = TRUE /\ Name(names).names = names
  BY DEF Name, NameType
<1>2. ~nullname.known
  BY NullIs
<1> QED BY <1>1, <1>2

\* A name that is not known is no name.
LEMMA UnknownIs ==
  ASSUME NEW name, name = nullname \/ \E names \in Seq(FileNames) : name = Name(names)
  PROVE  name \in NameType /\ (name.known <=> name # nullname)
BY NameIs, NullIs

LEMMA updatepwdIs ==
  ASSUME CdInv, NEW wanted \in PathNames
  PROVE  \/ updatepwd(wanted) = nullname
         \/ \E w, names :
              /\ WalkedBy(w, IF wanted.abs THEN <<>> ELSE curdir.names.names, wanted.names, names)
              /\ wanted.abs \/ curdir.names.known
              /\ updatepwd(wanted) = Name(names) /\ names \in Seq(FileNames)
<1> DEFINE start == IF wanted.abs THEN <<>> ELSE curdir.names.names
           names == FoldLeft(Walked, start, wanted.names)
<1>1. wanted.names \in Seq(FileNames) /\ start \in Seq(FileNames) /\ wanted.abs \in BOOLEAN
  <2>1. wanted.names \in Seq(FileNames) /\ wanted.abs \in BOOLEAN
    BY DEF PathNames
  <2>2. curdir.names.names \in Seq(FileNames)
    <3>1. curdir \in [names : NameType, at : 0..4]
      BY DEF CdInv, Placed
    <3>2. curdir.names \in NameType
      BY <3>1
    <3> QED BY <3>2 DEF NameType
  <2>3. <<>> \in Seq(FileNames)
    OBVIOUS
  <2> QED BY <2>1, <2>2, <2>3
<1>2. CASE ~wanted.abs /\ ~curdir.names.known
  BY <1>2 DEF updatepwd
<1>3. CASE wanted.abs \/ curdir.names.known
  <2>1. updatepwd(wanted) = Name(names)
    BY <1>1, <1>3 DEF updatepwd
  <2>2. PICK w : WalkedBy(w, start, wanted.names, names)
    BY <1>1, WalkedSteps
  <2>3. names \in Seq(FileNames)
    BY <1>1, <2>2, WalkedTyped
  <2> QED BY <1>3, <2>1, <2>2, <2>3
<1> QED BY <1>1, <1>2, <1>3

-----------------------------------------------------------------------------
(* What setpwd allocates and frees. *)

LEMMA PlaceIs ==
  ASSUME NEW name \in NameType, NEW x \in 0..4, NEW y \in 0..4
  PROVE  /\ name.known => /\ Place(name, {x, y} \ {0}) \in 1..4
                          /\ Place(name, {x, y} \ {0}) \notin {x, y}
         /\ ~name.known => Place(name, {x, y} \ {0}) = 0
<1> DEFINE free == {a \in 1..4 : a \notin {x, y} \ {0}}
<1>1. free \in SUBSET Nat /\ free # {}
  <2>1. 1 \in free \/ 2 \in free \/ 3 \in free
    OBVIOUS
  <2> QED BY <2>1
<1>2. \A a \in free : a \in 1..4 /\ a \notin {x, y}
  OBVIOUS
<1>3. Place(name, {x, y} \ {0}) = IF name.known THEN Min(free) ELSE 0
  BY DEF Place
<1> HIDE DEF free
<1>4. \E m \in free : \A y1 \in free : m <= y1
  BY <1>1, LeastElement
<1>5. Min(free) \in free
  BY <1>4 DEF Min
<1> QED BY <1>2, <1>3, <1>5

LEMMA OneIs ==
  ASSUME NEW p
  PROVE  /\ <<p>> \o <<>> = <<p>> /\ <<>> \o <<p>> = <<p>>
         /\ ToSet(<<p>>) = {p} /\ IsInjective(<<p>>)
<1>1. <<p>> \in Seq({p}) /\ <<>> \in Seq({p})
  OBVIOUS
<1>2. <<p>> \o <<>> = <<p>> /\ <<>> \o <<p>> = <<p>>
  BY <1>1
<1>3. DOMAIN <<p>> = {1} /\ <<p>>[1] = p
  OBVIOUS
<1> QED BY <1>2, <1>3 DEF ToSet, IsInjective

LEMMA TwoAre ==
  ASSUME NEW p, NEW c
  PROVE  /\ <<p>> \o <<c>> = <<p, c>> /\ ToSet(<<p, c>>) = {p, c}
         /\ p # c => IsInjective(<<p, c>>)
<1> DEFINE s == <<p>> \o <<c>>
<1>1. <<p>> \in Seq({p, c}) /\ <<c>> \in Seq({p, c}) /\ <<p, c>> \in Seq({p, c})
  OBVIOUS
<1>2. s \in Seq({p, c}) /\ Len(s) = 2 /\ s[1] = p /\ s[2] = c
  BY <1>1
<1>3. Len(<<p, c>>) = 2 /\ <<p, c>>[1] = p /\ <<p, c>>[2] = c
  OBVIOUS
<1> HIDE DEF s
<1>4. \A k \in 1..2 : k = 1 \/ k = 2
  OBVIOUS
<1>5. s = <<p, c>>
  BY <1>1, <1>2, <1>3, <1>4, SeqEqual
<1>6. DOMAIN <<p, c>> = {1, 2}
  OBVIOUS
<1>7. ToSet(<<p, c>>) = {p, c} /\ (p # c => IsInjective(<<p, c>>))
  BY <1>3, <1>6 DEF ToSet, IsInjective
<1> QED BY <1>5, <1>7 DEF s

LEMMA NoneAre ==
  <<>> \o <<>> = <<>> /\ ToSet(<<>>) = {} /\ IsInjective(<<>>)
BY DEF ToSet, IsInjective

\* What a name other than the present ones frees.
LEMMA FreedAre ==
  ASSUME CdInv, NEW new, new.at \notin {curdir.at, physdir.at} \/ new = nullstr
  PROVE  /\ ToSet(Freed(new)) = strings /\ IsInjective(Freed(new))
<1>1. /\ Placed(curdir) /\ Placed(physdir)
      /\ physdir # nullstr /\ physdir.at = curdir.at => physdir = curdir
      /\ strings = {curdir.at, physdir.at} \ {0}
  BY DEF CdInv, PlacesOwned
<1>2. /\ curdir = nullstr <=> curdir.at = 0
      /\ physdir = nullstr <=> physdir.at = 0
  BY <1>1, NullIs DEF Placed
<1>3. curdir # nullstr => curdir # new
  BY <1>2
<1>4. CASE curdir = nullstr /\ physdir = nullstr
  <2>1. Freed(new) = <<>> \o <<>>
    BY <1>4 DEF Freed
  <2> QED BY <1>1, <1>2, <1>4, <2>1, NoneAre
<1>5. CASE curdir # nullstr /\ (physdir = nullstr \/ physdir = curdir)
  <2>1. Freed(new) = <<>> \o <<curdir.at>>
    BY <1>3, <1>5 DEF Freed
  <2>2. ToSet(Freed(new)) = {curdir.at} /\ IsInjective(Freed(new))
    BY <2>1, OneIs
  <2>3. physdir.at \in {curdir.at, 0} /\ curdir.at # 0
    BY <1>2, <1>5
  <2> QED BY <1>1, <2>2, <2>3
<1>6. CASE curdir = nullstr /\ physdir # nullstr
  <2>1. Freed(new) = <<physdir.at>> \o <<>>
    BY <1>6 DEF Freed
  <2>2. ToSet(Freed(new)) = {physdir.at} /\ IsInjective(Freed(new))
    BY <2>1, OneIs
  <2>3. curdir.at = 0 /\ physdir.at # 0
    BY <1>2, <1>6
  <2> QED BY <1>1, <2>2, <2>3
<1>7. CASE curdir # nullstr /\ physdir # nullstr /\ physdir # curdir
  <2>1. Freed(new) = <<physdir.at>> \o <<curdir.at>>
    BY <1>3, <1>7 DEF Freed
  <2>2. curdir.at # 0 /\ physdir.at # 0 /\ physdir.at # curdir.at
    BY <1>1, <1>2, <1>7
  <2>3. ToSet(Freed(new)) = {physdir.at, curdir.at} /\ IsInjective(Freed(new))
    <3> DEFINE p == physdir.at
               c == curdir.at
    <3>1. Freed(new) = <<p>> \o <<c>> /\ p # c
      BY <2>1, <2>2
    <3> HIDE DEF p, c
    <3>2. <<p>> \o <<c>> = <<p, c>> /\ ToSet(<<p, c>>) = {p, c} /\ IsInjective(<<p, c>>)
      BY <3>1, TwoAre
    <3>3. ToSet(Freed(new)) = {p, c} /\ IsInjective(Freed(new))
      BY <3>1, <3>2
    <3> QED BY <3>3 DEF p, c
  <2> QED BY <1>1, <2>2, <2>3
<1> QED BY <1>4, <1>5, <1>6, <1>7

LEMMA getpwdIs ==
  ASSUME CdInv, NEW dir \in Directories
  PROVE  /\ getpwd(dir) \in NameType /\ (getpwd(dir).known \/ getpwd(dir) = nullname)
         /\ getpwd(dir).known => getpwd(dir).names = dir
         /\ NamesDir(gone, getpwd(dir), dir)
<1>1. dir \in Seq(FileNames)
  BY DirectoryIsSeq
<1>2. CASE gone /\ dir = Leaf
  BY <1>2, NullIs DEF getpwd, NamesDir
<1>3. CASE ~(gone /\ dir = Leaf)
  <2>1. getpwd(dir) = Name(dir)
    BY <1>3 DEF getpwd
  <2>2. Leads(gone, <<>>, dir, dir)
    BY <1>3, LeadsOwn DEF CdInv
  <2>3. Name(dir) \in NameType /\ Name(dir).known /\ Name(dir).names = dir
    BY <1>1, NameIs
  <2> QED BY <2>1, <2>2, <2>3 DEF NamesDir
<1> QED BY <1>2, <1>3

\* A name that is allocated now.
New(name) == [names |-> name, at |-> Place(name, strings)]

NewAt(new) == new.at \notin {curdir.at, physdir.at} \/ new = nullstr

LEMMA NewIs ==
  ASSUME CdInv, NEW name \in NameType, name.known \/ name = nullname
  PROVE  Placed(New(name)) /\ New(name).names = name /\ NewAt(New(name))
<1> DEFINE p == curdir.at
           q == physdir.at
           new == New(name)
<1>1. strings = {p, q} \ {0} /\ p \in 0..4 /\ q \in 0..4
  BY DEF CdInv, PlacesOwned, Placed
<1>2. new = [names |-> name, at |-> Place(name, strings)]
  BY DEF New
<1> HIDE DEF p, q, new
<1> DEFINE pl == Place(name, {p, q} \ {0})
<1>3. new = [names |-> name, at |-> pl]
  BY <1>1, <1>2
<1>4. /\ name.known => pl \in 1..4 /\ pl \notin {p, q}
      /\ ~name.known => pl = 0
  BY <1>1, PlaceIs
<1> HIDE DEF pl
<1>5. CASE name.known
  <2>1. new.names = name /\ new.at = pl /\ pl \in 0..4 /\ pl # 0 /\ pl \notin {p, q}
    BY <1>3, <1>4, <1>5
  <2>2. new \in [names : NameType, at : 0..4]
    BY <1>3, <2>1
  <2>3. Placed(new)
    BY <1>5, <2>1, <2>2 DEF Placed
  <2>4. NewAt(new)
    BY <2>1 DEF NewAt, p, q
  <2> QED BY <2>1, <2>3, <2>4 DEF new
<1>6. CASE ~name.known
  <2>1. pl = 0 /\ name = nullname
    BY <1>4, <1>6
  <2>2. new = nullstr
    BY <1>3, <2>1 DEF nullstr
  <2>3. Placed(new) /\ new.names = name /\ NewAt(new)
    BY <2>1, <2>2, NullIs DEF NewAt
  <2> QED BY <2>3 DEF new
<1>7. name.known \in BOOLEAN
  BY DEF NameType
<1> QED BY <1>5, <1>6, <1>7

LEMMA namesSet ==
  ASSUME CdInv, NEW val \in NameType, val.known \/ val = nullname, NEW dir \in Directories,
         setpwd(val, FALSE, dir), NamesDir(gone, val, dir)
  PROVE  /\ Placed(curdir') /\ Placed(physdir') /\ PlacesOwned'
         /\ NamesDir(gone, curdir'.names, dir)
         /\ physdir'.names.known => physdir'.names.names = dir
<1> DEFINE s == getpwd(dir)
           found == New(s)
           given == New(val)
           new == IF val = nullname THEN found ELSE given
<1>1. /\ curdir' = new
      /\ physdir' = IF val = nullname THEN found ELSE nullstr
      /\ strings' = (strings \ ToSet(Freed(new))) \cup ({new.at, physdir'.at} \ {0})
      /\ freedtwice' = (freedtwice \/ ~IsInjective(Freed(new)) \/ ~(ToSet(Freed(new)) \subseteq strings))
  BY DEF setpwd, NewPhysdir, New
<1>2. /\ strings = {curdir.at, physdir.at} \ {0} /\ curdir.at \in 0..4 /\ physdir.at \in 0..4
      /\ ~freedtwice
  BY DEF CdInv, PlacesOwned, Placed
<1>3. /\ s \in NameType /\ (s.known \/ s = nullname) /\ (s.known => s.names = dir)
      /\ NamesDir(gone, s, dir)
  BY getpwdIs
<1> HIDE DEF s
<1>4. Placed(found) /\ found.names = s /\ NewAt(found)
  BY <1>3, NewIs
<1>5. Placed(given) /\ given.names = val /\ NewAt(given)
  BY NewIs
<1> HIDE DEF found, given
<1>6. NewAt(new)
  BY <1>4, <1>5
<1>7. Placed(new) /\ NamesDir(gone, new.names, dir)
  BY <1>3, <1>4, <1>5
<1>8. /\ Placed(physdir') /\ (physdir'.names.known => physdir'.names.names = dir)
      /\ physdir' = new \/ physdir' = nullstr
  BY <1>1, <1>3, <1>4, NullIs
<1> HIDE DEF new
<1>9. ToSet(Freed(new)) = strings /\ IsInjective(Freed(new))
  BY <1>6, FreedAre DEF NewAt
<1>10. strings' = {curdir'.at, physdir'.at} \ {0}
  BY <1>1, <1>9
<1>11. ~freedtwice'
  BY <1>1, <1>2, <1>9
<1> QED BY <1>1, <1>7, <1>8, <1>10, <1>11 DEF PlacesOwned

LEMMA changesKeep ==
  ASSUME CdInv, NEW wanted \in PathNames, NEW physical \in BOOLEAN, docd_to(wanted, physical)
  PROVE  CdInv'
<1> DEFINE name == IF physical THEN nullname ELSE updatepwd(wanted)
           q == IF name.known THEN Absolute(name.names) ELSE wanted
           to == Resolve(q)
<1>1. CASE to = Nowhere
  <2>1. UNCHANGED cdVars
    BY <1>1 DEF docd_to
  <2> QED BY <2>1 DEF cdVars, CdInv, PlacesOwned
<1>2. CASE to # Nowhere
  <2>1. /\ curdirectory' = to /\ wasin' = curdirectory /\ OLDPWD' = curdir.names
        /\ setpwd(name, FALSE, to) /\ gone' = gone
    BY <1>2 DEF docd_to
  <2>2. name = nullname \/ \E names \in Seq(FileNames) : name = Name(names)
    BY updatepwdIs
  <2> HIDE DEF name
  <2>3. name \in NameType /\ (name.known <=> name # nullname)
    BY <2>2, UnknownIs
  <2>4. q \in PathNames
    <3>1. CASE name.known
      <4>1. name.names \in Seq(FileNames)
        BY <2>3 DEF NameType
      <4>2. \A names \in Seq(FileNames) : Absolute(names) \in PathNames
        BY DEF Absolute, PathNames
      <4> QED BY <3>1, <4>1, <4>2
    <3> QED BY <3>1
  <2>5. /\ Leads(gone, StartOf(q), q.names, to) /\ to \in Findable
        /\ gone \in BOOLEAN /\ curdirectory \in Directories
    BY <2>4, ResolveIs DEF CdInv
  <2>6. to \in Directories
    BY <1>2, <2>5 DEF Findable
  <2>7. NamesDir(gone, name, to)
    <3>1. CASE name.known
      <4>1. q = Absolute(name.names)
        BY <3>1
      <4>2. StartOf(q) = <<>> /\ q.names = name.names
        BY <4>1 DEF StartOf, Absolute
      <4> QED BY <2>5, <4>2 DEF NamesDir
    <3> QED BY <3>1 DEF NamesDir
  <2> HIDE DEF to, q
  <2>8. /\ Placed(curdir') /\ Placed(physdir') /\ PlacesOwned'
        /\ NamesDir(gone, curdir'.names, to)
        /\ physdir'.names.known => physdir'.names.names = to
    BY <2>1, <2>3, <2>6, <2>7, namesSet
  <2>9. curdir.names \in NameType /\ NamesDir(gone, curdir.names, curdirectory)
    BY DEF CdInv, Placed
  <2> QED BY <2>1, <2>5, <2>6, <2>8, <2>9 DEF CdInv
<1> QED BY <1>1, <1>2

LEMMA CandidatesTyped ==
  ASSUME NEW wanted \in PathNames, NEW cdpath \in Seq(PathNames), NEW searched
  PROVE  Candidates(wanted, cdpath, searched) \in PathNames
<1> DEFINE In(place) == [abs |-> place.abs, names |-> place.names \o wanted.names]
           hits == {i \in DOMAIN cdpath : Resolve(In(cdpath[i])) # Nowhere}
<1>1. ASSUME NEW i \in DOMAIN cdpath PROVE In(cdpath[i]) \in PathNames
  <2>1. cdpath[i] \in PathNames
    OBVIOUS
  <2>2. /\ cdpath[i].abs \in BOOLEAN /\ cdpath[i].names \in Seq(FileNames)
        /\ wanted.names \in Seq(FileNames)
    BY <2>1 DEF PathNames
  <2>3. cdpath[i].names \o wanted.names \in Seq(FileNames)
    BY <2>2, ConcatProperties
  <2> QED BY <2>2, <2>3 DEF PathNames
<1>2. hits \in SUBSET Nat /\ hits \subseteq DOMAIN cdpath
  <2>1. DOMAIN cdpath = 1..Len(cdpath) /\ Len(cdpath) \in Nat
    OBVIOUS
  <2>2. hits \subseteq DOMAIN cdpath
    OBVIOUS
  <2> HIDE DEF hits
  <2> QED BY <2>1, <2>2
<1>3. Candidates(wanted, cdpath, searched)
        = IF searched /\ hits # {} THEN In(cdpath[Min(hits)]) ELSE wanted
  BY DEF Candidates
<1> HIDE DEF hits, In
<1>4. ASSUME hits # {} PROVE Min(hits) \in hits
  <2>1. \E m \in hits : \A y \in hits : m <= y
    BY <1>2, <1>4, LeastElement
  <2> QED BY <2>1 DEF Min
<1>5. hits # {} => In(cdpath[Min(hits)]) \in PathNames
  BY <1>1, <1>2, <1>4
<1> QED BY <1>3, <1>5

LEMMA pwdKeeps ==
  ASSUME CdInv, pwdcmd
  PROVE  CdInv'
<1> DEFINE s == getpwd(curdirectory)
           found == New(s)
<1>1. /\ physdir = nullstr /\ curdir' = curdir /\ physdir' = found
      /\ strings' = (strings \ ToSet(Freed(curdir))) \cup ({curdir.at, found.at} \ {0})
      /\ freedtwice' = (freedtwice \/ ~IsInjective(Freed(curdir))
                                   \/ ~(ToSet(Freed(curdir)) \subseteq strings))
      /\ UNCHANGED <<curdirectory, gone, OLDPWD, wasin>>
  BY DEF pwdcmd, setpwd, NewPhysdir, New
<1>2. /\ strings = {curdir.at, physdir.at} \ {0} /\ curdir.at \in 0..4 /\ physdir.at \in 0..4
      /\ ~freedtwice /\ Placed(curdir)
  BY DEF CdInv, PlacesOwned, Placed
<1>3. s \in NameType /\ (s.known \/ s = nullname) /\ (s.known => s.names = curdirectory)
  BY getpwdIs DEF CdInv
<1> HIDE DEF s
<1>4. Placed(found) /\ found.names = s /\ NewAt(found)
  BY <1>3, NewIs
<1> HIDE DEF found
<1>5. Freed(curdir) = <<>> \o <<>>
  BY <1>1 DEF Freed
<1>6. physdir.at = 0
  BY <1>1, NullIs
<1>7. strings' = {curdir'.at, physdir'.at} \ {0} /\ ~freedtwice'
  BY <1>1, <1>2, <1>5, <1>6, NoneAre
<1>8. PlacesOwned'
  BY <1>1, <1>4, <1>7 DEF PlacesOwned, NewAt
<1>9. Placed(curdir') /\ Placed(physdir')
  BY <1>1, <1>2, <1>4
<1>10. physdir'.names.known => physdir'.names.names = curdirectory'
  BY <1>1, <1>3, <1>4
<1> QED BY <1>1, <1>8, <1>9, <1>10 DEF CdInv

\* When the leaf goes, names lead where they did or nowhere.
LEMMA NamesStay ==
  ASSUME NEW g \in BOOLEAN, NEW h \in BOOLEAN, g => h,
         NEW name \in NameType, NEW dir, NamesDir(g, name, dir)
  PROVE  NamesDir(h, name, dir)
<1> DEFINE names == name.names
           S == FileNames
           root == <<>>
<1>1. SUFFICES ASSUME name.known
               PROVE  \E to : Leads(h, <<>>, names, to) /\ (to = dir \/ (h /\ to = Nowhere))
  BY DEF NamesDir
<1>2. PICK at : Leads(g, root, names, at) /\ (at = dir \/ (g /\ at = Nowhere))
  BY <1>1 DEF NamesDir
<1>3. names \in Seq(S) /\ root \in Findable
  BY DEF NameType, Findable, Directories
<1> HIDE DEF names, S, root
<1>4. PICK to : Leads(h, root, names, to)
  BY <1>3, LeadsSome
<1>5. to = at \/ (g # h /\ to = Nowhere)
  BY <1>2, <1>3, <1>4, LeadsOnce
<1> QED BY <1>2, <1>4, <1>5 DEF root, names

LEMMA rmdirKeeps ==
  ASSUME CdInv, rmdir
  PROVE  CdInv'
<1>1. /\ gone = FALSE /\ gone' = TRUE
      /\ UNCHANGED <<curdirectory, curdir, physdir, OLDPWD, wasin, strings, freedtwice>>
  BY DEF rmdir, CdInv
<1>2. gone \in BOOLEAN /\ gone' \in BOOLEAN /\ (gone => gone') /\ gone'
  BY <1>1
<1>3. ASSUME NEW name \in NameType, NEW dir \in Directories, NamesDir(gone, name, dir)
      PROVE  NamesDir(gone', name, dir)
  BY <1>2, <1>3, NamesStay
<1>5. NamesDir(gone', curdir.names, curdirectory) /\ NamesDir(gone', OLDPWD, wasin)
  BY <1>3 DEF CdInv, Placed
<1>4. PlacesOwned'
  BY <1>1 DEF CdInv, PlacesOwned
<1> QED BY <1>1, <1>4, <1>5 DEF CdInv

LEMMA cdcmdKeeps ==
  ASSUME CdInv, NEW wanted \in Dests, NEW cdpath \in CDPATHs, NEW physical \in BOOLEAN,
         cdcmd(wanted, cdpath, physical)
  PROVE  CdInv'
<1> DEFINE to == Candidates(wanted, cdpath, ~wanted.abs /\ ~Dotted(wanted))
<1>1. wanted \in PathNames /\ cdpath \in Seq(PathNames)
  BY CdAssumption
<1>2. to \in PathNames
  BY <1>1, CandidatesTyped
<1>3. docd_to(to, physical)
  BY DEF cdcmd
<1> HIDE DEF to
<1> QED BY <1>2, <1>3, changesKeep

LEMMA backKeeps ==
  ASSUME CdInv, NEW cdpath \in CDPATHs, NEW physical \in BOOLEAN, cdcmd_back(cdpath, physical)
  PROVE  CdInv'
<1> DEFINE old == Absolute(OLDPWD.names)
           dot == [abs |-> FALSE, names |-> <<".">>]
           to == Candidates(dot, cdpath, TRUE)
<1>1. cdpath \in Seq(PathNames)
  BY CdAssumption
<1>2. old \in PathNames
  <2>1. OLDPWD.names \in Seq(FileNames)
    BY DEF CdInv, NameType
  <2>2. \A names \in Seq(FileNames) : Absolute(names) \in PathNames
    BY DEF Absolute, PathNames
  <2> QED BY <2>1, <2>2
<1>3. dot \in PathNames
  <2> DEFINE S == FileNames
  <2>0. "." \in S
    BY DEF FileNames
  <2>1. <<".">> \in Seq(S)
    <3> HIDE DEF S
    <3> QED BY <2>0
  <2> QED BY <2>1 DEF PathNames
<1>4. to \in PathNames
  <2> HIDE DEF dot
  <2> QED BY <1>1, <1>3, CandidatesTyped
<1>5. docd_to(old, physical) \/ docd_to(to, physical)
  BY DEF cdcmd_back
<1> HIDE DEF old, to
<1> QED BY <1>2, <1>4, <1>5, changesKeep

LEMMA CdNextKeeps ==
  ASSUME CdInv, CdNext
  PROVE  CdInv'
<1>1. CASE pwdcmd
  BY <1>1, pwdKeeps
<1>2. CASE rmdir
  BY <1>2, rmdirKeeps
<1>3. ASSUME NEW cdpath \in CDPATHs, NEW physical \in BOOLEAN, NEW wanted \in Dests,
             cdcmd(wanted, cdpath, physical)
      PROVE  CdInv'
  BY <1>3, cdcmdKeeps
<1>4. ASSUME NEW cdpath \in CDPATHs, NEW physical \in BOOLEAN, cdcmd_back(cdpath, physical)
      PROVE  CdInv'
  BY <1>4, backKeeps
<1> QED BY <1>1, <1>2, <1>3, <1>4 DEF CdNext

\* What is believed of the environment.
LEMMA CdInitHolds ==
  ASSUME CdInit
  PROVE  CdInv
<1>1. PICK dir \in Directories :
        \E name \in {nullname} \cup {Name(d.names) : d \in {d \in Dests : d.abs}} :
          /\ curdirectory = dir /\ wasin = dir
          /\ name.known => FoldLeft(Entered, <<>>, name.names) = dir
          /\ curdir = [names |-> IF name.known THEN name ELSE Name(dir), at |-> 1]
          /\ physdir = IF name.known THEN nullstr ELSE curdir
  BY DEF CdInit
<1>2. PICK name \in {nullname} \cup {Name(d.names) : d \in {d \in Dests : d.abs}} :
        /\ curdirectory = dir /\ wasin = dir
        /\ name.known => FoldLeft(Entered, <<>>, name.names) = dir
        /\ curdir = [names |-> IF name.known THEN name ELSE Name(dir), at |-> 1]
        /\ physdir = IF name.known THEN nullstr ELSE curdir
  BY <1>1
<1>3. gone = FALSE /\ OLDPWD = nullname /\ strings = {1} /\ ~freedtwice /\ gone \in BOOLEAN
  BY DEF CdInit
<1>4. name = nullname \/ \E names \in Seq(FileNames) : name = Name(names)
  <2>1. \A d \in Dests : d.names \in Seq(FileNames)
    BY CdAssumption DEF PathNames
  <2> QED BY <1>2, <2>1
<1>5. name \in NameType /\ (name.known <=> name # nullname) /\ dir \in Seq(FileNames)
  BY <1>1, <1>4, UnknownIs, DirectoryIsSeq
<1> DEFINE first == IF name.known THEN name ELSE Name(dir)
<1>6. first \in NameType /\ first.known /\ (~name.known => first.names = dir)
  BY <1>5, NameIs
<1>7. Leads(gone, <<>>, first.names, dir)
  <2>1. CASE name.known
    <3> DEFINE names == name.names
    <3>1. names \in Seq(FileNames)
      BY <1>5 DEF NameType
    <3>2. FoldLeft(Entered, <<>>, names) = dir
      BY <1>2, <2>1
    <3> HIDE DEF names
    <3>3. PICK w : EnteredBy(w, <<>>, names, FoldLeft(Entered, <<>>, names))
      BY <3>1, EnteredSteps
    <3>4. EnteredBy(w, <<>>, names, dir)
      BY <3>2, <3>3
    <3>5. Leads(FALSE, <<>>, names, dir)
      BY <1>1, <3>1, <3>4, BelievedLeads
    <3>6. first.names = names
      BY <2>1 DEF names
    <3> HIDE DEF first
    <3> QED BY <1>3, <3>5, <3>6
  <2>2. CASE ~name.known
    <3>1. Leads(gone, <<>>, dir, dir)
      BY <1>1, <1>3, LeadsOwn
    <3> QED BY <1>6, <2>2, <3>1
  <2> QED BY <2>1, <2>2
<1>8. curdir = [names |-> first, at |-> 1]
  BY <1>2
<1> HIDE DEF first
<1>9. Placed(curdir) /\ curdir.names = first /\ curdir.at = 1
  <2>1. curdir.names = first /\ curdir.at = 1 /\ curdir \in [names : NameType, at : 0..4]
    BY <1>6, <1>8
  <2> QED BY <1>6, <2>1 DEF Placed
<1>10. NamesDir(gone, curdir.names, curdirectory) /\ NamesDir(gone, OLDPWD, wasin)
  BY <1>2, <1>3, <1>7, <1>9, NullIs DEF NamesDir
<1>11. Placed(physdir) /\ (physdir.names.known => physdir.names.names = curdirectory)
  <2>1. CASE name.known
    BY <1>2, <2>1, NullIs
  <2>2. CASE ~name.known
    BY <1>2, <1>6, <1>9, <2>2
  <2> QED BY <2>1, <2>2
<1>12. PlacesOwned
  <2>1. CASE name.known
    <3>1. physdir = nullstr /\ physdir.at = 0
      BY <1>2, <2>1, NullIs
    <3> QED BY <1>3, <1>9, <3>1 DEF PlacesOwned
  <2>2. CASE ~name.known
    BY <1>2, <1>3, <1>9, <2>2 DEF PlacesOwned
  <2> QED BY <2>1, <2>2
<1> QED BY <1>1, <1>2, <1>3, <1>9, <1>10, <1>11, <1>12, NullIs DEF CdInv

\* A name that is one of the directory is one for the kernel.
LEMMA NamedIsFound ==
  ASSUME CdInv, NEW name \in NameType, NEW dir, NamesDir(gone, name, dir)
  PROVE  LeadsTo(name, dir)
<1> DEFINE names == name.names
           wanted == Absolute(names)
           found == Resolve(wanted)
           g == gone
           S == FileNames
           root == <<>>
<1>1. SUFFICES ASSUME name.known PROVE found = dir \/ (g /\ found = Nowhere)
  BY DEF LeadsTo
<1>2. PICK to : Leads(g, root, names, to) /\ (to = dir \/ (g /\ to = Nowhere))
  BY <1>1 DEF NamesDir
<1>3. names \in Seq(S) /\ root \in Findable /\ g \in BOOLEAN
  BY DEF NameType, Findable, Directories, CdInv
<1>4. wanted \in PathNames
  BY <1>3 DEF Absolute, PathNames
<1>5. StartOf(wanted) = root /\ wanted.names = names
  BY DEF StartOf, Absolute
<1> HIDE DEF wanted, names
<1>6. Leads(g, StartOf(wanted), wanted.names, found)
  BY <1>4, ResolveIs DEF CdInv
<1> HIDE DEF found, g, S, root
<1>7. Leads(g, root, names, found)
  BY <1>5, <1>6
<1>8. found = to \/ (g # g /\ found = Nowhere)
  BY <1>2, <1>3, <1>7, LeadsOnce
<1> QED BY <1>2, <1>8

LEMMA CdInvSound ==
  ASSUME CdInv
  PROVE  DirectorySound
<1>1. LeadsTo(curdir.names, curdirectory)
  <2>1. curdir.names \in NameType /\ NamesDir(gone, curdir.names, curdirectory)
    BY DEF CdInv, Placed
  <2> QED BY <2>1, NamedIsFound
<1>2. LeadsTo(OLDPWD, wasin)
  <2>1. OLDPWD \in NameType /\ NamesDir(gone, OLDPWD, wasin)
    BY DEF CdInv
  <2> QED BY <2>1, NamedIsFound
<1> QED BY <1>1, <1>2 DEF CdInv, PlacesOwned, DirectorySound, PwdNamesDirectory, NamesOwned

\* By name or not, without .. cd comes to the same directory.
LEMMA ByNameOrNot ==
  ASSUME NEW g \in BOOLEAN, NEW S, NEW start \in Seq(S), NEW more \in Seq(S),
         NEW w, NEW names \in Seq(S), WalkedBy(w, start, more, names),
         \A k \in 1..Len(more) : more[k] # "..",
         NEW from, Leads(g, <<>>, start, from), NEW e, Leads(g, from, more, e),
         NEW to, Leads(g, <<>>, names, to)
  PROVE  to = e
<1> DEFINE root == <<>>
<1>1. PICK v : EntersBy(v, g, from, more, e)
  BY DEF Leads
<1>2. Leads(g, root, names, e)
  BY <1>1, WalkedLeads
<1>3. root \in Findable /\ Leads(g, root, names, to)
  BY DEF Findable, Directories
<1> HIDE DEF root
<1>4. to = e \/ (g # g /\ to = Nowhere)
  BY <1>2, <1>3, LeadsOnce
<1> QED BY <1>4

LEMMA ByNameIsPhysical ==
  ASSUME CdInv, NEW dest \in Dests, ~gone, ".." \notin ToSet(dest.names),
         cdcmd(dest, <<>>, FALSE), curdir' # curdir
  PROVE  curdirectory' = Resolve(dest)
<1> DEFINE name == updatepwd(dest)
           q == IF name.known THEN Absolute(name.names) ELSE dest
           g == gone
<1>1. Candidates(dest, <<>>, ~dest.abs /\ ~Dotted(dest)) = dest
  <2>1. DOMAIN <<>> = {}
    OBVIOUS
  <2> QED BY <2>1 DEF Candidates
<1>2. docd_to(dest, FALSE)
  BY <1>1 DEF cdcmd
<1>3. Resolve(q) # Nowhere /\ curdirectory' = Resolve(q)
  BY <1>2 DEF docd_to, cdVars
<1>4. dest \in PathNames
  BY CdAssumption
<1>5. CASE name = nullname
  BY <1>3, <1>5, NullIs
<1>6. ASSUME NEW w, NEW names,
             WalkedBy(w, IF dest.abs THEN <<>> ELSE curdir.names.names, dest.names, names),
             dest.abs \/ curdir.names.known, name = Name(names), names \in Seq(FileNames)
      PROVE  Resolve(q) = Resolve(dest)
  <2> DEFINE start == IF dest.abs THEN <<>> ELSE curdir.names.names
             more == dest.names
             wanted == Absolute(names)
             from == StartOf(dest)
             S == FileNames
  <2>1. q = wanted /\ wanted \in PathNames /\ wanted.names = names /\ StartOf(wanted) = <<>>
    <3>1. q = wanted
      BY <1>6, NameIs
    <3>2. wanted \in PathNames /\ wanted.names = names /\ StartOf(wanted) = <<>>
      BY <1>6 DEF Absolute, PathNames, StartOf
    <3> QED BY <3>1, <3>2
  <2>2. more \in Seq(S) /\ names \in Seq(S) /\ start \in Seq(S) /\ g \in BOOLEAN
    <3>1. curdir.names \in NameType
      BY DEF CdInv, Placed
    <3>2. <<>> \in Seq(FileNames)
      OBVIOUS
    <3> QED BY <1>4, <1>6, <3>1, <3>2 DEF NameType, PathNames, CdInv
  <2>3. \A k \in 1..Len(more) : more[k] # ".."
    <3>1. DOMAIN more = 1..Len(more)
      BY <2>2
    <3> QED BY <3>1 DEF ToSet
  <2>4. Leads(g, <<>>, start, from)
    <3>1. CASE dest.abs
      <4>1. start = <<>> /\ from = <<>>
        BY <3>1 DEF StartOf
      <4> HIDE DEF start, from
      <4> QED BY <2>2, <4>1, NoNamesLead
    <3>2. CASE ~dest.abs
      <4>1. start = curdir.names.names /\ from = curdirectory /\ curdir.names.known
        BY <1>6, <3>2 DEF StartOf
      <4>2. NamesDir(gone, curdir.names, curdirectory)
        BY DEF CdInv
      <4> QED BY <4>1, <4>2 DEF NamesDir
    <3> QED BY <3>1, <3>2
  <2>5. Leads(g, from, more, Resolve(dest))
    BY <1>4, ResolveIs DEF CdInv
  <2>6. Leads(g, <<>>, names, Resolve(wanted))
    BY <2>1, ResolveIs DEF CdInv
  <2>7. WalkedBy(w, start, more, names)
    BY <1>6
  <2> HIDE DEF start, more, from, g, S, wanted
  <2>8. Resolve(wanted) = Resolve(dest)
    BY <2>2, <2>3, <2>4, <2>5, <2>6, <2>7, ByNameOrNot
  <2> QED BY <2>1, <2>8
<1>7. \/ name = nullname
      \/ \E w, names :
           /\ WalkedBy(w, IF dest.abs THEN <<>> ELSE curdir.names.names, dest.names, names)
           /\ dest.abs \/ curdir.names.known
           /\ name = Name(names) /\ names \in Seq(FileNames)
  BY <1>4, updatepwdIs
<1> QED BY <1>3, <1>5, <1>6, <1>7

-----------------------------------------------------------------------------
\* Parameters and what getopts says of them (Options): how a list is read.
Word == Seq(Characters)

LetterRead(letter, silent) ==
  IF Listed(letter, silent) THEN <<letter, NoArg>>
  ELSE <<"?", IF silent THEN <<letter>> ELSE NoArg>>

OptionSaid == Characters \X Word

ReadType == [options : Seq(OptionSaid), wants : Characters \cup {NoLetter}, words : Nat, over : BOOLEAN]

NothingRead == [options |-> <<>>, wants |-> NoLetter, words |-> 0, over |-> FALSE]

\* g has what is read of the list after each of its words.
ReadsBy(g, list, silent) ==
  /\ g[0] = NothingRead /\ g[Len(list)] = Read(list, silent)
  /\ \A k \in 1..Len(list) : g[k] = ReadWord(silent, g[k - 1], list[k])

LEMMA ReadSteps ==
  ASSUME NEW list \in Seq(Word), NEW silent \in BOOLEAN
  PROVE  \E g : ReadsBy(g, list, silent)
<1> DEFINE op == IF silent THEN "silent" ELSE "loud"
           n == Len(list)
           D == DOMAIN list
           G(h) == [t \in SUBSET D |->
                     IF t = {} THEN NothingRead
                     ELSE ReadWord(silent, h[t \ {CHOOSE x \in t : \A y \in t : x >= y}],
                                   list[CHOOSE x \in t : \A y \in t : x >= y])]
           f == CHOOSE h : h = G(h)
<1>1. n \in Nat /\ D = 1..n
  OBVIOUS
<1>2. \A st, x : Turn(op, st, x) = ReadWord(silent, st, x)
  BY DEF Turn
<1>3. \A h : FoldAt(h, op, NothingRead, list, n) <=> h = G(h)
  <2> HIDE DEF op
  <2> QED BY <1>1, <1>2 DEF FoldAt, Turned, Largest
<1>4. Read(list, silent) = f[D]
  BY DEF Read, FoldLeft, MapThenFoldSet, Max, NothingRead
<1> HIDE DEF G, op
<1>5. \E h : h = G(h)
  BY <1>1, <1>3, TurnedExists
<1>6. f = G(f)
  BY <1>5
<1> HIDE DEF f
<1> HIDE DEF n, D
<1>7. FoldAt(f, op, NothingRead, list, n)
  BY <1>3, <1>6
<1>8. PICK g : Steps(g, op, NothingRead, list, n, f[1..n])
  BY <1>1, <1>7, PlaceByPlace
<1>9. \A k \in 1..n : g[k] = ReadWord(silent, g[k - 1], list[k])
  BY <1>2, <1>8 DEF Steps
<1>10. g[0] = NothingRead /\ g[n] = f[1..n]
  BY <1>8 DEF Steps
<1> QED BY <1>1, <1>4, <1>9, <1>10 DEF n, ReadsBy

\* The place of the first letter that wants an argument, or the place after the last.
FirstWanting(word) == Min({i \in 2..Len(word) : word[i] \in optstr.argument} \cup {Len(word) + 1})

LEMMA MinIs ==
  ASSUME NEW S \in SUBSET Nat, S # {}
  PROVE  Min(S) \in S /\ \A y \in S : Min(S) <= y
<1>1. \E m \in S : \A y \in S : m <= y
  BY LeastElement
<1> QED BY <1>1 DEF Min

LEMMA FirstWantingIs ==
  ASSUME NEW word \in Word, Len(word) > 1
  PROVE  LET k == FirstWanting(word)
         IN /\ k \in 2..Len(word) + 1
            /\ k <= Len(word) => word[k] \in optstr.argument
            /\ \A i \in 2..k - 1 : word[i] \notin optstr.argument
<1> DEFINE S == {i \in 2..Len(word) : word[i] \in optstr.argument} \cup {Len(word) + 1}
           k == Min(S)
<1>1. Len(word) \in Nat
  BY DEF Word
<1>2. S \in SUBSET Nat /\ S # {} /\ \A i \in S : i \in 2..Len(word) + 1
  BY <1>1
<1>3. k \in S /\ \A y \in S : k <= y
  <2> HIDE DEF S
  <2> QED BY <1>2, MinIs
<1>4. k \in 2..Len(word) + 1
  BY <1>2, <1>3
<1>5. k <= Len(word) => word[k] \in optstr.argument
  BY <1>1, <1>3
<1>6. ASSUME NEW i \in 2..k - 1 PROVE word[i] \notin optstr.argument
  <2>1. SUFFICES ASSUME word[i] \in optstr.argument PROVE FALSE
    OBVIOUS
  <2>2. i \in 2..Len(word) /\ ~(k <= i)
    <3> HIDE DEF k
    <3> QED BY <1>1, <1>4
  <2>3. i \in S
    BY <2>1, <2>2
  <2> HIDE DEF S
  <2> QED BY <1>3, <2>2, <2>3
<1> HIDE DEF k
<1>7. FirstWanting(word) = k
  BY DEF FirstWanting, k
<1> QED BY <1>4, <1>5, <1>6, <1>7

\* What a word of options adds to what was read.
Letters1(word, k, silent) == [i \in 1..k - 2 |-> LetterRead(word[i + 1], silent)]

After1(word, k) == SubSeq(word, k + 1, Len(word))

ReadOptions(read, word, k, silent) ==
  read.options \o Letters1(word, k, silent)
    \o (IF After1(word, k) = <<>> THEN <<>> ELSE <<<<word[k], After1(word, k)>>>>)

LEMMA ReadWordIs ==
  ASSUME NEW read, NEW word, NEW silent
  PROVE  LET k == FirstWanting(word)
         IN ReadWord(silent, read, word) =
              IF read.over THEN read
              ELSE IF read.wants # NoLetter
              THEN [read EXCEPT !.options = Append(@, <<read.wants, word>>), !.wants = NoLetter, !.words = @ + 1]
              ELSE IF word = <<"-", "-">> THEN [read EXCEPT !.over = TRUE, !.words = @ + 1]
              ELSE IF ~IsOption(word) THEN [read EXCEPT !.over = TRUE]
              ELSE [read EXCEPT !.options = ReadOptions(read, word, k, silent),
                                !.wants = IF k <= Len(word) /\ After1(word, k) = <<>> THEN word[k] ELSE NoLetter,
                                !.words = @ + 1]
BY DEF ReadWord, ReadOptions, Letters1, After1, LetterRead, FirstWanting

\* t goes on from s.
Extends(s, t) == Len(s) <= Len(t) /\ \A i \in 1..Len(s) : t[i] = s[i]

\* What is said of the letters of an option, and of the rest of it.
WordRead(read, new, word, k, silent) ==
  LET n == Len(read.options)
  IN /\ Extends(read.options, new.options)
     /\ Len(new.options) = n + k - 2 + (IF k < Len(word) THEN 1 ELSE 0)
     /\ \A i \in 2..k - 1 : new.options[n + i - 1] = LetterRead(word[i], silent)
     /\ k < Len(word) => new.options[n + k - 1] = <<word[k], SubSeq(word, k + 1, Len(word))>>

LEMMA LetterTyped ==
  ASSUME NEW letter \in Characters, NEW silent
  PROVE  LetterRead(letter, silent) \in OptionSaid
<1>1. <<letter>> \in Seq(Characters) /\ <<>> \in Seq(Characters) /\ "?" \in Characters
  BY OptionsAssumption
<1> QED BY <1>1 DEF LetterRead, OptionSaid, Word, NoArg

LEMMA LettersAre ==
  ASSUME NEW word \in Word, NEW k \in 2..Len(word) + 1, NEW silent
  PROVE  /\ Letters1(word, k, silent) \in Seq(OptionSaid)
         /\ Len(Letters1(word, k, silent)) = k - 2
         /\ \A i \in 1..k - 2 : Letters1(word, k, silent)[i] = LetterRead(word[i + 1], silent)
<1> DEFINE s == Letters1(word, k, silent)
<1>1. k - 2 \in Nat /\ Len(word) \in Nat
  BY DEF Word
<1>2. \A i \in 1..k - 2 : LetterRead(word[i + 1], silent) \in OptionSaid
  <2> TAKE i \in 1..k - 2
  <2>1. i + 1 \in 1..Len(word)
    BY <1>1
  <2>2. word[i + 1] \in Characters
    BY <2>1 DEF Word
  <2> QED BY <2>2, LetterTyped
<1>3. s \in [1..k - 2 -> OptionSaid]
  BY <1>2 DEF Letters1
<1>4. s \in Seq(OptionSaid) /\ Len(s) = k - 2
  <2> HIDE DEF s
  <2> QED BY <1>1, <1>3
<1> QED BY <1>4 DEF Letters1

LEMMA RestIs ==
  ASSUME NEW word \in Word, NEW k \in 2..Len(word) + 1
  PROVE  /\ After1(word, k) \in Word
         /\ After1(word, k) = <<>> <=> ~(k < Len(word))
<1> DEFINE t == SubSeq(word, k + 1, Len(word))
<1>1. Len(word) \in Nat /\ k \in Int /\ k >= 2
  BY DEF Word
<1>2. \A i \in k + 1..Len(word) : word[i] \in Characters
  BY <1>1 DEF Word
<1>3. k + 1 \in Int /\ Len(word) \in Int
  BY <1>1
<1>4. /\ t \in Seq(Characters)
      /\ Len(t) = IF k + 1 <= Len(word) THEN Len(word) - (k + 1) + 1 ELSE 0
  BY <1>2, <1>3, SubSeqProperties
<1> HIDE DEF t
<1>5. t = <<>> <=> Len(t) = 0
  BY <1>4
<1>6. Len(t) = 0 <=> ~(k < Len(word))
  BY <1>1, <1>4
<1>7. After1(word, k) = t
  BY DEF After1, t
<1> QED BY <1>4, <1>5, <1>6, <1>7 DEF Word

LEMMA ReadOptionsAre ==
  ASSUME NEW read \in ReadType, NEW word \in Word, NEW k \in 2..Len(word) + 1, NEW silent,
         NEW new, new.options = ReadOptions(read, word, k, silent)
  PROVE  new.options \in Seq(OptionSaid) /\ WordRead(read, new, word, k, silent)
<1> DEFINE a == read.options
           s == Letters1(word, k, silent)
           r == IF After1(word, k) = <<>> THEN <<>> ELSE <<<<word[k], After1(word, k)>>>>
           n == Len(a)
<1>1. a \in Seq(OptionSaid) /\ n \in Nat /\ Len(word) \in Nat
  BY DEF ReadType, Word
<1>2. /\ s \in Seq(OptionSaid) /\ Len(s) = k - 2
      /\ \A i \in 1..k - 2 : s[i] = LetterRead(word[i + 1], silent)
  BY LettersAre
<1>3. /\ After1(word, k) = SubSeq(word, k + 1, Len(word))
      /\ After1(word, k) \in Word
      /\ After1(word, k) = <<>> <=> ~(k < Len(word))
  BY RestIs DEF After1
<1>4. /\ r \in Seq(OptionSaid) /\ Len(r) = IF k < Len(word) THEN 1 ELSE 0
      /\ k < Len(word) => r[1] = <<word[k], After1(word, k)>>
  <2>1. k < Len(word) => word[k] \in Characters
    BY <1>1 DEF Word
  <2>2. k < Len(word) => <<word[k], After1(word, k)>> \in OptionSaid
    BY <1>3, <2>1 DEF OptionSaid
  <2> QED BY <1>3, <2>2
<1> DEFINE b == a \o s
<1>5. /\ b \in Seq(OptionSaid) /\ Len(b) = n + (k - 2)
      /\ \A i \in 1..n : b[i] = a[i]
      /\ \A i \in 1..k - 2 : b[n + i] = s[i]
  <2> HIDE DEF a, s
  <2> QED BY <1>1, <1>2, ConcatProperties DEF n
<1> DEFINE c == b \o r
<1>6. /\ c \in Seq(OptionSaid) /\ Len(c) = n + (k - 2) + Len(r)
      /\ \A i \in 1..n + (k - 2) : c[i] = b[i]
      /\ Len(r) = 1 => c[n + (k - 2) + 1] = r[1]
  <2>1. r \in Seq(OptionSaid) /\ b \in Seq(OptionSaid) /\ Len(b) = n + (k - 2)
    BY <1>4, <1>5
  <2>2. n + (k - 2) \in Nat
    BY <1>1
  <2> HIDE DEF b, r, n
  <2>3. /\ c \in Seq(OptionSaid) /\ Len(c) = Len(b) + Len(r)
        /\ \A i \in 1..Len(b) + Len(r) : c[i] = IF i <= Len(b) THEN b[i] ELSE r[i - Len(b)]
    BY <2>1, ConcatProperties
  <2> DEFINE l == n + (k - 2)
  <2>4. l \in Nat /\ Len(b) = l /\ Len(r) \in Nat
    BY <2>1, <2>2
  <2> HIDE DEF l, c
  <2>5. \A i \in 1..l + Len(r) : c[i] = IF i <= l THEN b[i] ELSE r[i - l]
    BY <2>3, <2>4
  <2>6. \A i \in 1..l : c[i] = b[i]
    BY <2>4, <2>5
  <2>7. Len(r) = 1 => c[l + 1] = r[1]
    BY <2>4, <2>5
  <2> QED BY <2>3, <2>4, <2>6, <2>7 DEF l
<1>7. new.options = c
  BY DEF ReadOptions
<1> HIDE DEF c, b, r, s, a
<1>8. \A i \in 1..n : c[i] = a[i]
  BY <1>1, <1>5, <1>6
<1>9. ASSUME NEW i \in 2..k - 1 PROVE c[n + i - 1] = LetterRead(word[i], silent)
  <2>1. i - 1 \in 1..k - 2 /\ n + (i - 1) \in 1..n + (k - 2) /\ n + i - 1 = n + (i - 1) /\ (i - 1) + 1 = i
    BY <1>1
  <2>2. c[n + (i - 1)] = b[n + (i - 1)] /\ b[n + (i - 1)] = s[i - 1]
    BY <1>5, <1>6, <2>1
  <2>3. s[i - 1] = LetterRead(word[(i - 1) + 1], silent)
    BY <1>2, <2>1
  <2> QED BY <2>1, <2>2, <2>3
<1>10. k < Len(word) => c[n + k - 1] = <<word[k], SubSeq(word, k + 1, Len(word))>>
  <2>1. n + (k - 2) + 1 = n + k - 1
    BY <1>1
  <2> QED BY <1>3, <1>4, <1>6, <2>1
<1>11. Extends(a, c)
  BY <1>1, <1>4, <1>6, <1>8 DEF Extends
<1>12. Len(c) = n + k - 2 + (IF k < Len(word) THEN 1 ELSE 0)
  BY <1>1, <1>4, <1>6
<1>13. read.options = a /\ Len(read.options) = n
  BY DEF a
<1> QED BY <1>6, <1>7, <1>9, <1>10, <1>11, <1>12, <1>13 DEF WordRead

LEMMA ReadNext ==
  ASSUME NEW read \in ReadType, NEW word \in Word, NEW silent \in BOOLEAN
  PROVE  LET new == ReadWord(silent, read, word)
         IN /\ new \in ReadType
            /\ Extends(read.options, new.options)
            /\ read.over => new = read
<1> DEFINE k == FirstWanting(word)
           new == ReadWord(silent, read, word)
<1>1. /\ read.options \in Seq(OptionSaid) /\ read.wants \in Characters \cup {NoLetter} /\ read.words \in Nat
      /\ read.over \in BOOLEAN /\ Len(word) \in Nat /\ Len(read.options) \in Nat
  BY DEF ReadType, Word
<1>2. Extends(read.options, read.options)
  BY <1>1 DEF Extends
<1>3. CASE read.over
  BY <1>2, <1>3, ReadWordIs
<1>4. CASE ~read.over /\ read.wants # NoLetter
  <2>1. new = [read EXCEPT !.options = Append(@, <<read.wants, word>>), !.wants = NoLetter, !.words = @ + 1]
    BY <1>4, ReadWordIs
  <2>2. <<read.wants, word>> \in OptionSaid
    BY <1>1, <1>4 DEF OptionSaid
  <2>3. /\ Append(read.options, <<read.wants, word>>) \in Seq(OptionSaid)
        /\ Extends(read.options, Append(read.options, <<read.wants, word>>))
    BY <1>1, <2>2, AppendProperties DEF Extends
  <2> HIDE DEF new
  <2>4. /\ new.options = Append(read.options, <<read.wants, word>>) /\ new.wants = NoLetter
        /\ new.words = read.words + 1 /\ new.over = read.over
        /\ new = [options |-> new.options, wants |-> new.wants, words |-> new.words, over |-> new.over]
    BY <2>1 DEF ReadType
  <2> QED BY <1>1, <1>4, <2>3, <2>4 DEF ReadType, new
<1>5. CASE ~read.over /\ read.wants = NoLetter /\ (word = <<"-", "-">> \/ ~IsOption(word))
  <2>1. \/ new = [read EXCEPT !.over = TRUE, !.words = @ + 1]
        \/ new = [read EXCEPT !.over = TRUE]
    BY <1>5, ReadWordIs
  <2> HIDE DEF new
  <2>2. /\ new.options = read.options /\ new.wants = read.wants
        /\ new.words \in {read.words, read.words + 1} /\ new.over = TRUE
        /\ new = [options |-> new.options, wants |-> new.wants, words |-> new.words, over |-> new.over]
    BY <2>1 DEF ReadType
  <2>3. new.words \in Nat
    BY <1>1, <2>2
  <2> QED BY <1>1, <1>2, <1>5, <2>2, <2>3 DEF ReadType, new
<1>6. CASE ~read.over /\ read.wants = NoLetter /\ word # <<"-", "-">> /\ IsOption(word)
  <2>1. new = [read EXCEPT !.options = ReadOptions(read, word, k, silent),
                           !.wants = IF k <= Len(word) /\ After1(word, k) = <<>> THEN word[k] ELSE NoLetter,
                           !.words = @ + 1]
    BY <1>6, ReadWordIs
  <2>2. k \in 2..Len(word) + 1
    BY <1>6, FirstWantingIs DEF IsOption
  <2> HIDE DEF k, new
  <2>3. new.options = ReadOptions(read, word, k, silent)
    BY <2>1 DEF ReadType
  <2>4. new.options \in Seq(OptionSaid) /\ WordRead(read, new, word, k, silent)
    BY <2>2, <2>3, ReadOptionsAre
  <2>5. k <= Len(word) => word[k] \in Characters
    BY <1>1, <2>2 DEF Word
  <2>6. new \in ReadType
    <3>1. /\ new.wants = IF k <= Len(word) /\ After1(word, k) = <<>> THEN word[k] ELSE NoLetter
          /\ new.words = read.words + 1 /\ new.over = read.over
          /\ new = [options |-> new.options, wants |-> new.wants, words |-> new.words, over |-> new.over]
      BY <2>1 DEF ReadType
    <3>2. new.wants \in Characters \cup {NoLetter}
      BY <2>5, <3>1
    <3> QED BY <1>1, <2>4, <3>1, <3>2 DEF ReadType
  <2> QED BY <1>6, <2>4, <2>6 DEF WordRead, new
<1> QED BY <1>1, <1>3, <1>4, <1>5, <1>6

\* An option.
LEMMA OptionRead ==
  ASSUME NEW read \in ReadType, ~read.over, read.wants = NoLetter,
         NEW word \in Word, IsOption(word), word # <<"-", "-">>, NEW silent \in BOOLEAN
  PROVE  LET new == ReadWord(silent, read, word)
             k   == FirstWanting(word)
         IN /\ WordRead(read, new, word, k, silent)
            /\ ~new.over /\ new.words = read.words + 1
            /\ new.wants = IF k = Len(word) THEN word[k] ELSE NoLetter
<1> DEFINE k == FirstWanting(word)
           new == ReadWord(silent, read, word)
<1>1. Len(word) \in Nat
  BY DEF Word
<1>2. new = [read EXCEPT !.options = ReadOptions(read, word, k, silent),
                         !.wants = IF k <= Len(word) /\ After1(word, k) = <<>> THEN word[k] ELSE NoLetter,
                         !.words = @ + 1]
  BY ReadWordIs
<1>3. k \in 2..Len(word) + 1
  BY FirstWantingIs DEF IsOption
<1> HIDE DEF k, new
<1>4. /\ new.options = ReadOptions(read, word, k, silent)
      /\ new.wants = IF k <= Len(word) /\ After1(word, k) = <<>> THEN word[k] ELSE NoLetter
      /\ new.words = read.words + 1 /\ ~new.over
  BY <1>2 DEF ReadType
<1>5. WordRead(read, new, word, k, silent)
  BY <1>3, <1>4, ReadOptionsAre
<1>6. k <= Len(word) => (After1(word, k) = <<>> <=> k = Len(word))
  BY <1>1, <1>3, RestIs
<1>7. new.wants = IF k = Len(word) THEN word[k] ELSE NoLetter
  BY <1>1, <1>3, <1>4, <1>6
<1> QED BY <1>4, <1>5, <1>7 DEF k, new

LEMMA ExtendsOn ==
  ASSUME NEW r \in Seq(OptionSaid), NEW s \in Seq(OptionSaid), NEW t \in Seq(OptionSaid),
         Extends(r, s), Extends(s, t)
  PROVE  Extends(r, t)
<1>1. Len(r) \in Nat /\ Len(s) \in Nat /\ Len(t) \in Nat
  OBVIOUS
<1> QED BY <1>1 DEF Extends

\* From one place of the list to a later one.
LEMMA ReadsOn ==
  ASSUME NEW list \in Seq(Word), NEW silent \in BOOLEAN, NEW g, ReadsBy(g, list, silent)
  PROVE  /\ \A k \in 0..Len(list) : g[k] \in ReadType
         /\ \A j, k \in 0..Len(list) :
              j <= k => Extends(g[j].options, g[k].options) /\ (g[j].over => g[k] = g[j])
<1> DEFINE n == Len(list)
           P(k) == /\ g[k] \in ReadType
                   /\ \A j \in 0..k : /\ Extends(g[j].options, g[k].options)
                                      /\ g[j] \in ReadType /\ (g[j].over => g[k] = g[j])
           Good == {k \in Nat : k <= n => P(k)}
<1>1. n \in Nat
  OBVIOUS
<1>2. \A k \in 1..n : g[k] = ReadWord(silent, g[k - 1], list[k]) /\ list[k] \in Word
  BY DEF ReadsBy
<1>3. \A r \in ReadType : Extends(r.options, r.options) /\ r.options \in Seq(OptionSaid)
  <2> TAKE r \in ReadType
  <2>1. r.options \in Seq(OptionSaid)
    BY DEF ReadType
  <2>2. Len(r.options) \in Nat
    BY <2>1
  <2> QED BY <2>1, <2>2 DEF Extends
<1>4. 0 \in Good
  <2>1. g[0] = NothingRead
    BY DEF ReadsBy
  <2>2. <<>> \in Seq(OptionSaid)
    OBVIOUS
  <2>3. NothingRead \in ReadType
    BY <2>2 DEF NothingRead, ReadType
  <2>4. P(0)
    BY <1>3, <2>1, <2>3
  <2> HIDE DEF P
  <2> QED BY <2>4
<1>5. ASSUME NEW k \in Good PROVE k + 1 \in Good
  <2>1. SUFFICES ASSUME k + 1 <= n PROVE P(k + 1)
    <3> HIDE DEF P
    <3> QED OBVIOUS
  <2>2. k \in Nat /\ k <= n /\ k + 1 \in 1..n /\ (k + 1) - 1 = k
    BY <1>1, <2>1
  <2>3. P(k)
    <3> HIDE DEF P
    <3> QED BY <2>2
  <2>4. g[k + 1] = ReadWord(silent, g[k], list[k + 1]) /\ list[k + 1] \in Word
    BY <1>2, <2>2
  <2>5. g[k] \in ReadType
    BY <2>3
  <2>6. /\ g[k + 1] \in ReadType
        /\ Extends(g[k].options, g[k + 1].options)
        /\ g[k].over => g[k + 1] = g[k]
    <3> HIDE DEF P
    <3> QED BY <2>4, <2>5, ReadNext
  <2>7. ASSUME NEW j \in 0..k + 1
        PROVE  /\ Extends(g[j].options, g[k + 1].options)
               /\ g[j] \in ReadType /\ (g[j].over => g[k + 1] = g[j])
    <3>1. CASE j = k + 1
      BY <1>3, <2>6, <3>1
    <3>2. CASE j \in 0..k
      <4>1. Extends(g[j].options, g[k].options) /\ g[j] \in ReadType /\ (g[j].over => g[k] = g[j])
        BY <2>3, <3>2
      <4>2. Extends(g[j].options, g[k + 1].options)
        <5> HIDE DEF P
        <5> QED BY <1>3, <2>5, <2>6, <4>1, ExtendsOn
      <4> QED BY <2>6, <4>1, <4>2
    <3>3. j = k + 1 \/ j \in 0..k
      BY <2>2
    <3> QED BY <3>1, <3>2, <3>3
  <2> QED BY <2>6, <2>7
<1>6. Good = Nat
  <2>1. Good \in SUBSET Nat
    OBVIOUS
  <2> HIDE DEF Good
  <2> QED BY <1>4, <1>5, <2>1, AllNaturals
<1>7. ASSUME NEW k \in 0..n PROVE P(k)
  <2>1. k \in Nat /\ k <= n
    BY <1>1
  <2> HIDE DEF P
  <2>2. k \in Good
    <3> HIDE DEF Good
    <3> QED BY <1>6, <2>1
  <2> QED BY <2>1, <2>2
<1>8. \A k \in 0..n : g[k] \in ReadType
  BY <1>7
<1>9. ASSUME NEW j \in 0..n, NEW k \in 0..n, j <= k
      PROVE  Extends(g[j].options, g[k].options) /\ (g[j].over => g[k] = g[j])
  <2>1. j \in 0..k
    BY <1>1, <1>9
  <2> QED BY <1>7, <2>1
<1> HIDE DEF P
<1> QED BY <1>8, <1>9

\* getopts is at the letter at of the word w, and as many options are given so far.
InWord(g, list, w, at, given) ==
  /\ w \in 1..Len(list) /\ IsOption(list[w]) /\ list[w] # <<"-", "-">>
  /\ at \in 2..Len(list[w])
  /\ \A i \in 2..at - 1 : list[w][i] \notin optstr.argument
  /\ ~g[w - 1].over /\ g[w - 1].wants = NoLetter /\ g[w - 1].words = w - 1
  /\ Len(g[w - 1].options) + (at - 2) = given

\* It has read w words; after the last it may have missed an argument.
Between(g, list, w, given) ==
  /\ w \in 0..Len(list) /\ ~g[w].over /\ g[w].words = w
  /\ \/ g[w].wants = NoLetter /\ Len(g[w].options) = given
     \/ g[w].wants # NoLetter /\ w = Len(list) /\ Len(g[w].options) + 1 = given

AtPlace(g, list, ind, off, given) ==
  /\ ind \in Int /\ off \in Int
  /\ IF LettersLeft(list, ind, off) THEN InWord(g, list, ind - 1, off + 1, given)
     ELSE Between(g, list, ind - 1, given)

\* What is said of the letter of a last option without its argument.
Missed(letter, silent) == IF silent THEN <<":", <<letter>>>> ELSE <<"?", NoArg>>

\* All options of the list from which read was read.
AllOptions(all, read, silent) ==
  /\ Len(read.options) \in Nat
  /\ \A i \in 1..Len(read.options) : all[i] = read.options[i]
  /\ read.wants = NoLetter => Len(all) = Len(read.options)
  /\ read.wants # NoLetter => /\ Len(all) = Len(read.options) + 1
                              /\ all[Len(all)] = Missed(read.wants, silent)

LEMMA OptionsOfAre ==
  ASSUME NEW list \in Seq(Word), NEW silent \in BOOLEAN, NEW g, ReadsBy(g, list, silent)
  PROVE  AllOptions(OptionsOf(list, silent), g[Len(list)], silent)
<1> DEFINE read == g[Len(list)]
           all == OptionsOf(list, silent)
           a == read.options
           b == IF read.wants = NoLetter THEN <<>> ELSE <<Missed(read.wants, silent)>>
<1>1. Len(list) \in Nat /\ Len(list) \in 0..Len(list)
  OBVIOUS
<1>2. read \in ReadType
  BY <1>1, ReadsOn
<1>3. a \in Seq(OptionSaid) /\ read.wants \in Characters \cup {NoLetter}
  <2> HIDE DEF read
  <2> QED BY <1>2 DEF ReadType
<1>4. read = Read(list, silent)
  BY DEF ReadsBy
<1> HIDE DEF read
<1>5. all = a \o b
  BY <1>4 DEF OptionsOf, Missed
<1>6. b \in Seq(OptionSaid) /\ Len(b) = (IF read.wants = NoLetter THEN 0 ELSE 1)
      /\ (read.wants # NoLetter => b[1] = Missed(read.wants, silent))
  <2>1. read.wants # NoLetter => Missed(read.wants, silent) \in OptionSaid
    <3>1. SUFFICES ASSUME read.wants # NoLetter PROVE Missed(read.wants, silent) \in OptionSaid
      OBVIOUS
    <3>2. /\ <<read.wants>> \in Seq(Characters) /\ <<>> \in Seq(Characters)
          /\ "?" \in Characters /\ ":" \in Characters
      BY <1>3, <3>1, OptionsAssumption
    <3> QED BY <3>2 DEF Missed, OptionSaid, Word, NoArg
  <2> QED BY <2>1
<1> HIDE DEF a, b
<1>7. /\ Len(a \o b) = Len(a) + Len(b)
      /\ \A i \in 1..Len(a) + Len(b) : (a \o b)[i] = IF i <= Len(a) THEN a[i] ELSE b[i - Len(a)]
      /\ Len(a) \in Nat
  BY <1>3, <1>6, ConcatProperties
<1> HIDE DEF all
<1>8. \A i \in 1..Len(a) : all[i] = a[i]
  BY <1>5, <1>6, <1>7
<1>9. read.wants # NoLetter => all[Len(all)] = b[1]
  <2>1. SUFFICES ASSUME read.wants # NoLetter PROVE all[Len(all)] = b[1]
    OBVIOUS
  <2>2. Len(b) = 1 /\ Len(all) = Len(a) + 1
    BY <1>5, <1>6, <1>7, <2>1
  <2>3. Len(a) + 1 \in 1..Len(a) + Len(b) /\ ~(Len(a) + 1 <= Len(a)) /\ (Len(a) + 1) - Len(a) = 1
    BY <1>7, <2>2
  <2> QED BY <1>5, <1>7, <2>2, <2>3
<1>10. Len(all) = Len(a) + (IF read.wants = NoLetter THEN 0 ELSE 1)
  BY <1>5, <1>6, <1>7
<1>11. a = read.options
  BY DEF a
<1>12. AllOptions(all, read, silent)
  <2>1. read.wants = NoLetter => Len(all) = Len(a)
    BY <1>7, <1>10
  <2>2. read.wants # NoLetter => Len(all) = Len(a) + 1 /\ all[Len(all)] = Missed(read.wants, silent)
    BY <1>6, <1>9, <1>10
  <2> QED BY <1>7, <1>8, <1>11, <2>1, <2>2 DEF AllOptions
<1> QED BY <1>12 DEF read, all

SaidBy(letter, arg, next, off) ==
  [c |-> letter, optarg |-> arg, done |-> FALSE, optind |-> next, optoff |-> off]

LEMMA OptionIs ==
  ASSUME NEW list, NEW silent, NEW ind, NEW at
  PROVE  LET word == list[ind - 1]
             c == word[at]
         IN Option(list, silent, ind, at) =
              IF c \in optstr.argument
              THEN IF After1(word, at) # <<>> THEN SaidBy(c, After1(word, at), ind, -1)
                   ELSE IF ind <= Len(list) THEN SaidBy(c, list[ind], ind + 1, -1)
                   ELSE SaidBy(Missed(c, silent)[1], Missed(c, silent)[2], ind, -1)
              ELSE SaidBy(LetterRead(c, silent)[1], LetterRead(c, silent)[2], ind, at)
<1>1. /\ \A c : Missed(c, TRUE)[1] = ":" /\ Missed(c, TRUE)[2] = <<c>>
      /\ \A c : ~silent => Missed(c, silent)[1] = "?" /\ Missed(c, silent)[2] = NoArg
      /\ \A c : silent => Missed(c, silent)[1] = ":" /\ Missed(c, silent)[2] = <<c>>
  BY DEF Missed
<1>2. \A c : IF Listed(c, silent) THEN LetterRead(c, silent)[1] = c /\ LetterRead(c, silent)[2] = NoArg
             ELSE LetterRead(c, silent)[1] = "?"
                  /\ LetterRead(c, silent)[2] = IF silent THEN <<c>> ELSE NoArg
  BY DEF LetterRead
<1> QED BY <1>1, <1>2 DEF Option, After1, SaidBy

\* What getopts says of a letter.
Says(res, list, silent, g, given) ==
  /\ res.done = FALSE
  /\ AtPlace(g, list, res.optind, res.optoff, given)
  /\ given <= Len(OptionsOf(list, silent))
  /\ <<res.c, res.optarg>> = OptionsOf(list, silent)[given]

\* The option that was said last is that of the place, if the options read so far are as many.
LEMMA SaidRight ==
  ASSUME NEW list \in Seq(Word), NEW silent \in BOOLEAN, NEW g, ReadsBy(g, list, silent),
         NEW w \in 0..Len(list), NEW i \in 1..Len(g[w].options)
  PROVE  i <= Len(OptionsOf(list, silent)) /\ OptionsOf(list, silent)[i] = g[w].options[i]
<1> DEFINE n == Len(list)
           all == OptionsOf(list, silent)
<1>1. n \in Nat /\ n \in 0..n /\ w <= n
  OBVIOUS
<1>2. g[w] \in ReadType /\ g[n] \in ReadType /\ Extends(g[w].options, g[n].options)
  BY <1>1, ReadsOn
<1>3. AllOptions(all, g[n], silent)
  BY OptionsOfAre
<1> HIDE DEF all, n
<1>4. Len(g[n].options) \in Nat /\ Len(g[w].options) \in Nat
  <2>1. g[w].options \in Seq(OptionSaid)
    BY <1>2 DEF ReadType
  <2> QED BY <1>3, <2>1 DEF AllOptions
<1>5. Len(g[w].options) <= Len(g[n].options) /\ g[n].options[i] = g[w].options[i]
  BY <1>2 DEF Extends
<1>6. i \in 1..Len(g[n].options)
  BY <1>4, <1>5
<1>7. i <= Len(all)
  BY <1>3, <1>4, <1>6 DEF AllOptions
<1>8. all[i] = g[n].options[i]
  BY <1>3, <1>6 DEF AllOptions
<1> QED BY <1>5, <1>7, <1>8 DEF all

LEMMA OptionGives ==
  ASSUME NEW list \in Seq(Word), NEW silent \in BOOLEAN, NEW g, ReadsBy(g, list, silent),
         NEW w, NEW at, NEW given \in Nat, InWord(g, list, w, at, given)
  PROVE  Says(Option(list, silent, w + 1, at), list, silent, g, given + 1)
<1> DEFINE word == list[w]
           c == word[at]
           old == g[w - 1]
           new == g[w]
           k == FirstWanting(word)
           m == Len(old.options)
           all == OptionsOf(list, silent)
           res == Option(list, silent, w + 1, at)
<1>1. /\ Len(list) \in Nat /\ w \in 1..Len(list) /\ w \in 0..Len(list) /\ w - 1 \in 0..Len(list)
      /\ word \in Word /\ Len(word) \in Nat /\ at \in 2..Len(word) /\ (w + 1) - 1 = w
  <2>1. w \in 1..Len(list) /\ Len(list) \in Nat /\ at \in 2..Len(word)
    BY DEF InWord
  <2>2. word \in Word
    BY <2>1
  <2>3. Len(word) \in Nat
    BY <2>2 DEF Word
  <2> QED BY <2>1, <2>2, <2>3
<1>2. /\ IsOption(word) /\ word # <<"-", "-">>
      /\ \A i \in 2..at - 1 : word[i] \notin optstr.argument
      /\ ~old.over /\ old.wants = NoLetter /\ old.words = w - 1
      /\ m + (at - 2) = given
  BY DEF InWord
<1>3. old \in ReadType /\ new \in ReadType
  BY <1>1, ReadsOn
<1>4. new = ReadWord(silent, old, word)
  BY <1>1 DEF ReadsBy
<1>5. /\ WordRead(old, new, word, k, silent)
      /\ ~new.over /\ new.words = old.words + 1
      /\ new.wants = IF k = Len(word) THEN word[k] ELSE NoLetter
  <2> HIDE DEF old, new, word, k
  <2> QED BY <1>1, <1>2, <1>3, <1>4, OptionRead DEF k
<1>6. /\ k \in 2..Len(word) + 1
      /\ k <= Len(word) => word[k] \in optstr.argument
      /\ \A i \in 2..k - 1 : word[i] \notin optstr.argument
  <2> HIDE DEF word, k
  <2> QED BY <1>1, <1>2, FirstWantingIs DEF k, IsOption
<1>7. k >= at /\ (c \in optstr.argument <=> k = at)
  <2>1. ASSUME k < at PROVE FALSE
    <3>1. k \in 2..at - 1 /\ k <= Len(word)
      <4> HIDE DEF k, word
      <4> QED BY <1>1, <1>6, <2>1
    <3> QED BY <1>2, <1>6, <3>1
  <2>2. ASSUME k > at PROVE c \notin optstr.argument
    <3>1. at \in 2..k - 1
      <4> HIDE DEF k, word
      <4> QED BY <1>1, <1>6, <2>2
    <3> QED BY <1>6, <3>1
  <2>3. k = at => c \in optstr.argument
    <3> HIDE DEF k, word
    <3> QED BY <1>1, <1>6 DEF k
  <2>4. k \in Int /\ at \in Int
    <3> HIDE DEF k, word
    <3> QED BY <1>1, <1>6
  <2> HIDE DEF k, c
  <2> QED BY <2>1, <2>2, <2>3, <2>4
<1>8. /\ m \in Nat
      /\ k < Len(word) => Len(new.options) = m + (k - 1)
      /\ ~(k < Len(word)) => Len(new.options) = m + (k - 2)
      /\ \A i \in 2..k - 1 : new.options[m + i - 1] = LetterRead(word[i], silent)
      /\ k < Len(word) => new.options[m + k - 1] = <<word[k], SubSeq(word, k + 1, Len(word))>>
  <2>1. old.options \in Seq(OptionSaid)
    BY <1>3 DEF ReadType
  <2>2. m \in Nat
    BY <2>1
  <2>3. /\ k < Len(word) => Len(new.options) = m + (k - 1)
        /\ ~(k < Len(word)) => Len(new.options) = m + (k - 2)
    <3>1. Len(new.options) = m + k - 2 + (IF k < Len(word) THEN 1 ELSE 0)
      BY <1>5 DEF WordRead
    <3> HIDE DEF m, k, word, new
    <3> QED BY <1>1, <1>6, <2>2, <3>1
  <2> QED BY <1>5, <2>2, <2>3 DEF WordRead
<1>9. c \in Characters /\ c # NoLetter
  <2>1. c \in Characters
    <3> HIDE DEF word
    <3> QED BY <1>1 DEF Word
  <2> QED BY <2>1, OptionsAssumption
<1>10. After1(word, at) = SubSeq(word, at + 1, Len(word)) /\ (After1(word, at) = <<>> <=> at = Len(word))
  <2>1. at \in 2..Len(word) + 1
    <3> HIDE DEF word
    <3> QED BY <1>1
  <2>2. After1(word, at) = <<>> <=> ~(at < Len(word))
    <3> HIDE DEF word
    <3> QED BY <1>1, <2>1, RestIs
  <2> HIDE DEF word
  <2> QED BY <1>1, <2>2 DEF After1
<1>11. res = IF c \in optstr.argument
             THEN IF After1(word, at) # <<>> THEN SaidBy(c, After1(word, at), w + 1, -1)
                  ELSE IF w + 1 <= Len(list) THEN SaidBy(c, list[w + 1], (w + 1) + 1, -1)
                  ELSE SaidBy(Missed(c, silent)[1], Missed(c, silent)[2], w + 1, -1)
             ELSE SaidBy(LetterRead(c, silent)[1], LetterRead(c, silent)[2], w + 1, at)
  <2> DEFINE u == w + 1
             cu == list[u - 1][at]
             after == After1(list[u - 1], at)
  <2>1. Option(list, silent, u, at) =
          IF cu \in optstr.argument
          THEN IF after # <<>> THEN SaidBy(cu, after, u, -1)
               ELSE IF u <= Len(list) THEN SaidBy(cu, list[u], u + 1, -1)
               ELSE SaidBy(Missed(cu, silent)[1], Missed(cu, silent)[2], u, -1)
          ELSE SaidBy(LetterRead(cu, silent)[1], LetterRead(cu, silent)[2], u, at)
    <3> HIDE DEF u
    <3> QED BY OptionIs
  <2>2. u - 1 = w
    BY <1>1
  <2>3. cu = c /\ after = After1(word, at)
    <3> HIDE DEF u
    <3> QED BY <2>2
  <2> HIDE DEF cu, after, c, word
  <2> QED BY <2>1, <2>3
<1>12. \A i \in 1..Len(new.options) : i <= Len(all) /\ all[i] = new.options[i]
  <2> TAKE i \in 1..Len(g[w].options)
  <2>1. w \in 0..Len(list)
    <3> HIDE DEF word
    <3> QED BY <1>1
  <2> HIDE DEF word, c, old, k, m, res
  <2> QED BY <2>1, SaidRight
<1>13. \A ind, off : /\ ind \in Int /\ off \in Int /\ ~LettersLeft(list, ind, off)
                     /\ Between(g, list, ind - 1, given + 1)
                     => AtPlace(g, list, ind, off, given + 1)
  BY DEF AtPlace
<1>14. \A ind : ~LettersLeft(list, ind, -1)
  BY DEF LettersLeft
<1>15. CASE c \in optstr.argument /\ After1(word, at) # <<>>
  <2>1. res = SaidBy(c, After1(word, at), w + 1, -1)
    BY <1>11, <1>15
  <2>2. k = at /\ k < Len(word)
    <3> HIDE DEF word, k, c
    <3> QED BY <1>1, <1>7, <1>10, <1>15
  <2>3. Len(new.options) = given + 1 /\ new.options[given + 1] = <<c, After1(word, at)>>
    <3>1. m + (at - 1) = given + 1 /\ m + at - 1 = given + 1
      <4> HIDE DEF m, word
      <4> QED BY <1>1, <1>2, <1>8
    <3>2. Len(new.options) = m + (at - 1)
      <4> HIDE DEF m, word, k, new
      <4> QED BY <1>8, <2>2
    <3>3. new.options[m + at - 1] = <<c, After1(word, at)>>
      <4> HIDE DEF m, k, new
      <4> QED BY <1>8, <1>10, <2>2
    <3> HIDE DEF m, new
    <3> QED BY <3>1, <3>2, <3>3
  <2>4. new.wants = NoLetter
    <3> HIDE DEF word, k, new
    <3> QED BY <1>5, <2>2, <1>1
  <2>5. Between(g, list, w, given + 1)
    <3>1. new.words = w
      <4> HIDE DEF new, old, word
      <4> QED BY <1>1, <1>2, <1>5
    <3> QED BY <1>1, <1>5, <2>3, <2>4, <3>1 DEF Between
  <2>6. AtPlace(g, list, w + 1, -1, given + 1)
    BY <1>1, <1>13, <1>14, <2>5
  <2>7. given + 1 <= Len(all) /\ all[given + 1] = <<c, After1(word, at)>>
    <3>1. given + 1 \in 1..Len(new.options)
      BY <2>3
    <3> HIDE DEF new, all
    <3> QED BY <1>12, <2>3, <3>1
  <2> HIDE DEF res, all, c, word
  <2> QED BY <2>1, <2>6, <2>7 DEF Says, SaidBy, all, res
<1>16. CASE c \in optstr.argument /\ After1(word, at) = <<>> /\ w + 1 <= Len(list)
  <2>1. res = SaidBy(c, list[w + 1], (w + 1) + 1, -1)
    BY <1>11, <1>16
  <2>2. k = at /\ k = Len(word) /\ w + 1 \in 1..Len(list) /\ w + 1 \in 0..Len(list)
    <3> HIDE DEF word, k, c
    <3> QED BY <1>1, <1>7, <1>10, <1>16
  <2> DEFINE next == g[w + 1]
  <2>3. Len(new.options) = given /\ new.wants = c
    <3>1. Len(new.options) = m + (at - 2)
      <4> HIDE DEF m, word, k, new
      <4> QED BY <1>1, <1>8, <2>2
    <3>2. new.wants = word[k]
      <4> HIDE DEF new, word
      <4> QED BY <1>5, <2>2
    <3> HIDE DEF m, new, k, word
    <3> QED BY <1>2, <2>2, <3>1, <3>2 DEF word
  <2>4. next = ReadWord(silent, new, list[w + 1])
    BY <1>1, <2>2 DEF ReadsBy
  <2>5. /\ next.options = Append(new.options, <<c, list[w + 1]>>)
        /\ next.wants = NoLetter /\ next.words = w + 1 /\ ~next.over
    <3>1. next = [new EXCEPT !.options = Append(@, <<new.wants, list[w + 1]>>), !.wants = NoLetter,
                             !.words = @ + 1]
      <4> HIDE DEF new, next, c
      <4> QED BY <1>5, <1>9, <2>3, <2>4, ReadWordIs
    <3>2. new.words = w
      <4> HIDE DEF new, old, word
      <4> QED BY <1>1, <1>2, <1>5
    <3> HIDE DEF new, next, c
    <3> QED BY <1>3, <1>5, <2>3, <3>1, <3>2 DEF ReadType
  <2>6. Len(next.options) = given + 1 /\ next.options[given + 1] = <<c, list[w + 1]>>
    <3>1. new.options \in Seq(OptionSaid)
      BY <1>3 DEF ReadType
    <3>2. list[w + 1] \in Word
      BY <2>2
    <3>3. <<c, list[w + 1]>> \in OptionSaid
      <4> HIDE DEF c
      <4> QED BY <1>9, <3>2 DEF OptionSaid
    <3> HIDE DEF new, next, c
    <3> QED BY <2>3, <2>5, <3>1, <3>3, AppendProperties
  <2>7. Between(g, list, w + 1, given + 1)
    BY <2>2, <2>5, <2>6 DEF Between
  <2>8. AtPlace(g, list, (w + 1) + 1, -1, given + 1)
    <3>1. ((w + 1) + 1) - 1 = w + 1 /\ (w + 1) + 1 \in Int /\ -1 \in Int
      BY <1>1
    <3> QED BY <1>13, <1>14, <2>7, <3>1
  <2>9. given + 1 <= Len(all) /\ all[given + 1] = <<c, list[w + 1]>>
    <3>1. given + 1 \in 1..Len(next.options)
      BY <2>6
    <3>2. given + 1 <= Len(all) /\ all[given + 1] = next.options[given + 1]
      BY <2>2, <3>1, SaidRight
    <3> HIDE DEF next, all
    <3> QED BY <2>6, <3>2
  <2> HIDE DEF res, all, c, word
  <2> QED BY <2>1, <2>8, <2>9 DEF Says, SaidBy, all, res
<1>17. CASE c \in optstr.argument /\ After1(word, at) = <<>> /\ ~(w + 1 <= Len(list))
  <2>1. res = SaidBy(Missed(c, silent)[1], Missed(c, silent)[2], w + 1, -1)
    BY <1>11, <1>17
  <2>2. k = at /\ k = Len(word) /\ w = Len(list)
    <3> HIDE DEF word, k, c
    <3> QED BY <1>1, <1>7, <1>10, <1>17
  <2>3. Len(new.options) = given /\ new.wants = c
    <3>1. Len(new.options) = m + (at - 2)
      <4> HIDE DEF m, word, k, new
      <4> QED BY <1>1, <1>8, <2>2
    <3>2. new.wants = word[k]
      <4> HIDE DEF new, word
      <4> QED BY <1>5, <2>2
    <3> HIDE DEF m, new, k, word
    <3> QED BY <1>2, <2>2, <3>1, <3>2 DEF word
  <2>4. Between(g, list, w, given + 1)
    <3>1. new.words = w
      <4> HIDE DEF new, old, word
      <4> QED BY <1>1, <1>2, <1>5
    <3> QED BY <1>1, <1>5, <1>9, <2>2, <2>3, <3>1 DEF Between
  <2>5. AtPlace(g, list, w + 1, -1, given + 1)
    BY <1>1, <1>13, <1>14, <2>4
  <2>6. given + 1 <= Len(all) /\ all[given + 1] = Missed(c, silent)
    <3>1. AllOptions(all, new, silent)
      BY <2>2, OptionsOfAre
    <3> HIDE DEF new, all, c
    <3> QED BY <1>9, <2>3, <3>1 DEF AllOptions
  <2>7. <<Missed(c, silent)[1], Missed(c, silent)[2]>> = Missed(c, silent)
    BY DEF Missed
  <2> HIDE DEF res, all, c, word
  <2> QED BY <2>1, <2>5, <2>6, <2>7 DEF Says, SaidBy, all, res
<1>18. CASE c \notin optstr.argument
  <2>1. res = SaidBy(LetterRead(c, silent)[1], LetterRead(c, silent)[2], w + 1, at)
    BY <1>11, <1>18
  <2>2. k > at /\ at \in 2..k - 1
    <3> HIDE DEF word, k, c
    <3> QED BY <1>1, <1>6, <1>7, <1>18
  <2>3. new.options[given + 1] = LetterRead(c, silent) /\ given + 1 \in 1..Len(new.options)
    <3>1. new.options[m + at - 1] = LetterRead(c, silent)
      BY <1>8, <2>2
    <3>2. m + at - 1 = given + 1
      <4> HIDE DEF m, word
      <4> QED BY <1>1, <1>2, <1>8
    <3>3. given + 1 <= Len(new.options)
      <4> HIDE DEF m, word, k, new
      <4> QED BY <1>1, <1>6, <1>8, <2>2, <3>2
    <3>4. Len(new.options) \in Nat
      <4> HIDE DEF m, word, k, new
      <4> QED BY <1>6, <1>1, <1>8
    <3> HIDE DEF m, new
    <3> QED BY <3>1, <3>2, <3>3, <3>4
  <2>4. given + 1 <= Len(all) /\ all[given + 1] = LetterRead(c, silent)
    <3> HIDE DEF new, all, c
    <3> QED BY <1>12, <2>3
  <2>5. AtPlace(g, list, w + 1, at, given + 1)
    <3>1. LettersLeft(list, w + 1, at) <=> at < Len(word)
      <4>1. list[(w + 1) - 1] = word
        BY <1>1
      <4> HIDE DEF word
      <4> QED BY <1>1, <4>1 DEF LettersLeft
    <3>2. CASE at < Len(word)
      <4>1. at + 1 \in 2..Len(word) /\ (at + 1) - 1 = at /\ m + ((at + 1) - 2) = given + 1
        <5> HIDE DEF word, m
        <5> QED BY <1>1, <1>2, <1>8, <3>2
      <4>2. ASSUME NEW i \in 2..(at + 1) - 1 PROVE word[i] \notin optstr.argument
        <5>1. i \in 2..at - 1 \/ i = at
          <6> HIDE DEF word
          <6> QED BY <1>1
        <5> QED BY <1>2, <1>18, <5>1
      <4>3. InWord(g, list, w, at + 1, given + 1)
        BY <1>1, <1>2, <4>1, <4>2 DEF InWord
      <4> QED BY <1>1, <3>1, <3>2, <4>3 DEF AtPlace
    <3>3. CASE ~(at < Len(word))
      <4>1. k = Len(word) + 1 /\ at = Len(word)
        <5> HIDE DEF word, k
        <5> QED BY <1>1, <1>6, <2>2, <3>3
      <4>2. Len(new.options) = given + 1 /\ new.wants = NoLetter
        <5>1. Len(new.options) = m + (k - 2)
          <6> HIDE DEF m, word, k, new
          <6> QED BY <1>1, <1>8, <4>1
        <5>2. m + (k - 2) = given + 1
          <6> HIDE DEF m, word, k, new
          <6> QED BY <1>1, <1>2, <1>8, <4>1
        <5>3. new.wants = NoLetter
          <6> HIDE DEF word, k, new
          <6> QED BY <1>1, <1>5, <4>1
        <5> QED BY <5>1, <5>2, <5>3
      <4>3. new.words = w
        <5> HIDE DEF new, old, word
        <5> QED BY <1>1, <1>2, <1>5
      <4>4. Between(g, list, w, given + 1)
        BY <1>1, <1>5, <4>2, <4>3 DEF Between
      <4> QED BY <1>1, <1>13, <3>1, <3>3, <4>4
    <3> QED BY <3>2, <3>3
  <2>6. <<LetterRead(c, silent)[1], LetterRead(c, silent)[2]>> = LetterRead(c, silent)
    BY DEF LetterRead
  <2> HIDE DEF res, all, c, word
  <2> QED BY <2>1, <2>4, <2>5, <2>6 DEF Says, SaidBy, all, res
<1> HIDE DEF c, word
<1> QED BY <1>15, <1>16, <1>17, <1>18

\* The end of the list, or of its options.
Ends(res, list, silent, given) ==
  /\ res.done = TRUE
  /\ given = Len(OptionsOf(list, silent)) + 1
  /\ res.optind = Read(list, silent).words + 1

\* One call of getopts.
\* The options are over after so many words.
OverAfter(new, read, words) ==
  new.over = TRUE /\ new.words = words /\ new.options = read.options /\ new.wants = read.wants

LEMMA getoptsGives ==
  ASSUME NEW list \in Seq(Word), NEW silent \in BOOLEAN, NEW g, ReadsBy(g, list, silent),
         NEW ind, NEW off, NEW given \in Nat, AtPlace(g, list, ind, off, given)
  PROVE  LET res == getopts(list, silent, ind, off)
         IN /\ res.optind \in Nat \ {0} /\ res.optoff \in Int /\ res.done \in BOOLEAN
            /\ Says(res, list, silent, g, given + 1) \/ Ends(res, list, silent, given + 1)
<1> DEFINE n == Len(list)
           w == ind - 1
           all == OptionsOf(list, silent)
           res == getopts(list, silent, ind, off)
<1>1. n \in Nat /\ ind \in Int /\ off \in Int
  BY DEF AtPlace
<1>2. w \in 0..n
  <2>1. CASE LettersLeft(list, ind, off)
    <3>1. w \in 1..n
      BY <2>1 DEF AtPlace, InWord
    <3> QED BY <1>1, <3>1
  <2>2. CASE ~LettersLeft(list, ind, off)
    BY <2>2 DEF AtPlace, Between
  <2> QED BY <2>1, <2>2
<1>3. Clamped(ind, list) = [ind |-> ind, keeps |-> TRUE]
  BY <1>1, <1>2 DEF Clamped
<1>4. res = IF LettersLeft(list, ind, off) THEN Option(list, silent, ind, off + 1)
            ELSE IF ind > n \/ ~IsOption(list[ind]) THEN AtEnd(ind)
            ELSE IF list[ind] = <<"-", "-">> THEN AtEnd(ind + 1)
            ELSE Option(list, silent, ind + 1, 2)
  BY <1>3 DEF getopts
<1>5. ASSUME NEW k, k \in Int, NEW at, InWord(g, list, k - 1, at, given)
      PROVE  LET r == Option(list, silent, k, at)
             IN /\ r.optind \in Nat \ {0} /\ r.optoff \in Int /\ r.done \in BOOLEAN
                /\ Says(r, list, silent, g, given + 1)
  <2> DEFINE r == Option(list, silent, k, at)
  <2>1. (k - 1) + 1 = k
    BY <1>5
  <2>2. Says(r, list, silent, g, given + 1)
    BY <1>5, <2>1, OptionGives
  <2> HIDE DEF r
  <2>3. r.optind \in Int /\ r.optoff \in Int /\ r.done \in BOOLEAN
    BY <2>2 DEF Says, AtPlace
  <2>4. r.optind - 1 \in 0..Len(list)
    <3>1. CASE LettersLeft(list, r.optind, r.optoff)
      <4>1. r.optind - 1 \in 1..Len(list)
        BY <2>2, <3>1 DEF Says, AtPlace, InWord
      <4> QED BY <4>1
    <3>2. CASE ~LettersLeft(list, r.optind, r.optoff)
      BY <2>2, <3>2 DEF Says, AtPlace, Between
    <3> QED BY <3>1, <3>2
  <2>5. r.optind \in Nat \ {0}
    BY <2>3, <2>4
  <2> QED BY <2>2, <2>3, <2>5 DEF r
<1>6. CASE LettersLeft(list, ind, off)
  <2>1. InWord(g, list, ind - 1, off + 1, given)
    BY <1>6 DEF AtPlace
  <2>2. res = Option(list, silent, ind, off + 1)
    BY <1>4, <1>6
  <2> HIDE DEF res
  <2> QED BY <1>1, <1>5, <2>1, <2>2 DEF res
<1>7. ASSUME ~LettersLeft(list, ind, off)
      PROVE  /\ ~g[w].over /\ g[w].words = w
             /\ \/ g[w].wants = NoLetter /\ Len(g[w].options) = given
                \/ g[w].wants # NoLetter /\ w = n /\ Len(g[w].options) + 1 = given
  BY <1>7 DEF AtPlace, Between
<1>8. AllOptions(all, g[n], silent) /\ g[n] = Read(list, silent)
  BY OptionsOfAre DEF ReadsBy
<1>9. \A k : k \in Nat \ {0} =>
        AtEnd(k).optind \in Nat \ {0} /\ AtEnd(k).optoff \in Int /\ AtEnd(k).done = TRUE
        /\ AtEnd(k).optind = k
  BY DEF AtEnd
<1>10. CASE ~LettersLeft(list, ind, off) /\ ind > n
  <2>1. w = n /\ ind = n + 1 /\ ind \in Nat \ {0}
    BY <1>1, <1>2, <1>10
  <2>2. res = AtEnd(ind)
    BY <1>4, <1>10
  <2>3. g[n].words = n /\ given = Len(all)
    <3> HIDE DEF all, n, w
    <3> QED BY <1>7, <1>8, <1>10, <2>1 DEF AllOptions
  <2>4. Ends(res, list, silent, given + 1)
    <3> HIDE DEF res, n, w
    <3> QED BY <1>8, <1>9, <2>1, <2>2, <2>3 DEF Ends
  <2> HIDE DEF res
  <2> QED BY <1>9, <2>1, <2>2, <2>4 DEF res
<1>11. ASSUME ~LettersLeft(list, ind, off), ~(ind > n)
       PROVE  /\ ind \in 1..n /\ ind \in Nat \ {0} /\ w + 1 = ind /\ list[ind] \in Word
              /\ ~g[w].over /\ g[w].words = w /\ g[w].wants = NoLetter /\ Len(g[w].options) = given
              /\ g[ind] = ReadWord(silent, g[w], list[ind]) /\ g[w] \in ReadType
  <2>1. ind \in 1..n /\ ind \in Nat \ {0} /\ w + 1 = ind /\ w # n
    BY <1>1, <1>2, <1>11
  <2>2. list[ind] \in Word /\ g[ind] = ReadWord(silent, g[w], list[ind])
    BY <2>1 DEF ReadsBy
  <2>3. g[w] \in ReadType
    BY <1>2, ReadsOn
  <2> HIDE DEF n, w
  <2> QED BY <1>7, <1>11, <2>1, <2>2, <2>3
<1>12. ASSUME ~LettersLeft(list, ind, off), ~(ind > n), NEW j \in Nat, OverAfter(g[ind], g[w], j)
       PROVE  g[n].words = j /\ given = Len(all)
  <2>1. g[ind].over /\ g[ind].words = j /\ g[ind].options = g[w].options /\ g[ind].wants = NoLetter
    <3> HIDE DEF n, w
    <3> QED BY <1>11, <1>12 DEF OverAfter
  <2>2. g[n] = g[ind]
    <3>1. ind \in 0..n /\ n \in 0..n /\ ind <= n
      BY <1>1, <1>11, <1>12
    <3> QED BY <2>1, <3>1, ReadsOn
  <2> HIDE DEF n, w, all
  <2> QED BY <1>8, <1>11, <1>12, <2>1, <2>2 DEF AllOptions
<1>13. CASE ~LettersLeft(list, ind, off) /\ ~(ind > n) /\ list[ind] = <<"-", "-">>
  <2>1. res = AtEnd(ind + 1)
    <3>1. IsOption(list[ind])
      BY <1>13 DEF IsOption
    <3> QED BY <1>4, <1>13, <3>1
  <2>2. g[ind] = [g[w] EXCEPT !.over = TRUE, !.words = @ + 1]
    <3> HIDE DEF w
    <3> QED BY <1>11, <1>13, ReadWordIs
  <2>3. OverAfter(g[ind], g[w], ind) /\ ind \in Nat
    <3>1. g[w] \in ReadType /\ g[w].words = w /\ w + 1 = ind /\ ind \in Nat
      <4> HIDE DEF w, n
      <4> QED BY <1>11, <1>13
    <3> HIDE DEF w
    <3> QED BY <2>2, <3>1 DEF OverAfter, ReadType
  <2>4. g[n].words = ind /\ given = Len(all)
    <3> HIDE DEF w, n, all
    <3> QED BY <1>12, <1>13, <2>3
  <2>5. ind + 1 \in Nat \ {0}
    <3> HIDE DEF n, w
    <3> QED BY <1>11, <1>13
  <2>6. Ends(res, list, silent, given + 1)
    <3> HIDE DEF res, n, w
    <3> QED BY <1>8, <1>9, <2>1, <2>4, <2>5 DEF Ends
  <2> HIDE DEF res
  <2> QED BY <1>9, <2>1, <2>5, <2>6 DEF res
<1>14. CASE ~LettersLeft(list, ind, off) /\ ~(ind > n) /\ list[ind] # <<"-", "-">> /\ ~IsOption(list[ind])
  <2>1. res = AtEnd(ind)
    BY <1>4, <1>14
  <2>2. g[ind] = [g[w] EXCEPT !.over = TRUE]
    <3> HIDE DEF w
    <3> QED BY <1>11, <1>14, ReadWordIs
  <2>3. OverAfter(g[ind], g[w], w) /\ w \in Nat
    <3>1. g[w] \in ReadType /\ g[w].words = w
      <4> HIDE DEF w, n
      <4> QED BY <1>11, <1>14
    <3>2. w \in Nat
      BY <1>1, <1>2
    <3> HIDE DEF w
    <3> QED BY <2>2, <3>1, <3>2 DEF OverAfter, ReadType
  <2>4. g[n].words = w /\ given = Len(all)
    <3> HIDE DEF w, n, all
    <3> QED BY <1>12, <1>14, <2>3
  <2>5. ind \in Nat \ {0} /\ w + 1 = ind
    <3> HIDE DEF n, w
    <3> QED BY <1>11, <1>14
  <2>6. Ends(res, list, silent, given + 1)
    <3> HIDE DEF res, n, w
    <3> QED BY <1>8, <1>9, <2>1, <2>4, <2>5 DEF Ends
  <2> HIDE DEF res
  <2> QED BY <1>9, <2>1, <2>5, <2>6 DEF res
<1>15. CASE ~LettersLeft(list, ind, off) /\ ~(ind > n) /\ list[ind] # <<"-", "-">> /\ IsOption(list[ind])
  <2>1. res = Option(list, silent, ind + 1, 2)
    BY <1>4, <1>15
  <2>2. (ind + 1) - 1 = ind /\ ind + 1 \in Int /\ ind - 1 = w /\ 2..2 - 1 = {}
    BY <1>1
  <2>3. Len(list[ind]) \in Nat /\ 2 \in 2..Len(list[ind])
    <3>1. list[ind] \in Word
      <4> HIDE DEF n, w
      <4> QED BY <1>11, <1>15
    <3>2. Len(list[ind]) \in Nat
      BY <3>1 DEF Word
    <3> QED BY <1>15, <3>2 DEF IsOption
  <2>4. ind \in 1..Len(list)
    <3>1. ind \in 1..n
      <4> HIDE DEF n, w
      <4> QED BY <1>11, <1>15
    <3> QED BY <3>1
  <2>5. ~g[w].over /\ g[w].wants = NoLetter /\ g[w].words = w /\ Len(g[w].options) + (2 - 2) = given
    <3> HIDE DEF n, w
    <3> QED BY <1>11, <1>15
  <2>6. InWord(g, list, ind, 2, given)
    <3> HIDE DEF w, n
    <3> QED BY <1>15, <2>2, <2>3, <2>4, <2>5 DEF InWord
  <2> HIDE DEF res
  <2> QED BY <1>5, <2>1, <2>2, <2>6 DEF res
<1> QED BY <1>6, <1>10, <1>13, <1>14, <1>15

LEMMA getoptsTyped ==
  ASSUME NEW list \in Seq(Word), NEW silent, NEW ind \in Int, ind # 0, NEW off \in Int
  PROVE  LET res == getopts(list, silent, ind, off)
         IN res.optind \in Nat \ {0} /\ res.optoff \in Int
<1> DEFINE k == Clamped(ind, list).ind
           o == IF Clamped(ind, list).keeps THEN off ELSE -1
           res == getopts(list, silent, ind, off)
<1>1. k \in Nat \ {0} /\ o \in Int
  <2>1. Len(list) \in Nat
    OBVIOUS
  <2> QED BY <2>1 DEF Clamped
<1>2. res = IF LettersLeft(list, k, o) THEN Option(list, silent, k, o + 1)
            ELSE IF k > Len(list) \/ ~IsOption(list[k]) THEN AtEnd(k)
            ELSE IF list[k] = <<"-", "-">> THEN AtEnd(k + 1)
            ELSE Option(list, silent, k + 1, 2)
  BY DEF getopts
<1> HIDE DEF k, o, res
<1>3. ASSUME NEW i \in Nat \ {0}, NEW at \in Int
      PROVE  /\ Option(list, silent, i, at).optind \in Nat \ {0}
             /\ Option(list, silent, i, at).optoff \in Int
  BY <1>3, OptionIs DEF SaidBy
<1>4. ASSUME NEW i \in Nat \ {0} PROVE AtEnd(i).optind \in Nat \ {0} /\ AtEnd(i).optoff \in Int
  BY DEF AtEnd
<1>5. o + 1 \in Int /\ k + 1 \in Nat \ {0}
  BY <1>1
<1>6. \/ \E i \in Nat \ {0}, at \in Int : res = Option(list, silent, i, at)
      \/ \E i \in Nat \ {0} : res = AtEnd(i)
  BY <1>1, <1>2, <1>5
<1>7. res.optind \in Nat \ {0} /\ res.optoff \in Int
  BY <1>3, <1>4, <1>6
<1> QED BY <1>7 DEF res

\* getopts begins at the first word.
LEMMA getoptsBegins ==
  ASSUME NEW list \in Seq(Word), NEW silent, NEW ind \in {1, -1}, NEW off
  PROVE  getopts(list, silent, ind, off) = getopts(list, silent, 1, -1)
<1>1. Len(list) \in Nat
  OBVIOUS
<1>2. Clamped(ind, list).ind = 1 /\ Clamped(1, list).ind = 1
  BY <1>1 DEF Clamped
<1>3. \A o : ~LettersLeft(list, 1, o)
  BY DEF LettersLeft
<1> QED BY <1>2, <1>3 DEF getopts

LEMMA AtFirst ==
  ASSUME NEW list \in Seq(Word), NEW silent \in BOOLEAN, NEW g, ReadsBy(g, list, silent)
  PROVE  AtPlace(g, list, 1, -1, 0)
<1>1. g[0] = NothingRead
  BY DEF ReadsBy
<1>2. Len(list) \in Nat /\ 0 \in 0..Len(list) /\ 1 - 1 = 0 /\ Len(<<>>) = 0
  OBVIOUS
<1>3. Between(g, list, 0, 0)
  BY <1>1, <1>2 DEF Between, NothingRead
<1>4. ~LettersLeft(list, 1, -1)
  BY DEF LettersLeft
<1> QED BY <1>2, <1>3, <1>4 DEF AtPlace

-----------------------------------------------------------------------------
ParamType == [word : Word, at : Nat]

PlaceType == [p : Seq(ParamType), optind : Int, optoff : Int]

CourseType == [list : Seq(Word), silent : BOOLEAN, calls : Int, over : BOOLEAN]

SavedParam == [param : PlaceType, course : CourseType]

\* optind and optoff are where the course of given has come to.
OnCourse(sp, co) ==
  /\ sp.optind # 0 /\ co.calls >= -1
  /\ co.calls = 0 => sp.optind \in {1, -1}
  /\ co.calls > 0 /\ ~co.over =>
       \E g : /\ ReadsBy(g, co.list, co.silent)
              /\ AtPlace(g, co.list, sp.optind, sp.optoff, co.calls)

\* The lists of parameters, the present one last.
ListOf(sp, saved, i) == IF i <= Len(saved) THEN saved[i].param.p ELSE sp.p

AddressIn(sp, saved, i, k) == ListOf(sp, saved, i)[k].at

\* There is a k-th parameter in the i-th list.
IsParam(sp, saved, i, k) == i \in 1..Len(saved) + 1 /\ k \in 1..Len(ListOf(sp, saved, i))

Own(addrs, sp, saved) ==
  /\ addrs \in SUBSET Addresses
  /\ \A i, k : IsParam(sp, saved, i, k) =>
       AddressIn(sp, saved, i, k) = 0 \/ AddressIn(sp, saved, i, k) \in addrs
  /\ \A a \in addrs : \E i, k : IsParam(sp, saved, i, k) /\ AddressIn(sp, saved, i, k) = a
  /\ \A i, j, k, l :
       /\ IsParam(sp, saved, i, k) /\ IsParam(sp, saved, j, l)
       /\ AddressIn(sp, saved, i, k) = AddressIn(sp, saved, j, l)
       => AddressIn(sp, saved, i, k) = 0 \/ (i = j /\ k = l)

\* The inductive invariant of parameters and options.
OptionsInv ==
  /\ shellparam \in PlaceType /\ course \in CourseType
  /\ saveparam \in Seq(SavedParam)
  /\ OnCourse(shellparam, course)
  /\ \A i \in 1..Len(saveparam) : OnCourse(saveparam[i].param, saveparam[i].course)
  /\ Own(addresses, shellparam, saveparam)
  /\ controls_jobs \in BOOLEAN /\ JobControlFollows
  /\ GetoptsRight

LEMMA WordsAre ==
  ASSUME NEW p \in Seq(ParamType)
  PROVE  Words(p) \in Seq(Word)
<1> DEFINE s == Words(p)
<1>1. Len(p) \in Nat /\ DOMAIN p = 1..Len(p)
  OBVIOUS
<1>2. \A i \in 1..Len(p) : p[i].word \in Word
  <2> TAKE i \in 1..Len(p)
  <2>1. p[i] \in ParamType
    OBVIOUS
  <2> QED BY <2>1 DEF ParamType
<1>3. s \in [1..Len(p) -> Word]
  BY <1>1, <1>2 DEF Words
<1> HIDE DEF s
<1>4. s \in Seq(Word)
  BY <1>1, <1>3
<1> QED BY <1>4 DEF s

LEMMA OnStackAre ==
  ASSUME NEW list \in Seq(Word)
  PROVE  /\ OnStack(list) \in Seq(ParamType)
         /\ \A k \in 1..Len(OnStack(list)) : OnStack(list)[k].at = 0
<1> DEFINE s == OnStack(list)
<1>1. Len(list) \in Nat /\ DOMAIN list = 1..Len(list)
  OBVIOUS
<1>2. \A i \in 1..Len(list) : [word |-> list[i], at |-> 0] \in ParamType
  BY DEF ParamType
<1>3. s = [i \in 1..Len(list) |-> [word |-> list[i], at |-> 0]]
  BY <1>1 DEF OnStack
<1>4. s \in [1..Len(list) -> ParamType]
  <2> HIDE DEF s
  <2> QED BY <1>2, <1>3
<1>5. \A k \in 1..Len(list) : s[k].at = 0
  <2> HIDE DEF s
  <2> QED BY <1>3
<1> HIDE DEF s
<1>6. s \in Seq(ParamType) /\ Len(s) = Len(list)
  BY <1>1, <1>4
<1> QED BY <1>5, <1>6 DEF s

LEMMA ParamIs ==
  ASSUME NEW p \in Seq(ParamType)
  PROVE  /\ Param(p) \in PlaceType /\ Param(p).p = p
         /\ NewCourse \in CourseType /\ OtherCourse \in CourseType /\ OtherCourse.calls = -1
         /\ NewCourse.calls = 0
         /\ OnCourse(Param(p), NewCourse)
<1>1. <<>> \in Seq(Word)
  OBVIOUS
<1>2. NewCourse \in CourseType /\ NewCourse.calls = 0
  BY <1>1 DEF NewCourse, CourseType
<1>3. OtherCourse \in CourseType /\ OtherCourse.calls = -1
  BY <1>1, <1>2 DEF OtherCourse, CourseType
<1>4. Param(p) \in PlaceType /\ Param(p).p = p /\ Param(p).optind = 1
  BY DEF Param, PlaceType
<1> QED BY <1>2, <1>3, <1>4 DEF OnCourse

\* A place of the list.
LEMMA PartOfList ==
  ASSUME NEW S, NEW list \in Seq(S), NEW a \in Nat \ {0}, NEW b \in Nat, b <= Len(list)
  PROVE  /\ SubSeq(list, a, b) \in Seq(S) /\ Len(SubSeq(list, a, b)) = IF a <= b THEN b - a + 1 ELSE 0
         /\ \A i \in 1..b - a + 1 : SubSeq(list, a, b)[i] = list[a + i - 1]
<1>1. Len(list) \in Nat /\ a \in Int /\ b \in Int
  OBVIOUS
<1>2. \A i \in a..b : list[i] \in S
  BY <1>1
<1> QED BY <1>1, <1>2, SubSeqProperties

LEMMA OptionWordsAre ==
  ASSUME NEW list \in Seq(Word)
  PROVE  OptionWords(list) \in 0..Len(list)
<1> DEFINE S == {i \in DOMAIN list : ~IsOptions(list[i])} \cup {Len(list) + 1}
                \cup {i + 1 : i \in {i \in DOMAIN list : list[i] \in {<<"-">>, <<"-", "-">>}}}
<1>1. Len(list) \in Nat /\ DOMAIN list = 1..Len(list)
  OBVIOUS
<1>2. S \in SUBSET Nat /\ S # {} /\ \A i \in S : i \in 1..Len(list) + 1
  BY <1>1
<1>3. Min(S) \in 1..Len(list) + 1
  <2> HIDE DEF S
  <2> QED BY <1>2, MinIs
<1>4. OptionWords(list) = Min(S) - 1
  BY DEF OptionWords
<1> HIDE DEF S
<1> QED BY <1>1, <1>3, <1>4

LEMMA InvokedAre ==
  ASSUME NEW args \in Seq(Word)
  PROVE  Invoked(args) \in Seq(Word)
<1> DEFINE n == OptionWords(args)
           operands == SubSeq(args, n + 1, Len(args))
           first == IF \E i \in 1..n : "c" \in Letters(args[i]) THEN 3 ELSE 2
<1>1. n \in 0..Len(args) /\ Len(args) \in Nat /\ n + 1 \in Nat \ {0}
  BY OptionWordsAre
<1>2. operands \in Seq(Word)
  <2> HIDE DEF n
  <2> QED BY <1>1, PartOfList
<1>3. first \in Nat \ {0}
  OBVIOUS
<1>4. Invoked(args) = SubSeq(operands, first, Len(operands))
  BY DEF Invoked
<1> HIDE DEF operands, first
<1>5. Len(operands) \in Nat /\ Len(operands) <= Len(operands)
  BY <1>2
<1> QED BY <1>2, <1>3, <1>4, <1>5, PartOfList

LEMMA AddressesAre ==
  ASSUME NEW p \in Seq(ParamType)
  PROVE  /\ Len(p) \in Nat
         /\ \A k \in 1..Len(p) : p[k].at \in Nat
         /\ \A a : a \in AddressesOf(p) <=> a # 0 /\ \E k \in 1..Len(p) : p[k].at = a
<1>1. Len(p) \in Nat /\ DOMAIN p = 1..Len(p)
  OBVIOUS
<1>2. \A k \in 1..Len(p) : p[k].at \in Nat
  <2> TAKE k \in 1..Len(p)
  <2>1. p[k] \in ParamType
    OBVIOUS
  <2> QED BY <2>1 DEF ParamType
<1> QED BY <1>1, <1>2 DEF AddressesOf

\* The last list is another one.
LEMMA ReplacedOwn ==
  ASSUME NEW addrs, NEW sp, sp.p \in Seq(ParamType), NEW saved \in Seq(SavedParam), Own(addrs, sp, saved),
         NEW now, now.p \in Seq(ParamType),
         \A k \in 1..Len(now.p) : now.p[k].at \in Addresses \ addrs,
         \A k, l \in 1..Len(now.p) : now.p[k].at = now.p[l].at => k = l
  PROVE  Own((addrs \cup AddressesOf(now.p)) \ freeparam(sp.p), now, saved)
<1> DEFINE m == Len(saved) + 1
           after == (addrs \cup AddressesOf(now.p)) \ freeparam(sp.p)
<1>1. m \in Nat /\ Len(saved) \in Nat
  OBVIOUS
<1>2. /\ \A i \in 1..Len(saved) : ListOf(now, saved, i) = ListOf(sp, saved, i)
      /\ ListOf(now, saved, m) = now.p /\ ListOf(sp, saved, m) = sp.p
  BY <1>1 DEF ListOf
<1>3. \A i : i \in 1..m <=> i \in 1..Len(saved) \/ i = m
  BY <1>1
<1>4. \A i : i \in 1..Len(saved) => i # m
  BY <1>1
<1> HIDE DEF m
<1>5. \A i, k : IsParam(now, saved, i, k) <=>
        (i # m /\ IsParam(sp, saved, i, k)) \/ (i = m /\ k \in 1..Len(now.p))
  BY <1>2, <1>3, <1>4 DEF IsParam, m
<1>6. /\ \A i, k : i # m /\ IsParam(sp, saved, i, k) => AddressIn(now, saved, i, k) = AddressIn(sp, saved, i, k)
      /\ \A k : AddressIn(now, saved, m, k) = now.p[k].at /\ AddressIn(sp, saved, m, k) = sp.p[k].at
      /\ \A k : IsParam(sp, saved, m, k) <=> k \in 1..Len(sp.p)
  BY <1>2, <1>3, <1>4 DEF IsParam, AddressIn, m
<1>7. \A a : a \in AddressesOf(now.p) <=> a # 0 /\ \E k \in 1..Len(now.p) : now.p[k].at = a
  BY AddressesAre
<1>8. \A a : a \in freeparam(sp.p) <=> a # 0 /\ \E k \in 1..Len(sp.p) : sp.p[k].at = a
  BY AddressesAre DEF freeparam
<1>9. 0 \notin Addresses
  BY OptionsAssumption
<1>10. after \in SUBSET Addresses
  BY <1>7 DEF Own
<1>11. ASSUME NEW i, NEW k, IsParam(now, saved, i, k)
       PROVE  AddressIn(now, saved, i, k) = 0 \/ AddressIn(now, saved, i, k) \in after
  <2>1. CASE i = m
    <3>1. k \in 1..Len(now.p) /\ AddressIn(now, saved, i, k) = now.p[k].at
      BY <1>5, <1>6, <1>11, <2>1
    <3>2. now.p[k].at \in Addresses /\ now.p[k].at \notin addrs
      BY <3>1
    <3>3. \A a \in freeparam(sp.p) : a \in addrs
      <4>1. \A l : IsParam(sp, saved, m, l) => AddressIn(sp, saved, m, l) \in addrs \cup {0}
        BY DEF Own
      <4> QED BY <1>6, <1>8, <4>1
    <3>4. now.p[k].at \in AddressesOf(now.p)
      BY <1>7, <1>9, <3>1, <3>2
    <3>5. now.p[k].at \notin freeparam(sp.p)
      BY <3>2, <3>3
    <3> QED BY <3>1, <3>4, <3>5
  <2>2. CASE i # m
    <3>1. IsParam(sp, saved, i, k) /\ AddressIn(now, saved, i, k) = AddressIn(sp, saved, i, k)
      BY <1>5, <1>6, <1>11, <2>2
    <3> DEFINE a == AddressIn(sp, saved, i, k)
    <3>2. a = 0 \/ a \in addrs
      BY <3>1 DEF Own
    <3>3. a # 0 => a \notin freeparam(sp.p)
      <4>1. \A l : IsParam(sp, saved, m, l) /\ a = AddressIn(sp, saved, m, l) => a = 0 \/ i = m
        BY <3>1 DEF Own
      <4> HIDE DEF a
      <4> QED BY <1>6, <1>8, <2>2, <4>1
    <3> HIDE DEF a
    <3>4. a = 0 \/ a \in after
      BY <3>2, <3>3
    <3> QED BY <3>1, <3>4 DEF a
  <2> QED BY <2>1, <2>2
<1>12. ASSUME NEW a \in after PROVE \E i, k : IsParam(now, saved, i, k) /\ AddressIn(now, saved, i, k) = a
  <2>1. CASE a \in AddressesOf(now.p)
    BY <1>5, <1>6, <1>7, <2>1
  <2>2. CASE a \in addrs
    <3>1. PICK i, k : IsParam(sp, saved, i, k) /\ AddressIn(sp, saved, i, k) = a
      BY <2>2 DEF Own
    <3>2. a # 0
      BY <1>9, <1>10
    <3>3. i # m
      BY <1>6, <1>8, <3>1, <3>2
    <3> QED BY <1>5, <1>6, <3>1, <3>3
  <2> QED BY <2>1, <2>2
<1>13. ASSUME NEW i, NEW j, NEW k, NEW l, IsParam(now, saved, i, k), IsParam(now, saved, j, l),
              AddressIn(now, saved, i, k) = AddressIn(now, saved, j, l)
       PROVE  AddressIn(now, saved, i, k) = 0 \/ (i = j /\ k = l)
  <2>1. CASE i = m /\ j = m
    BY <1>5, <1>6, <1>13, <2>1
  <2>2. CASE i # m /\ j # m
    BY <1>5, <1>6, <1>13, <2>2 DEF Own
  <2>3. ASSUME NEW x, NEW y, NEW z, x # m, IsParam(now, saved, x, y), IsParam(now, saved, m, z),
               AddressIn(now, saved, x, y) = AddressIn(now, saved, m, z)
        PROVE  AddressIn(now, saved, x, y) = 0
    <3>1. IsParam(sp, saved, x, y) /\ AddressIn(now, saved, x, y) = AddressIn(sp, saved, x, y)
      BY <1>5, <1>6, <2>3
    <3>2. z \in 1..Len(now.p) /\ AddressIn(now, saved, m, z) = now.p[z].at
      BY <1>5, <1>6, <2>3
    <3>3. now.p[z].at \notin addrs
      BY <3>2
    <3>4. AddressIn(sp, saved, x, y) = 0 \/ AddressIn(sp, saved, x, y) \in addrs
      BY <3>1 DEF Own
    <3> QED BY <2>3, <3>1, <3>2, <3>3, <3>4
  <2> QED BY <1>13, <2>1, <2>2, <2>3
<1> HIDE DEF after
<1>14. Own(after, now, saved)
  BY <1>10, <1>11, <1>12, <1>13 DEF Own
<1> QED BY <1>14 DEF after

\* The first n parameters of the last list are freed.
LEMMA ShiftedOwn ==
  ASSUME NEW addrs, NEW sp, sp.p \in Seq(ParamType), NEW saved \in Seq(SavedParam), Own(addrs, sp, saved),
         NEW n \in Nat, n <= Len(sp.p), NEW now, now.p = SubSeq(sp.p, n + 1, Len(sp.p))
  PROVE  Own(addrs \ freeparam(SubSeq(sp.p, 1, n)), now, saved)
<1> DEFINE m == Len(saved) + 1
           first == SubSeq(sp.p, 1, n)
           rest == SubSeq(sp.p, n + 1, Len(sp.p))
           after == addrs \ freeparam(first)
<1>1. m \in Nat /\ Len(saved) \in Nat /\ Len(sp.p) \in Nat /\ n + 1 \in Nat \ {0} /\ 1 \in Nat \ {0}
      /\ Len(sp.p) <= Len(sp.p)
  OBVIOUS
<1>2. /\ first \in Seq(ParamType) /\ Len(first) = n
      /\ \A k \in 1..n : first[k] = sp.p[k]
  <2>1. /\ SubSeq(sp.p, 1, n) \in Seq(ParamType)
        /\ Len(SubSeq(sp.p, 1, n)) = IF 1 <= n THEN n - 1 + 1 ELSE 0
        /\ \A i \in 1..n - 1 + 1 : SubSeq(sp.p, 1, n)[i] = sp.p[1 + i - 1]
    BY <1>1, PartOfList
  <2>2. \A i \in 1..n : 1 + i - 1 = i /\ n - 1 + 1 = n
    OBVIOUS
  <2>3. (IF 1 <= n THEN n - 1 + 1 ELSE 0) = n
    OBVIOUS
  <2> QED BY <2>1, <2>2, <2>3
<1>3. /\ rest \in Seq(ParamType) /\ Len(rest) = Len(sp.p) - n
      /\ \A k \in 1..Len(sp.p) - n : rest[k] = sp.p[n + k]
  <2> DEFINE l == Len(sp.p)
  <2>1. /\ SubSeq(sp.p, n + 1, l) \in Seq(ParamType)
        /\ Len(SubSeq(sp.p, n + 1, l)) = IF n + 1 <= l THEN l - (n + 1) + 1 ELSE 0
        /\ \A i \in 1..l - (n + 1) + 1 : SubSeq(sp.p, n + 1, l)[i] = sp.p[(n + 1) + i - 1]
    BY <1>1, PartOfList
  <2>2. l \in Nat /\ n <= l
    BY <1>1
  <2> HIDE DEF l
  <2>3. \A i \in 1..l - n : (n + 1) + i - 1 = n + i
    BY <2>2
  <2>4. l - (n + 1) + 1 = l - n /\ (IF n + 1 <= l THEN l - (n + 1) + 1 ELSE 0) = l - n
    BY <2>2
  <2> QED BY <2>1, <2>3, <2>4 DEF l
<1>4. now.p = rest
  OBVIOUS
<1> HIDE DEF first, rest
<1>5. /\ \A i \in 1..Len(saved) : ListOf(now, saved, i) = ListOf(sp, saved, i)
      /\ ListOf(now, saved, m) = rest /\ ListOf(sp, saved, m) = sp.p
  BY <1>1, <1>4 DEF ListOf
<1>6. \A i : i \in 1..m <=> i \in 1..Len(saved) \/ i = m
  BY <1>1
<1>7. \A i : i \in 1..Len(saved) => i # m
  BY <1>1
<1> HIDE DEF m
\* Where a parameter was before.
<1> DEFINE Before(i, k) == IF i = m THEN n + k ELSE k
<1>8. ASSUME NEW i, NEW k, IsParam(now, saved, i, k)
      PROVE  /\ IsParam(sp, saved, i, Before(i, k))
             /\ AddressIn(now, saved, i, k) = AddressIn(sp, saved, i, Before(i, k))
             /\ i = m => k \in Nat \ {0}
  <2>1. CASE i = m
    <3>1. k \in 1..Len(sp.p) - n
      BY <1>3, <1>5, <1>8, <2>1 DEF IsParam
    <3>2. n + k \in 1..Len(sp.p)
      BY <1>1, <3>1
    <3>3. rest[k] = sp.p[n + k]
      BY <1>3, <3>1
    <3> QED BY <1>5, <1>6, <2>1, <3>1, <3>2, <3>3 DEF IsParam, AddressIn, m
  <2>2. CASE i # m
    BY <1>5, <1>6, <1>8, <2>2 DEF IsParam, AddressIn, m
  <2> QED BY <2>1, <2>2
<1>9. ASSUME NEW i, NEW k, IsParam(sp, saved, i, k), i = m => k > n
      PROVE  \E l : IsParam(now, saved, i, l) /\ Before(i, l) = k
  <2>1. CASE i = m
    <3>1. k \in 1..Len(sp.p) /\ k > n
      BY <1>5, <1>9, <2>1 DEF IsParam
    <3>2. k - n \in 1..Len(sp.p) - n /\ n + (k - n) = k
      BY <1>1, <3>1
    <3>3. IsParam(now, saved, i, k - n)
      BY <1>3, <1>5, <1>6, <2>1, <3>2 DEF IsParam, m
    <3> QED BY <2>1, <3>2, <3>3
  <2>2. CASE i # m
    <3>1. IsParam(now, saved, i, k)
      BY <1>5, <1>6, <1>9, <2>2 DEF IsParam, m
    <3> QED BY <2>2, <3>1
  <2> QED BY <2>1, <2>2
<1>10. \A a : a \in freeparam(first) <=> a # 0 /\ \E k \in 1..n : sp.p[k].at = a
  <2>1. \A a : a \in freeparam(first) <=> a # 0 /\ \E k \in 1..Len(first) : first[k].at = a
    BY <1>2, AddressesAre DEF freeparam
  <2> QED BY <1>2, <2>1
<1>11. \A k \in 1..n : IsParam(sp, saved, m, k) /\ AddressIn(sp, saved, m, k) = sp.p[k].at
  BY <1>1, <1>5, <1>6 DEF IsParam, AddressIn, m
<1>12. after \in SUBSET Addresses
  BY DEF Own
<1>13. ASSUME NEW i, NEW k, IsParam(now, saved, i, k)
       PROVE  AddressIn(now, saved, i, k) = 0 \/ AddressIn(now, saved, i, k) \in after
  <2> DEFINE b == Before(i, k)
             a == AddressIn(sp, saved, i, b)
  <2>1. IsParam(sp, saved, i, b) /\ AddressIn(now, saved, i, k) = a
    BY <1>8, <1>13
  <2>2. i = m => b > n
    BY <1>8, <1>13
  <2> HIDE DEF b
  <2>3. a = 0 \/ a \in addrs
    BY <2>1 DEF Own
  <2>4. \A l \in 1..n : a = AddressIn(sp, saved, m, l) => a = 0
    <3> TAKE l \in 1..n
    <3>1. a = AddressIn(sp, saved, m, l) => a = 0 \/ (i = m /\ b = l)
      BY <1>11, <2>1 DEF Own
    <3>2. i = m => b # l
      BY <2>2
    <3> HIDE DEF a
    <3> QED BY <3>1, <3>2
  <2> HIDE DEF a
  <2> QED BY <1>10, <1>11, <2>1, <2>3, <2>4
<1>14. ASSUME NEW a \in after PROVE \E i, k : IsParam(now, saved, i, k) /\ AddressIn(now, saved, i, k) = a
  <2>1. PICK i, k : IsParam(sp, saved, i, k) /\ AddressIn(sp, saved, i, k) = a
    BY DEF Own
  <2>2. a # 0
    <3>1. a \in Addresses
      BY <1>12
    <3> QED BY <3>1, OptionsAssumption
  <2>3. i = m => k > n
    <3>1. i = m => k \in 1..Len(sp.p)
      BY <1>5, <2>1 DEF IsParam
    <3>2. i = m => k \notin 1..n
      BY <1>10, <1>11, <2>1, <2>2
    <3> QED BY <1>1, <3>1, <3>2
  <2>4. PICK l : IsParam(now, saved, i, l) /\ Before(i, l) = k
    BY <1>9, <2>1, <2>3
  <2> QED BY <1>8, <2>1, <2>4
<1>15. ASSUME NEW i, NEW j, NEW k, NEW l, IsParam(now, saved, i, k), IsParam(now, saved, j, l),
              AddressIn(now, saved, i, k) = AddressIn(now, saved, j, l)
       PROVE  AddressIn(now, saved, i, k) = 0 \/ (i = j /\ k = l)
  <2> DEFINE b == Before(i, k)
             d == Before(j, l)
  <2>1. /\ IsParam(sp, saved, i, b) /\ AddressIn(now, saved, i, k) = AddressIn(sp, saved, i, b)
        /\ IsParam(sp, saved, j, d) /\ AddressIn(now, saved, j, l) = AddressIn(sp, saved, j, d)
    BY <1>8, <1>15
  <2>2. i = j /\ b = d => k = l
    <3>1. i = m => k \in Nat
      BY <1>8, <1>15
    <3>2. j = m => l \in Nat
      BY <1>8, <1>15
    <3>3. CASE i = m
      <4>1. j = m => b = n + k /\ d = n + l
        BY <3>3
      <4> QED BY <3>1, <3>2, <3>3, <4>1
    <3>4. CASE i # m
      <4>1. b = k
        BY <3>4
      <4>2. j # m => d = l
        OBVIOUS
      <4> QED BY <3>4, <4>1, <4>2
    <3> QED BY <3>3, <3>4
  <2> HIDE DEF b, d
  <2>3. AddressIn(sp, saved, i, b) = 0 \/ (i = j /\ b = d)
    <3>1. AddressIn(sp, saved, i, b) = AddressIn(sp, saved, j, d)
      BY <1>15, <2>1
    <3>2. \A x, y, u, v : IsParam(sp, saved, x, u) /\ IsParam(sp, saved, y, v)
             /\ AddressIn(sp, saved, x, u) = AddressIn(sp, saved, y, v)
             => AddressIn(sp, saved, x, u) = 0 \/ (x = y /\ u = v)
      BY DEF Own
    <3> QED BY <2>1, <3>1, <3>2
  <2> QED BY <2>1, <2>2, <2>3
<1> HIDE DEF after
<1>16. Own(after, now, saved)
  BY <1>12, <1>13, <1>14, <1>15 DEF Own
<1> QED BY <1>16 DEF after, first

\* A function begins: the last list is kept, and the new one is on the stack.
LEMMA BegunOwn ==
  ASSUME NEW addrs, NEW sp, sp.p \in Seq(ParamType), NEW saved \in Seq(SavedParam), Own(addrs, sp, saved),
         NEW co, NEW now, now.p \in Seq(ParamType), \A k \in 1..Len(now.p) : now.p[k].at = 0,
         [param |-> sp, course |-> co] \in SavedParam
  PROVE  Own(addrs, now, Append(saved, [param |-> sp, course |-> co]))
<1> DEFINE m == Len(saved) + 1
           last == [param |-> sp, course |-> co]
           new == Append(saved, last)
<1>1. m \in Nat \ {0} /\ Len(saved) \in Nat
  OBVIOUS
<1>2. last.param = sp
  OBVIOUS
<1>3. /\ Len(new) = m /\ new[m] = last
      /\ \A i \in 1..Len(saved) : new[i] = saved[i]
  <2> HIDE DEF last
  <2> QED BY AppendProperties
<1> HIDE DEF last, new
<1>4. ASSUME NEW i \in 1..m PROVE ListOf(now, new, i) = ListOf(sp, saved, i)
  <2>1. CASE i = m
    <3>1. i <= Len(new) /\ ~(i <= Len(saved))
      BY <1>1, <1>3, <2>1
    <3> QED BY <1>2, <1>3, <2>1, <3>1 DEF ListOf
  <2>2. CASE i # m
    <3>1. i <= Len(new) /\ i <= Len(saved) /\ i \in 1..Len(saved)
      BY <1>1, <1>3, <2>2
    <3> QED BY <1>3, <3>1 DEF ListOf
  <2> QED BY <2>1, <2>2
<1>5. ListOf(now, new, m + 1) = now.p
  <2>1. ~(m + 1 <= Len(new))
    BY <1>1, <1>3
  <2> QED BY <2>1 DEF ListOf
<1>6. \A i : i \in 1..Len(new) + 1 <=> i \in 1..m \/ i = m + 1
  BY <1>1, <1>3
<1>7. \A i, k : IsParam(sp, saved, i, k) <=> i \in 1..m /\ k \in 1..Len(ListOf(sp, saved, i))
  BY DEF IsParam
<1> HIDE DEF m
<1>8. \A i, k : IsParam(sp, saved, i, k) =>
        IsParam(now, new, i, k) /\ AddressIn(now, new, i, k) = AddressIn(sp, saved, i, k)
  BY <1>4, <1>6, <1>7 DEF IsParam, AddressIn
<1>9. ASSUME NEW i, NEW k, IsParam(now, new, i, k)
      PROVE  IsParam(sp, saved, i, k) \/ AddressIn(now, new, i, k) = 0
  <2>1. i \in 1..m \/ i = m + 1
    BY <1>6, <1>9 DEF IsParam
  <2>2. CASE i = m + 1
    <3>1. k \in 1..Len(now.p)
      BY <1>5, <1>9, <2>2 DEF IsParam
    <3> QED BY <1>5, <2>2, <3>1 DEF AddressIn
  <2>3. CASE i \in 1..m
    BY <1>4, <1>7, <1>9, <2>3 DEF IsParam
  <2> QED BY <2>1, <2>2, <2>3
<1>10. \A i, j, k, l :
       /\ IsParam(sp, saved, i, k) /\ IsParam(sp, saved, j, l)
       /\ AddressIn(sp, saved, i, k) = AddressIn(sp, saved, j, l)
       => AddressIn(sp, saved, i, k) = 0 \/ (i = j /\ k = l)
  BY DEF Own
<1>11. \A i, j, k, l :
       /\ IsParam(now, new, i, k) /\ IsParam(now, new, j, l)
       /\ AddressIn(now, new, i, k) = AddressIn(now, new, j, l)
       => AddressIn(now, new, i, k) = 0 \/ (i = j /\ k = l)
  BY <1>8, <1>9, <1>10
<1>12. \A i, k : IsParam(now, new, i, k) =>
        AddressIn(now, new, i, k) = 0 \/ AddressIn(now, new, i, k) \in addrs
  BY <1>8, <1>9 DEF Own
<1>13. \A a \in addrs : \E i, k : IsParam(now, new, i, k) /\ AddressIn(now, new, i, k) = a
  BY <1>8 DEF Own
<1>14. Own(addrs, now, new)
  BY <1>11, <1>12, <1>13 DEF Own
<1> QED BY <1>14 DEF new, last

\* A function ends: the last list is freed, and the one before is the last again.
LEMMA EndedOwn ==
  ASSUME NEW addrs, NEW sp, sp.p \in Seq(ParamType), NEW saved \in Seq(SavedParam), Own(addrs, sp, saved),
         saved # <<>>
  PROVE  Own(addrs \ freeparam(sp.p), Last(saved).param, Front(saved))
<1> DEFINE m == Len(saved) + 1
           n == Len(saved)
           now == Last(saved).param
           new == Front(saved)
           after == addrs \ freeparam(sp.p)
<1>1. n \in Nat \ {0} /\ n - 1 \in Nat /\ n - 1 <= n /\ 1 \in Nat \ {0}
  OBVIOUS
<1>2. Len(new) = n - 1 /\ \A i \in 1..n - 1 : new[i] = saved[i]
  <2> DEFINE b == n - 1
  <2>1. b \in Nat /\ b <= Len(saved)
    BY <1>1
  <2> HIDE DEF b
  <2>2. /\ Len(SubSeq(saved, 1, b)) = IF 1 <= b THEN b - 1 + 1 ELSE 0
        /\ \A i \in 1..b - 1 + 1 : SubSeq(saved, 1, b)[i] = saved[1 + i - 1]
    BY <1>1, <2>1, PartOfList
  <2>3. (IF 1 <= b THEN b - 1 + 1 ELSE 0) = b /\ b - 1 + 1 = b /\ \A i \in 1..b : 1 + i - 1 = i
    BY <2>1
  <2>4. new = SubSeq(saved, 1, n - 1)
    BY DEF Front
  <2> HIDE DEF n, new
  <2> QED BY <2>2, <2>3, <2>4 DEF b
<1>3. now = saved[n].param
  BY DEF Last
<1> HIDE DEF now, new
<1>4. ASSUME NEW i \in 1..n PROVE ListOf(now, new, i) = ListOf(sp, saved, i)
  <2>1. i <= n /\ i \in Nat
    BY <1>1
  <2>2. CASE i = n
    <3>1. ~(i <= Len(new)) /\ i <= Len(saved)
      BY <1>1, <1>2, <2>2
    <3> QED BY <1>3, <2>2, <3>1 DEF ListOf
  <2>3. CASE i # n
    <3>1. i <= Len(new) /\ i <= Len(saved) /\ i \in 1..n - 1
      BY <1>1, <1>2, <2>3
    <3> QED BY <1>2, <3>1 DEF ListOf
  <2> QED BY <2>2, <2>3
<1>5. ListOf(sp, saved, m) = sp.p
  <2>1. ~(m <= Len(saved))
    BY <1>1
  <2> QED BY <2>1 DEF ListOf
<1>6. /\ \A i : i \in 1..Len(new) + 1 <=> i \in 1..n
      /\ \A i : i \in 1..Len(saved) + 1 <=> i \in 1..n \/ i = m
      /\ \A i \in 1..n : i # m
  BY <1>1, <1>2
<1> HIDE DEF n, m
<1>7. \A i, k : IsParam(now, new, i, k) <=> IsParam(sp, saved, i, k) /\ i # m
  BY <1>4, <1>6 DEF IsParam
<1>8. \A i, k : IsParam(now, new, i, k) => AddressIn(now, new, i, k) = AddressIn(sp, saved, i, k)
  BY <1>4, <1>6 DEF IsParam, AddressIn
<1>9. \A k : /\ IsParam(sp, saved, m, k) <=> k \in 1..Len(sp.p)
             /\ AddressIn(sp, saved, m, k) = sp.p[k].at
  BY <1>5, <1>6 DEF IsParam, AddressIn
<1>10. \A a : a \in freeparam(sp.p) <=> a # 0 /\ \E k \in 1..Len(sp.p) : sp.p[k].at = a
  BY AddressesAre DEF freeparam
<1>11. after \in SUBSET Addresses /\ 0 \notin Addresses
  BY OptionsAssumption DEF Own
<1>12. \A i, j, k, l :
       /\ IsParam(sp, saved, i, k) /\ IsParam(sp, saved, j, l)
       /\ AddressIn(sp, saved, i, k) = AddressIn(sp, saved, j, l)
       => AddressIn(sp, saved, i, k) = 0 \/ (i = j /\ k = l)
  BY DEF Own
<1>13. \A i, j, k, l :
       /\ IsParam(now, new, i, k) /\ IsParam(now, new, j, l)
       /\ AddressIn(now, new, i, k) = AddressIn(now, new, j, l)
       => AddressIn(now, new, i, k) = 0 \/ (i = j /\ k = l)
  BY <1>7, <1>8, <1>12
<1>14. ASSUME NEW i, NEW k, IsParam(now, new, i, k)
       PROVE  AddressIn(now, new, i, k) = 0 \/ AddressIn(now, new, i, k) \in after
  <2> DEFINE a == AddressIn(sp, saved, i, k)
  <2>1. IsParam(sp, saved, i, k) /\ i # m /\ AddressIn(now, new, i, k) = a
    BY <1>7, <1>8, <1>14
  <2>2. a = 0 \/ a \in addrs
    BY <2>1 DEF Own
  <2>3. \A l : IsParam(sp, saved, m, l) /\ a = AddressIn(sp, saved, m, l) => a = 0
    BY <1>12, <2>1
  <2> HIDE DEF a
  <2> QED BY <1>9, <1>10, <2>1, <2>2, <2>3
<1>15. ASSUME NEW a \in after PROVE \E i, k : IsParam(now, new, i, k) /\ AddressIn(now, new, i, k) = a
  <2>1. PICK i, k : IsParam(sp, saved, i, k) /\ AddressIn(sp, saved, i, k) = a
    BY DEF Own
  <2>2. a # 0 /\ a \notin freeparam(sp.p)
    BY <1>11
  <2>3. i # m
    BY <1>9, <1>10, <2>1, <2>2
  <2> QED BY <1>7, <1>8, <2>1, <2>3
<1> HIDE DEF after
<1>16. Own(after, now, new)
  BY <1>11, <1>13, <1>14, <1>15 DEF Own
<1> QED BY <1>16 DEF after, now, new

\* What SetToSeq makes of a finite set: every element once.
LEMMA FreeIs ==
  ASSUME NEW S, IsFiniteSet(S)
  PROVE  /\ Cardinality(S) \in Nat
         /\ \A i \in 1..Cardinality(S) : SetToSeq(S)[i] \in S
         /\ \A i, j \in 1..Cardinality(S) : SetToSeq(S)[i] = SetToSeq(S)[j] => i = j
<1> DEFINE Q(f) == f \in [1..Cardinality(S) -> S] /\ \A a, b \in DOMAIN f : f[a] = f[b] => a = b
<1>1. Cardinality(S) \in Nat /\ ExistsBijection(1..Cardinality(S), S)
  BY FS_CardinalityType
<1>2. \E f : Q(f)
  BY <1>1 DEF ExistsBijection, Bijection, Injection, IsInjective
<1>3. SetToSeq(S) = CHOOSE f \in [1..Cardinality(S) -> S] : IsInjective(f)
  BY DEF SetToSeq
<1>4. \E f \in [1..Cardinality(S) -> S] : IsInjective(f)
  BY <1>2 DEF IsInjective
<1>5. Q(SetToSeq(S))
  BY <1>3, <1>4 DEF IsInjective
<1> HIDE DEF Q
<1> DEFINE s == SetToSeq(S)
<1>6. s \in [1..Cardinality(S) -> S] /\ \A a, b \in DOMAIN s : s[a] = s[b] => a = b
  BY <1>5 DEF Q
<1> HIDE DEF s
<1>7. DOMAIN s = 1..Cardinality(S)
  BY <1>6
<1> QED BY <1>1, <1>6, <1>7 DEF s

LEMMA OwnSame ==
  ASSUME NEW addrs, NEW sp, NEW now, now.p = sp.p, NEW saved, Own(addrs, sp, saved)
  PROVE  Own(addrs, now, saved)
<1>1. \A i : ListOf(now, saved, i) = ListOf(sp, saved, i)
  BY DEF ListOf
<1>2. \A i, k : /\ IsParam(now, saved, i, k) <=> IsParam(sp, saved, i, k)
                /\ AddressIn(now, saved, i, k) = AddressIn(sp, saved, i, k)
  BY <1>1 DEF IsParam, AddressIn
<1> QED BY <1>2 DEF Own

\* The invariant after a step that says nothing and leaves the options.
LEMMA SilentStep ==
  ASSUME OptionsInv, shellparam' \in PlaceType, course' \in CourseType, saveparam' \in Seq(SavedParam),
         OnCourse(shellparam', course'),
         \A i \in 1..Len(saveparam') : OnCourse(saveparam'[i].param, saveparam'[i].course),
         Own(addresses', shellparam', saveparam'),
         UNCHANGED <<optlist, controls_jobs, refused>>, said' = Nothing
  PROVE  OptionsInv'
<1>1. GetoptsRight'
  BY DEF GetoptsRight
<1>2. controls_jobs' \in BOOLEAN /\ JobControlFollows'
  BY DEF OptionsInv, JobControlFollows
<1> QED BY <1>1, <1>2 DEF OptionsInv

\* The new parameters of set.
LEMMA setparamKeeps ==
  ASSUME OptionsInv, NEW list \in Seq(Word), RoomFor(list), setparam(list), UNCHANGED saveparam
  PROVE  /\ shellparam' \in PlaceType /\ course' \in CourseType
         /\ OnCourse(shellparam', course') /\ Own(addresses', shellparam', saveparam')
<1> DEFINE S == Addresses \ addresses
           free == SetToSeq(S)
           Given1(i) == [word |-> list[i], at |-> free[i]]
           new == [i \in DOMAIN list |-> Given1(i)]
<1>1. IsFiniteSet(S)
  <2>1. IsFiniteSet(Addresses)
    BY OptionsAssumption
  <2> QED BY <2>1, FS_Difference
<1>2. /\ Cardinality(S) \in Nat
      /\ \A i \in 1..Cardinality(S) : free[i] \in S
      /\ \A i, j \in 1..Cardinality(S) : free[i] = free[j] => i = j
  <2> HIDE DEF S
  <2> QED BY <1>1, FreeIs
<1>3. Len(list) \in Nat /\ DOMAIN list = 1..Len(list) /\ Len(list) <= Cardinality(S)
  BY DEF RoomFor
<1>4. S \subseteq Nat
  BY OptionsAssumption
<1>5. shellparam' = Param(new) /\ addresses' = (addresses \cup AddressesOf(new)) \ freeparam(shellparam.p)
      /\ course' = NewCourse
  BY DEF setparam
<1> HIDE DEF free, S
<1>6. ASSUME NEW i \in 1..Len(list)
      PROVE  Given1(i) \in ParamType /\ Given1(i).at = free[i] /\ i \in 1..Cardinality(S)
  <2>1. i \in 1..Cardinality(S)
    BY <1>2, <1>3
  <2>2. free[i] \in Nat /\ list[i] \in Word
    <3>1. i \in DOMAIN list
      BY <1>3
    <3>2. list[i] \in Word
      BY <3>1
    <3> QED BY <1>2, <1>4, <2>1, <3>2
  <2> QED BY <2>1, <2>2 DEF ParamType
<1> HIDE DEF Given1
<1>7. new \in [1..Len(list) -> ParamType] /\ \A i \in 1..Len(list) : new[i] = Given1(i)
  BY <1>3, <1>6
<1> HIDE DEF new
<1>8. new \in Seq(ParamType) /\ Len(new) = Len(list)
  <2>1. new \in Seq(ParamType)
    BY <1>3, <1>7
  <2> QED BY <1>3, <1>7, <2>1
<1>9. /\ \A k \in 1..Len(new) : new[k].at \in S
      /\ \A k, l \in 1..Len(new) : new[k].at = new[l].at => k = l
  BY <1>2, <1>6, <1>7, <1>8
<1>10. /\ Param(new) \in PlaceType /\ Param(new).p = new
       /\ NewCourse \in CourseType /\ OnCourse(Param(new), NewCourse)
  BY <1>8, ParamIs
<1>11. shellparam.p \in Seq(ParamType) /\ saveparam \in Seq(SavedParam) /\ Own(addresses, shellparam, saveparam)
  BY DEF OptionsInv, PlaceType
<1>12. Own((addresses \cup AddressesOf(Param(new).p)) \ freeparam(shellparam.p), Param(new), saveparam)
  <2> DEFINE now == Param(new)
  <2>1. now.p \in Seq(ParamType) /\ now.p = new
    BY <1>8, <1>10
  <2>2. /\ \A k \in 1..Len(now.p) : now.p[k].at \in Addresses \ addresses
        /\ \A k, l \in 1..Len(now.p) : now.p[k].at = now.p[l].at => k = l
    BY <1>9, <2>1 DEF S
  <2> HIDE DEF now
  <2>3. Own((addresses \cup AddressesOf(now.p)) \ freeparam(shellparam.p), now, saveparam)
    BY <1>11, <2>1, <2>2, ReplacedOwn
  <2> QED BY <2>3 DEF now
<1> QED BY <1>5, <1>10, <1>12

LEMMA setcmdKeeps ==
  ASSUME OptionsInv, NEW list \in Lists, NEW tty \in BOOLEAN, setcmd(list, tty)
  PROVE  OptionsInv'
<1> DEFINE n == OptionWords(list)
           operands == SubSeq(list, n + 1, Len(list))
           on == After(list, n, optlist)
           controls == tty \/ controls_jobs
<1>1. list \in Seq(Word) /\ Len(list) \in Nat /\ n \in 0..Len(list) /\ n + 1 \in Nat \ {0}
  <2>1. list \in Seq(Word)
    BY OptionsAssumption DEF Word
  <2> QED BY <2>1, OptionWordsAre
<1>2. said' = Nothing /\ saveparam' = saveparam
  BY DEF setcmd
<1>3. GetoptsRight'
  BY <1>2 DEF GetoptsRight
<1>4. RoomFor(list)
  BY DEF setcmd
<1>5. /\ shellparam \in PlaceType /\ course \in CourseType /\ OnCourse(shellparam, course)
      /\ Own(addresses, shellparam, saveparam)
  BY DEF OptionsInv
<1>6. saveparam' \in Seq(SavedParam)
      /\ \A i \in 1..Len(saveparam') : OnCourse(saveparam'[i].param, saveparam'[i].course)
  BY <1>2 DEF OptionsInv
<1>7. CASE Refused(list) # {}
  <2>1. refused' = TRUE /\ shellparam' = shellparam /\ addresses' = addresses /\ controls_jobs' = controls_jobs
        /\ course' = course
    BY <1>7 DEF setcmd
  <2>2. controls_jobs' \in BOOLEAN /\ JobControlFollows'
    BY <2>1 DEF OptionsInv, JobControlFollows
  <2> QED BY <1>2, <1>3, <1>5, <1>6, <2>1, <2>2 DEF OptionsInv
<1>8. CASE Refused(list) = {}
  <2>1. /\ optlist' = SettledOn(on, controls)
        /\ controls_jobs' = ("m" \in on /\ controls)
        /\ \/ setparam(operands)
           \/ UNCHANGED <<shellparam, addresses, course>>
    BY <1>8 DEF setcmd
  <2>2. controls_jobs' \in BOOLEAN /\ JobControlFollows'
    <3> HIDE DEF on, controls
    <3>1. controls_jobs' \in BOOLEAN /\ (controls_jobs' <=> "m" \in on /\ controls)
      BY <2>1
    <3>2. "m" \in optlist' <=> "m" \in on /\ controls
      BY <2>1 DEF SettledOn
    <3> QED BY <3>1, <3>2 DEF JobControlFollows
  <2>3. /\ shellparam' \in PlaceType /\ course' \in CourseType
        /\ OnCourse(shellparam', course') /\ Own(addresses', shellparam', saveparam')
    <3>1. CASE setparam(operands)
      <4> HIDE DEF n
      <4>1. operands \in Seq(Word) /\ Len(operands) <= Len(list)
        <5>1. /\ operands \in Seq(Word)
              /\ Len(operands) = IF n + 1 <= Len(list) THEN Len(list) - (n + 1) + 1 ELSE 0
          BY <1>1, PartOfList
        <5> HIDE DEF operands
        <5>2. (IF n + 1 <= Len(list) THEN Len(list) - (n + 1) + 1 ELSE 0) <= Len(list)
          BY <1>1
        <5> QED BY <5>1, <5>2
      <4>2. RoomFor(operands)
        <5>1. IsFiniteSet(Addresses \ addresses)
          BY OptionsAssumption, FS_Difference
        <5>2. Cardinality(Addresses \ addresses) \in Nat
          BY <5>1, FS_CardinalityType
        <5>3. Len(operands) \in Nat
          BY <4>1
        <5> HIDE DEF operands
        <5> QED BY <1>1, <1>4, <4>1, <5>2, <5>3 DEF RoomFor
      <4> HIDE DEF operands
      <4> QED BY <1>2, <3>1, <4>1, <4>2, setparamKeeps
    <3>2. CASE UNCHANGED <<shellparam, addresses, course>>
      BY <1>2, <1>5, <3>2
    <3> QED BY <2>1, <3>1, <3>2
  <2> QED BY <1>3, <1>6, <2>2, <2>3 DEF OptionsInv
<1> QED BY <1>7, <1>8

LEMMA shiftcmdKeeps ==
  ASSUME OptionsInv, NEW n \in 0..2, shiftcmd(n)
  PROVE  OptionsInv'
<1> DEFINE p == shellparam.p
           rest == SubSeq(p, n + 1, Len(p))
<1>1. p \in Seq(ParamType) /\ saveparam \in Seq(SavedParam) /\ Own(addresses, shellparam, saveparam)
  BY DEF OptionsInv, PlaceType
<1>2. n \in Nat /\ n + 1 \in Nat \ {0} /\ n <= Len(p) /\ Len(p) \in Nat /\ Len(p) <= Len(p)
  BY <1>1 DEF shiftcmd
<1>3. rest \in Seq(ParamType)
  <2> HIDE DEF p
  <2> QED BY <1>1, <1>2, PartOfList
<1>4. /\ addresses' = addresses \ freeparam(SubSeq(p, 1, n))
      /\ shellparam' = Param(rest) /\ course' = NewCourse /\ said' = Nothing
      /\ UNCHANGED <<saveparam, optlist, controls_jobs, refused>>
  BY DEF shiftcmd, ShiftFrees
<1>5. /\ Param(rest) \in PlaceType /\ Param(rest).p = rest
      /\ NewCourse \in CourseType /\ OnCourse(Param(rest), NewCourse)
  <2> HIDE DEF rest
  <2> QED BY <1>3, ParamIs
<1>6. Own(addresses', shellparam', saveparam')
  <2>1. shellparam'.p = SubSeq(shellparam.p, n + 1, Len(shellparam.p))
    BY <1>4, <1>5
  <2>2. Own(addresses \ freeparam(SubSeq(shellparam.p, 1, n)), shellparam', saveparam)
    BY <1>1, <1>2, <2>1, ShiftedOwn
  <2> QED BY <1>4, <2>2
<1> HIDE DEF rest, p
<1>7. saveparam' \in Seq(SavedParam)
      /\ \A i \in 1..Len(saveparam') : OnCourse(saveparam'[i].param, saveparam'[i].course)
  BY <1>4 DEF OptionsInv
<1> QED BY <1>4, <1>5, <1>6, <1>7, SilentStep

\* getopts's place is another one.
MovedTo(sp, i, o) == [sp EXCEPT !.optind = i, !.optoff = o]

LEMMA MovedIs ==
  ASSUME NEW sp \in PlaceType, NEW i \in Int, NEW o \in Int
  PROVE  /\ MovedTo(sp, i, o).p = sp.p /\ MovedTo(sp, i, o).optind = i /\ MovedTo(sp, i, o).optoff = o
         /\ MovedTo(sp, i, o) \in PlaceType
BY DEF PlaceType, MovedTo

LEMMA resetKeeps ==
  ASSUME OptionsInv, NEW value \in 0..2, getoptsreset(value)
  PROVE  OptionsInv'
<1> DEFINE v == IF value = 0 THEN 1 ELSE value
           now == MovedTo(shellparam, v, -1)
<1>1. /\ shellparam' = now /\ course' = (IF value <= 1 THEN NewCourse ELSE OtherCourse)
      /\ said' = Nothing /\ UNCHANGED <<saveparam, optlist, controls_jobs, addresses, refused>>
  BY DEF getoptsreset, MovedTo
<1>2. shellparam \in PlaceType /\ saveparam \in Seq(SavedParam) /\ Own(addresses, shellparam, saveparam)
  BY DEF OptionsInv
<1>3. now.p = shellparam.p /\ now.optind = v /\ now \in PlaceType
  <2>1. v \in Int /\ -1 \in Int
    OBVIOUS
  <2> HIDE DEF v
  <2> QED BY <1>2, <2>1, MovedIs
<1> HIDE DEF now
<1>4. now.optind \in Nat \ {0} /\ (value <= 1 => now.optind = 1)
  BY <1>3
<1>5. /\ NewCourse \in CourseType /\ OtherCourse \in CourseType /\ OtherCourse.calls = -1
      /\ NewCourse.calls = 0
  <2>1. <<>> \in Seq(ParamType)
    OBVIOUS
  <2> QED BY <2>1, ParamIs
<1>6. course' \in CourseType /\ OnCourse(now, course')
  <2>1. CASE value <= 1
    BY <1>1, <1>4, <1>5, <2>1 DEF OnCourse
  <2>2. CASE ~(value <= 1)
    BY <1>1, <1>4, <1>5, <2>2 DEF OnCourse
  <2> QED BY <2>1, <2>2
<1>7. Own(addresses', now, saveparam')
  BY <1>1, <1>2, <1>3, OwnSame
<1>8. saveparam' \in Seq(SavedParam)
      /\ \A i \in 1..Len(saveparam') : OnCourse(saveparam'[i].param, saveparam'[i].course)
  BY <1>1 DEF OptionsInv
<1> QED BY <1>1, <1>3, <1>6, <1>7, <1>8, SilentStep

LEMMA failsKeeps ==
  ASSUME OptionsInv, NEW list, NEW silent, getopts_fails(list, silent)
  PROVE  OptionsInv'
<1> DEFINE now == [shellparam EXCEPT !.optind = -1]
<1>1. /\ shellparam' = now /\ course' = NewCourse
      /\ said' = Nothing /\ UNCHANGED <<saveparam, optlist, controls_jobs, addresses, refused>>
  BY DEF getopts_fails
<1>2. shellparam \in PlaceType /\ saveparam \in Seq(SavedParam) /\ Own(addresses, shellparam, saveparam)
  BY DEF OptionsInv
<1>3. now.p = shellparam.p /\ now.optind = -1 /\ now \in PlaceType
  BY <1>2 DEF PlaceType
<1> HIDE DEF now
<1>4. NewCourse \in CourseType /\ NewCourse.calls = 0
  <2>1. <<>> \in Seq(ParamType)
    OBVIOUS
  <2> QED BY <2>1, ParamIs
<1>5. OnCourse(now, NewCourse)
  BY <1>3, <1>4 DEF OnCourse
<1>6. Own(addresses', now, saveparam')
  BY <1>1, <1>2, <1>3, OwnSame
<1>7. saveparam' \in Seq(SavedParam)
      /\ \A i \in 1..Len(saveparam') : OnCourse(saveparam'[i].param, saveparam'[i].course)
  BY <1>1 DEF OptionsInv
<1> QED BY <1>1, <1>3, <1>4, <1>5, <1>6, <1>7, SilentStep

LEMMA beginsKeeps ==
  ASSUME OptionsInv, NEW list \in Seq(Word), function_begins(list)
  PROVE  OptionsInv'
<1> DEFINE last == [param |-> shellparam, course |-> course]
           p == OnStack(list)
           now == Param(p)
<1>1. /\ saveparam' = Append(saveparam, last)
      /\ shellparam' = now /\ course' = NewCourse
      /\ said' = Nothing /\ UNCHANGED <<optlist, controls_jobs, addresses, refused>>
  BY DEF function_begins
<1>2. /\ shellparam \in PlaceType /\ shellparam.p \in Seq(ParamType) /\ course \in CourseType
      /\ saveparam \in Seq(SavedParam) /\ Own(addresses, shellparam, saveparam)
      /\ OnCourse(shellparam, course)
      /\ \A i \in 1..Len(saveparam) : OnCourse(saveparam[i].param, saveparam[i].course)
  BY DEF OptionsInv, PlaceType
<1>3. p \in Seq(ParamType) /\ \A k \in 1..Len(p) : p[k].at = 0
  BY OnStackAre
<1> HIDE DEF p
<1>4. now \in PlaceType /\ now.p = p /\ NewCourse \in CourseType /\ OnCourse(now, NewCourse)
  BY <1>3, ParamIs
<1> HIDE DEF now
<1>5. last \in SavedParam /\ last.param = shellparam /\ last.course = course
  BY <1>2 DEF SavedParam
<1>6. Own(addresses, now, Append(saveparam, last))
  BY <1>2, <1>3, <1>4, <1>5, BegunOwn
<1> HIDE DEF last
<1>7. /\ saveparam' \in Seq(SavedParam) /\ Len(saveparam') = Len(saveparam) + 1 /\ Len(saveparam) \in Nat
      /\ saveparam'[Len(saveparam) + 1] = last
      /\ \A i \in 1..Len(saveparam) : saveparam'[i] = saveparam[i]
  BY <1>1, <1>2, <1>5, AppendProperties
<1>8. ASSUME NEW i \in 1..Len(saveparam') PROVE OnCourse(saveparam'[i].param, saveparam'[i].course)
  <2>1. CASE i = Len(saveparam) + 1
    BY <1>2, <1>5, <1>7, <2>1
  <2>2. CASE i # Len(saveparam) + 1
    <3>1. i \in 1..Len(saveparam)
      BY <1>7, <2>2
    <3> QED BY <1>2, <1>7, <3>1
  <2> QED BY <2>1, <2>2
<1>9. Own(addresses', shellparam', saveparam')
  BY <1>1, <1>6
<1> QED BY <1>1, <1>4, <1>7, <1>8, <1>9, SilentStep

LEMMA endsKeeps ==
  ASSUME OptionsInv, function_ends
  PROVE  OptionsInv'
<1> DEFINE last == Last(saveparam)
           n == Len(saveparam)
<1>1. /\ saveparam # <<>> /\ shellparam' = last.param /\ course' = last.course
      /\ addresses' = addresses \ freeparam(shellparam.p)
      /\ saveparam' = Front(saveparam) /\ said' = Nothing
      /\ UNCHANGED <<optlist, controls_jobs, refused>>
  BY DEF function_ends, Restored_param
<1>2. /\ shellparam.p \in Seq(ParamType) /\ saveparam \in Seq(SavedParam)
      /\ Own(addresses, shellparam, saveparam)
      /\ \A i \in 1..Len(saveparam) : OnCourse(saveparam[i].param, saveparam[i].course)
  BY DEF OptionsInv, PlaceType
<1>3. n \in Nat \ {0} /\ n \in 1..n
  BY <1>1, <1>2
<1>4. last = saveparam[n] /\ last \in SavedParam
  BY <1>2, <1>3 DEF Last
<1>5. last.param \in PlaceType /\ last.course \in CourseType /\ OnCourse(last.param, last.course)
  <2>1. last.param \in PlaceType /\ last.course \in CourseType
    <3> HIDE DEF last
    <3> QED BY <1>4 DEF SavedParam
  <2> QED BY <1>2, <1>3, <1>4, <2>1
<1>6. Own(addresses', shellparam', saveparam')
  <2>1. Own(addresses \ freeparam(shellparam.p), Last(saveparam).param, Front(saveparam))
    BY <1>1, <1>2, EndedOwn
  <2> QED BY <1>1, <2>1
<1>7. /\ saveparam' \in Seq(SavedParam)
      /\ \A i \in 1..Len(saveparam') : i \in 1..n /\ saveparam'[i] = saveparam[i]
  <2> DEFINE b == n - 1
             f == SubSeq(saveparam, 1, b)
  <2>1. b \in Nat /\ b <= Len(saveparam) /\ 1 \in Nat \ {0}
    BY <1>3
  <2>2. saveparam' = f
    BY <1>1 DEF Front
  <2> HIDE DEF b
  <2>3. /\ f \in Seq(SavedParam) /\ Len(f) = IF 1 <= b THEN b - 1 + 1 ELSE 0
        /\ \A i \in 1..b - 1 + 1 : f[i] = saveparam[1 + i - 1]
    BY <1>2, <2>1, PartOfList
  <2>4. (IF 1 <= b THEN b - 1 + 1 ELSE 0) = b /\ b - 1 + 1 = b /\ \A i \in 1..b : 1 + i - 1 = i
    BY <2>1
  <2>5. \A i \in 1..b : i \in 1..n
    BY <2>1
  <2> HIDE DEF f, n
  <2> QED BY <2>2, <2>3, <2>4, <2>5
<1>8. \A i \in 1..Len(saveparam') : OnCourse(saveparam'[i].param, saveparam'[i].course)
  <2> HIDE DEF last
  <2> QED BY <1>2, <1>7
<1> HIDE DEF last
<1> QED BY <1>1, <1>5, <1>6, <1>7, <1>8, SilentStep

\* A call that goes on with the course of given.
LEMMA AlikeGives ==
  ASSUME OptionsInv, NEW list \in Seq(Word), NEW silent \in BOOLEAN, Alike(list, silent)
  PROVE  LET res == getopts(list, silent, shellparam.optind, shellparam.optoff)
         IN /\ course.calls \in Nat /\ res.done \in BOOLEAN
            /\ \E g : /\ ReadsBy(g, list, silent)
                      /\ \/ Says(res, list, silent, g, course.calls + 1)
                         \/ Ends(res, list, silent, course.calls + 1)
<1> DEFINE res == getopts(list, silent, shellparam.optind, shellparam.optoff)
<1>1. shellparam \in PlaceType /\ course \in CourseType /\ OnCourse(shellparam, course)
  BY DEF OptionsInv
<1>2. course.calls \in Int /\ shellparam.optind \in Int /\ shellparam.optoff \in Int
  BY <1>1 DEF CourseType, PlaceType
<1>3. CASE course.calls = 0
  <2> DEFINE first == getopts(list, silent, 1, -1)
  <2>1. PICK g : ReadsBy(g, list, silent)
    BY ReadSteps
  <2>2. AtPlace(g, list, 1, -1, 0)
    BY <2>1, AtFirst
  <2>3. /\ first.done \in BOOLEAN
        /\ Says(first, list, silent, g, 0 + 1) \/ Ends(first, list, silent, 0 + 1)
    <3>1. 0 \in Nat
      OBVIOUS
    <3> QED BY <2>1, <2>2, <3>1, getoptsGives
  <2>4. shellparam.optind \in {1, -1}
    BY <1>1, <1>3 DEF OnCourse
  <2>5. res = first
    BY <2>4, getoptsBegins
  <2> HIDE DEF res, first
  <2>6. Says(res, list, silent, g, course.calls + 1) \/ Ends(res, list, silent, course.calls + 1)
    BY <1>3, <2>3, <2>5
  <2>7. course.calls \in Nat /\ res.done \in BOOLEAN
    BY <1>3, <2>3, <2>5
  <2> QED BY <2>1, <2>6, <2>7 DEF res
<1>4. CASE course.calls # 0
  <2>1. course.calls > 0 /\ ~course.over /\ course.list = list /\ course.silent = silent
    BY <1>4 DEF Alike
  <2>2. course.calls \in Nat
    BY <1>2, <2>1
  <2>3. PICK g : /\ ReadsBy(g, list, silent)
                 /\ AtPlace(g, list, shellparam.optind, shellparam.optoff, course.calls)
    BY <1>1, <2>1 DEF OnCourse
  <2>4. /\ res.done \in BOOLEAN
        /\ Says(res, list, silent, g, course.calls + 1) \/ Ends(res, list, silent, course.calls + 1)
    BY <2>2, <2>3, getoptsGives
  <2> HIDE DEF res
  <2> QED BY <2>2, <2>3, <2>4 DEF res
<1> QED BY <1>3, <1>4

LEMMA getoptsKeeps ==
  ASSUME OptionsInv, NEW list \in Seq(Word), NEW silent \in BOOLEAN, getoptscmd(list, silent)
  PROVE  OptionsInv'
<1> DEFINE res == getopts(list, silent, shellparam.optind, shellparam.optoff)
           went == [list |-> list, silent |-> silent, calls |-> course.calls + 1, over |-> res.done]
           optind1 == IF res.done THEN res.optind ELSE 0
           now == MovedTo(shellparam, res.optind, res.optoff)
<1>1. /\ said' = [c |-> res.c, optarg |-> res.optarg, done |-> res.done, OPTIND |-> optind1]
      /\ shellparam' = now
      /\ course' = IF Alike(list, silent) THEN went ELSE OtherCourse
      /\ saveparam' = saveparam /\ optlist' = optlist /\ controls_jobs' = controls_jobs
      /\ addresses' = addresses /\ refused' = refused
  BY DEF getoptscmd, MovedTo
<1>2. /\ shellparam \in PlaceType /\ course \in CourseType /\ OnCourse(shellparam, course)
      /\ Own(addresses, shellparam, saveparam)
  BY DEF OptionsInv
<1>3. res.optind \in Nat \ {0} /\ res.optoff \in Int
  <2>1. shellparam.optind \in Int /\ shellparam.optoff \in Int /\ shellparam.optind # 0
    BY <1>2 DEF PlaceType, OnCourse
  <2> QED BY <2>1, getoptsTyped
<1>4. Alike(list, silent) =>
        /\ course.calls \in Nat /\ res.done \in BOOLEAN
        /\ \E g : /\ ReadsBy(g, list, silent)
                  /\ \/ Says(res, list, silent, g, course.calls + 1)
                     \/ Ends(res, list, silent, course.calls + 1)
  BY AlikeGives
<1>5. OtherCourse \in CourseType /\ OtherCourse.calls = -1
  <2>1. <<>> \in Seq(ParamType)
    OBVIOUS
  <2> QED BY <2>1, ParamIs
<1> HIDE DEF res
<1>6. now \in PlaceType /\ now.p = shellparam.p /\ now.optind = res.optind /\ now.optoff = res.optoff
  BY <1>2, <1>3, MovedIs
<1>7. Own(addresses', shellparam', saveparam')
  BY <1>1, <1>2, <1>6, OwnSame
<1>8. /\ saveparam' \in Seq(SavedParam)
      /\ \A i \in 1..Len(saveparam') : OnCourse(saveparam'[i].param, saveparam'[i].course)
  BY <1>1 DEF OptionsInv
<1>9. controls_jobs' \in BOOLEAN /\ JobControlFollows'
  BY <1>1 DEF OptionsInv, JobControlFollows
<1> HIDE DEF now
<1>10. course' \in CourseType /\ OnCourse(shellparam', course') /\ GetoptsRight'
  <2>1. CASE ~Alike(list, silent)
    <3>1. course' = OtherCourse
      BY <1>1, <2>1
    <3>2. OnCourse(now, OtherCourse)
      BY <1>3, <1>5, <1>6 DEF OnCourse
    <3>3. ~(course'.calls > 0)
      BY <1>5, <3>1
    <3> QED BY <1>1, <1>5, <3>1, <3>2, <3>3 DEF GetoptsRight
  <2>2. CASE Alike(list, silent)
    <3> DEFINE n == course.calls + 1
    <3>1. course' = went
      BY <1>1, <2>2
    <3>2. n \in Nat \ {0} /\ res.done \in BOOLEAN
      BY <1>4, <2>2
    <3>3. PICK g : /\ ReadsBy(g, list, silent)
                   /\ Says(res, list, silent, g, n) \/ Ends(res, list, silent, n)
      BY <1>4, <2>2
    <3>4. went.list = list /\ went.silent = silent /\ went.calls = n /\ went.over = res.done
      OBVIOUS
    <3>5. went \in CourseType
      <4> HIDE DEF n
      <4>1. course.calls + 1 \in Int
        BY <3>2 DEF n
      <4> QED BY <3>2, <4>1 DEF CourseType
    <3> HIDE DEF n, went
    <3>6. ~res.done => AtPlace(g, list, res.optind, res.optoff, n)
      BY <3>3 DEF Says, Ends
    <3>7. OnCourse(now, went)
      <4>1. n > 0 /\ n >= -1 /\ n # 0
        BY <3>2
      <4>2. now.optind # 0
        BY <1>3, <1>6
      <4>3. ~went.over => \E h : ReadsBy(h, went.list, went.silent)
                                 /\ AtPlace(h, went.list, now.optind, now.optoff, went.calls)
        BY <1>6, <3>3, <3>4, <3>6
      <4> QED BY <3>4, <4>1, <4>2, <4>3 DEF OnCourse
    <3>8. said'.c = res.c /\ said'.optarg = res.optarg /\ said'.done = res.done /\ said'.OPTIND = optind1
      <4> HIDE DEF optind1
      <4> QED BY <1>1
    <3>9. /\ course'.list = list /\ course'.silent = silent /\ course'.calls = n
      BY <3>1, <3>4
    <3>10. IF said'.done
           THEN n = Len(OptionsOf(list, silent)) + 1 /\ said'.OPTIND = Read(list, silent).words + 1
           ELSE n <= Len(OptionsOf(list, silent))
                /\ <<said'.c, said'.optarg>> = OptionsOf(list, silent)[n]
      <4>1. CASE Says(res, list, silent, g, n)
        BY <3>8, <4>1 DEF Says
      <4>2. CASE Ends(res, list, silent, n)
        BY <3>8, <4>2 DEF Ends
      <4> QED BY <3>3, <4>1, <4>2
    <3>11. GetoptsRight'
      BY <3>9, <3>10 DEF GetoptsRight
    <3> QED BY <1>1, <3>1, <3>5, <3>7, <3>11
  <2> QED BY <2>1, <2>2
<1> QED BY <1>1, <1>6, <1>7, <1>8, <1>9, <1>10 DEF OptionsInv

LEMMA OptionsNextKeeps ==
  ASSUME OptionsInv, OptionsNext
  PROVE  OptionsInv'
<1>1. Words(shellparam.p) \in Seq(Word) /\ <<>> \in Seq(Word)
  <2>1. shellparam.p \in Seq(ParamType)
    BY DEF OptionsInv, PlaceType
  <2> QED BY <2>1, WordsAre
<1>2. Given \subseteq Seq(Word)
  BY <1>1, OptionsAssumption DEF Given, Word
<1>3. ASSUME NEW list \in Lists, NEW tty \in BOOLEAN, setcmd(list, tty) PROVE OptionsInv'
  BY <1>3, setcmdKeeps
<1>4. ASSUME NEW n \in 0..2, shiftcmd(n) PROVE OptionsInv'
  BY <1>4, shiftcmdKeeps
<1>5. ASSUME NEW value \in 0..2, getoptsreset(value) PROVE OptionsInv'
  BY <1>5, resetKeeps
<1>6. ASSUME NEW list \in Given, NEW silent \in BOOLEAN, getoptscmd(list, silent) PROVE OptionsInv'
  <2>1. list \in Seq(Word)
    BY <1>2
  <2> QED BY <1>6, <2>1, getoptsKeeps
<1>7. ASSUME NEW list \in Given, NEW silent \in BOOLEAN, getopts_fails(list, silent) PROVE OptionsInv'
  BY <1>7, failsKeeps
<1>8. ASSUME NEW list \in {<<>>, Words(shellparam.p)}, function_begins(list) PROVE OptionsInv'
  <2>1. list \in Seq(Word)
    BY <1>1
  <2> QED BY <1>8, <2>1, beginsKeeps
<1>9. ASSUME function_ends PROVE OptionsInv'
  BY <1>9, endsKeeps
<1> QED BY <1>3, <1>4, <1>5, <1>6, <1>7, <1>8, <1>9 DEF OptionsNext

LEMMA OptionsInitHolds ==
  ASSUME OptionsInit
  PROVE  OptionsInv
<1>1. PICK args \in CommandLines : shellparam = Param(OnStack(Invoked(args)))
  BY DEF OptionsInit
<1>2. /\ saveparam = <<>> /\ optlist = {} /\ controls_jobs = FALSE /\ addresses = {}
      /\ refused = FALSE /\ course = NewCourse /\ said = Nothing
  BY DEF OptionsInit
<1> DEFINE p == OnStack(Invoked(args))
<1>3. args \in Seq(Word)
  BY OptionsAssumption DEF Word
<1>4. Invoked(args) \in Seq(Word)
  BY <1>3, InvokedAre
<1>5. p \in Seq(ParamType) /\ \A k \in 1..Len(p) : p[k].at = 0
  BY <1>4, OnStackAre
<1> HIDE DEF p
<1>6. Param(p) \in PlaceType /\ Param(p).p = p /\ NewCourse \in CourseType /\ OnCourse(Param(p), NewCourse)
  BY <1>5, ParamIs
<1>7. shellparam = Param(p)
  BY <1>1 DEF p
<1>8. saveparam \in Seq(SavedParam) /\ Len(saveparam) = 0 /\ 1..Len(saveparam) = {}
  BY <1>2
<1>9. Own(addresses, shellparam, saveparam)
  <2>1. \A i : ListOf(shellparam, saveparam, i) = p \/ i <= 0
    BY <1>6, <1>7, <1>8 DEF ListOf
  <2>2. \A i, k : IsParam(shellparam, saveparam, i, k) =>
          i = 1 /\ k \in 1..Len(p) /\ AddressIn(shellparam, saveparam, i, k) = 0
    <3>1. \A i \in 1..Len(saveparam) + 1 : i = 1 /\ ~(i <= 0)
      BY <1>8
    <3> QED BY <1>5, <2>1, <3>1 DEF IsParam, AddressIn
  <2> QED BY <1>2, <2>2 DEF Own
<1>10. controls_jobs \in BOOLEAN /\ JobControlFollows /\ GetoptsRight
  BY <1>2 DEF JobControlFollows, GetoptsRight
<1> QED BY <1>2, <1>6, <1>7, <1>8, <1>9, <1>10 DEF OptionsInv

\* The lists of parameters in the order of ParamLists, the present one first.
LEMMA ParamListsAre ==
  ASSUME OptionsInv
  PROVE  LET m == Len(saveparam) + 1
         IN /\ m \in Nat \ {0} /\ DOMAIN ParamLists = 1..m
            /\ ParamLists[1] = ListOf(shellparam, saveparam, m)
            /\ \A i \in 2..m : ParamLists[i] = ListOf(shellparam, saveparam, i - 1)
            /\ \A i \in 1..m : ListOf(shellparam, saveparam, i) \in Seq(ParamType)
<1> DEFINE n == Len(saveparam)
           m == n + 1
           P(i) == saveparam[i].param.p
           t == [i \in DOMAIN saveparam |-> P(i)]
<1>1. /\ shellparam.p \in Seq(ParamType) /\ saveparam \in Seq(SavedParam)
      /\ n \in Nat /\ DOMAIN saveparam = 1..n
  BY DEF OptionsInv, PlaceType
<1>2. \A i \in 1..n : P(i) \in Seq(ParamType)
  <2>1. \A i \in 1..n : saveparam[i] \in SavedParam
    BY <1>1
  <2>2. \A s \in SavedParam : s.param.p \in Seq(ParamType)
    BY DEF SavedParam, PlaceType
  <2> QED BY <2>1, <2>2
<1>3. ParamLists = <<shellparam.p>> \o t
  BY DEF ParamLists
<1> HIDE DEF P
<1>4. t \in [1..n -> Seq(ParamType)] /\ \A i \in 1..n : t[i] = P(i)
  BY <1>1, <1>2
<1> HIDE DEF t, n
<1>5. t \in Seq(Seq(ParamType)) /\ Len(t) = n
  BY <1>1, <1>4
<1>6. <<shellparam.p>> \in Seq(Seq(ParamType)) /\ Len(<<shellparam.p>>) = 1
  BY <1>1
<1>7. /\ ParamLists \in Seq(Seq(ParamType)) /\ Len(ParamLists) = 1 + n
      /\ ParamLists[1] = shellparam.p
      /\ \A i \in 2..m : ParamLists[i] = t[i - 1]
  BY <1>1, <1>3, <1>5, <1>6
<1>8. DOMAIN ParamLists = 1..m /\ m \in Nat \ {0}
  BY <1>1, <1>7
<1>9. ListOf(shellparam, saveparam, m) = shellparam.p
  <2>1. ~(m <= Len(saveparam))
    BY <1>1 DEF n
  <2> QED BY <2>1 DEF ListOf
<1>10. \A i \in 1..n : ListOf(shellparam, saveparam, i) = P(i)
  BY <1>1 DEF ListOf, P, n
<1>11. ASSUME NEW i \in 2..m PROVE ParamLists[i] = ListOf(shellparam, saveparam, i - 1)
  <2>1. i - 1 \in 1..n
    BY <1>1
  <2> QED BY <1>4, <1>7, <1>10, <2>1
<1>12. ASSUME NEW i \in 1..m PROVE ListOf(shellparam, saveparam, i) \in Seq(ParamType)
  <2>1. i = m \/ i \in 1..n
    BY <1>1
  <2> QED BY <1>1, <1>2, <1>9, <1>10, <2>1
<1> QED BY <1>7, <1>8, <1>9, <1>11, <1>12 DEF n

LEMMA OptionsInvSound ==
  ASSUME OptionsInv
  PROVE  ParametersSound
<1> DEFINE m == Len(saveparam) + 1
           L == ParamLists
           Of(i) == ListOf(shellparam, saveparam, i)
           At(i) == IF i = 1 THEN m ELSE i - 1
<1>1. GetoptsInList
  <2> SUFFICES ASSUME NEW list \in Given
               PROVE  Clamped(shellparam.optind, list).ind \in 1..Len(list) + 1
    BY DEF GetoptsInList
  <2>1. list \in Seq(Word)
    <3>1. shellparam.p \in Seq(ParamType)
      BY DEF OptionsInv, PlaceType
    <3>2. Words(shellparam.p) \in Seq(Word)
      BY <3>1, WordsAre
    <3> QED BY <3>2, OptionsAssumption DEF Given, Word
  <2>2. shellparam.optind \in Int \ {0} /\ Len(list) \in Nat
    BY <2>1 DEF OptionsInv, PlaceType, OnCourse
  <2> QED BY <2>2 DEF Clamped
<1>2. /\ m \in Nat \ {0} /\ DOMAIN L = 1..m /\ L[1] = Of(m)
      /\ \A i \in 2..m : L[i] = Of(i - 1)
      /\ \A i \in 1..m : Of(i) \in Seq(ParamType)
  BY ParamListsAre
<1>3. \A i, k : IsParam(shellparam, saveparam, i, k) <=> i \in 1..m /\ k \in 1..Len(Of(i))
  BY DEF IsParam
<1>4. \A i, k : AddressIn(shellparam, saveparam, i, k) = Of(i)[k].at
  BY DEF AddressIn
<1> HIDE DEF L, Of, m
<1>5. ASSUME NEW i \in 1..m PROVE At(i) \in 1..m /\ L[i] = Of(At(i))
  <2>1. CASE i = 1
    BY <1>2, <2>1
  <2>2. CASE i # 1
    <3>1. i \in 2..m /\ i - 1 \in 1..m /\ At(i) = i - 1
      BY <1>2, <2>2
    <3> QED BY <1>2, <3>1
  <2> QED BY <2>1, <2>2
<1>6. \A i, j \in 1..m : At(i) = At(j) => i = j
  BY <1>2
<1>7. \A j \in 1..m : \E i \in 1..m : At(i) = j
  <2> TAKE j \in 1..m
  <2>1. CASE j = m
    <3>1. 1 \in 1..m /\ At(1) = j
      BY <1>2, <2>1
    <3> QED BY <3>1
  <2>2. CASE j # m
    <3>1. j + 1 \in 1..m /\ At(j + 1) = j
      BY <1>2, <2>2
    <3> QED BY <3>1
  <2> QED BY <2>1, <2>2
<1> HIDE DEF At
<1>8. \A i \in 1..m : /\ L[i] \in Seq(ParamType) /\ DOMAIN L[i] = 1..Len(L[i])
                      /\ \A k \in 1..Len(L[i]) : /\ IsParam(shellparam, saveparam, At(i), k)
                                                 /\ AddressIn(shellparam, saveparam, At(i), k) = L[i][k].at
  <2> TAKE i \in 1..m
  <2>1. L[i] \in Seq(ParamType) /\ At(i) \in 1..m /\ L[i] = Of(At(i))
    BY <1>2, <1>5
  <2>2. DOMAIN L[i] = 1..Len(L[i])
    BY <2>1
  <2> QED BY <1>3, <1>4, <2>1, <2>2
<1>9. \A i \in 1..m : \A a : a \in AddressesOf(L[i]) <=> a # 0 /\ \E k \in 1..Len(L[i]) : L[i][k].at = a
  BY <1>8, AddressesAre
<1>10. /\ addresses \in SUBSET Addresses /\ 0 \notin Addresses
       /\ \A i, k : IsParam(shellparam, saveparam, i, k) =>
            \/ AddressIn(shellparam, saveparam, i, k) = 0
            \/ AddressIn(shellparam, saveparam, i, k) \in addresses
       /\ \A a \in addresses : \E i, k : IsParam(shellparam, saveparam, i, k)
                                         /\ AddressIn(shellparam, saveparam, i, k) = a
       /\ \A i, j, k, l :
            /\ IsParam(shellparam, saveparam, i, k) /\ IsParam(shellparam, saveparam, j, l)
            /\ AddressIn(shellparam, saveparam, i, k) = AddressIn(shellparam, saveparam, j, l)
            => AddressIn(shellparam, saveparam, i, k) = 0 \/ (i = j /\ k = l)
  <2>1. Own(addresses, shellparam, saveparam)
    BY DEF OptionsInv
  <2>2. 0 \notin Addresses
    BY OptionsAssumption
  <2> QED BY <2>1, <2>2 DEF Own
<1>11. ASSUME NEW i \in 1..m, NEW a \in AddressesOf(L[i]) PROVE a \in addresses
  <2>1. a # 0 /\ \E k \in 1..Len(L[i]) : L[i][k].at = a
    BY <1>9
  <2>2. PICK k \in 1..Len(L[i]) : L[i][k].at = a
    BY <2>1
  <2>3. IsParam(shellparam, saveparam, At(i), k) /\ AddressIn(shellparam, saveparam, At(i), k) = a
    BY <1>8, <2>2
  <2> QED BY <1>10, <2>1, <2>3
<1>12. ASSUME NEW a \in addresses PROVE \E i \in 1..m : a \in AddressesOf(L[i])
  <2>1. PICK j, k : IsParam(shellparam, saveparam, j, k) /\ AddressIn(shellparam, saveparam, j, k) = a
    BY <1>10
  <2>2. j \in 1..m /\ k \in 1..Len(Of(j)) /\ Of(j)[k].at = a
    BY <1>3, <1>4, <2>1
  <2>3. PICK i \in 1..m : At(i) = j
    BY <1>7, <2>2
  <2>4. L[i] = Of(j)
    BY <1>5, <2>3
  <2>5. a # 0
    BY <1>10
  <2> QED BY <1>9, <2>2, <2>4, <2>5
<1>13. addresses = UNION {AddressesOf(L[i]) : i \in DOMAIN L}
  <2> DEFINE S(i) == AddressesOf(L[i])
  <2>1. /\ \A i \in 1..m : \A a \in S(i) : a \in addresses
        /\ \A a \in addresses : \E i \in 1..m : a \in S(i)
    BY <1>11, <1>12
  <2> HIDE DEF S
  <2>2. addresses = UNION {S(i) : i \in 1..m}
    BY <2>1
  <2> QED BY <1>2, <2>2 DEF S
<1>14. \A i, j \in DOMAIN L : \A k \in DOMAIN L[i], l \in DOMAIN L[j] :
         L[i][k].at = L[j][l].at => L[i][k].at = 0 \/ (i = j /\ k = l)
  <2>1. ASSUME NEW i \in 1..m, NEW j \in 1..m, NEW k \in 1..Len(L[i]), NEW l \in 1..Len(L[j]),
               L[i][k].at = L[j][l].at
        PROVE  L[i][k].at = 0 \/ (i = j /\ k = l)
    <3>1. /\ IsParam(shellparam, saveparam, At(i), k) /\ AddressIn(shellparam, saveparam, At(i), k) = L[i][k].at
          /\ IsParam(shellparam, saveparam, At(j), l) /\ AddressIn(shellparam, saveparam, At(j), l) = L[j][l].at
      BY <1>8
    <3>2. L[i][k].at = 0 \/ (At(i) = At(j) /\ k = l)
      BY <1>10, <2>1, <3>1
    <3> QED BY <1>6, <3>2
  <2>2. \A i \in 1..m : DOMAIN L[i] = 1..Len(L[i])
    BY <1>8
  <2>3. ASSUME NEW i \in DOMAIN L, NEW j \in DOMAIN L, NEW k \in DOMAIN L[i], NEW l \in DOMAIN L[j],
               L[i][k].at = L[j][l].at
        PROVE  L[i][k].at = 0 \/ (i = j /\ k = l)
    <3>1. i \in 1..m /\ j \in 1..m
      BY <1>2
    <3>2. k \in 1..Len(L[i]) /\ l \in 1..Len(L[j])
      BY <2>2, <3>1
    <3> QED BY <2>1, <2>3, <3>1, <3>2
  <2> QED BY <2>3
<1>15. ParamsOwned
  BY <1>13, <1>14 DEF ParamsOwned, L
<1>16. GetoptsRight /\ JobControlFollows
  BY DEF OptionsInv
<1> QED BY <1>1, <1>15, <1>16 DEF ParametersSound

-----------------------------------------------------------------------------
\* The parts of the shell leave each other alone.
LEMMA EvalStepOrRest ==
  ASSUME [ShellNext]_shellVars
  PROVE  EvalNext \/ UNCHANGED evalVars
BY DEF ShellNext, shellVars, StackStep, VarStep, OptionsStep, CdStep, EvalStep

LEMMA EvalKept ==
  ASSUME EvalInv, [ShellNext]_shellVars
  PROVE  EvalInv'
<1>1. CASE EvalNext
  BY <1>1, EvalNextKeeps
<1>2. CASE UNCHANGED evalVars
  BY <1>2 DEF evalVars, EvalInv
<1> QED BY <1>1, <1>2, EvalStepOrRest

LEMMA VarStepOrRest ==
  ASSUME [ShellNext]_shellVars
  PROVE  VarNext \/ UNCHANGED varVars
BY DEF ShellNext, shellVars, StackStep, VarStep, OptionsStep, CdStep, EvalStep

LEMMA VarKept ==
  ASSUME VarInv, [ShellNext]_shellVars
  PROVE  VarInv'
<1>1. CASE VarNext
  BY <1>1, VarNextKeeps
<1>2. CASE UNCHANGED varVars
  <2>1. /\ localvar_stack' = localvar_stack /\ failed' = failed /\ vars' = vars
        /\ texts' = texts /\ seen' = seen /\ aflag' = aflag
    BY <1>2 DEF varVars
  <2>2. Vars' = Vars
    BY <2>1 DEF Vars
  <2>3. VarHolds(Vars, AllSaves(localvar_stack'), failed')
    BY <2>1, VarInvIs
  <2> QED BY <2>1, <2>2, <2>3, VarInvIs, VarHoldsNext
<1> QED BY <1>1, <1>2, VarStepOrRest

LEMMA CdStepOrRest ==
  ASSUME [ShellNext]_shellVars
  PROVE  CdNext \/ UNCHANGED cdVars
BY DEF ShellNext, shellVars, StackStep, VarStep, OptionsStep, CdStep, EvalStep

LEMMA CdKept ==
  ASSUME CdInv, [ShellNext]_shellVars
  PROVE  CdInv'
<1>1. CASE CdNext
  BY <1>1, CdNextKeeps
<1>2. CASE UNCHANGED cdVars
  BY <1>2 DEF cdVars, CdInv, PlacesOwned
<1> QED BY <1>1, <1>2, CdStepOrRest

LEMMA OptionsStepOrRest ==
  ASSUME [ShellNext]_shellVars
  PROVE  OptionsNext \/ UNCHANGED optionsVars
BY DEF ShellNext, shellVars, StackStep, VarStep, OptionsStep, CdStep, EvalStep

LEMMA OptionsKept ==
  ASSUME OptionsInv, [ShellNext]_shellVars
  PROVE  OptionsInv'
<1>1. CASE OptionsNext
  BY <1>1, OptionsNextKeeps
<1>2. CASE UNCHANGED optionsVars
  BY <1>2 DEF optionsVars, OptionsInv, JobControlFollows, GetoptsRight
<1> QED BY <1>1, <1>2, OptionsStepOrRest

\* The invariant commands are evaluated by: each call has the flags its place
\* in the commands around it allows, the context its function and loops are
\* those of the calls, and a skip knows the loop it is to reach (eval.c).
THEOREM EvalInvariance == ShellSpec => []EvalInv
<1>1. ShellInit => EvalInv
  BY EvalInitHolds DEF ShellInit
<1>2. EvalInv /\ [ShellNext]_shellVars => EvalInv'
  BY EvalKept
<1> QED BY <1>1, <1>2, PTL DEF ShellSpec

\* However functions, loops, eval and dot nest, and whatever errors unwind them,
\* the shell is in the context of the innermost function, evaluates nothing
\* while it skips, and has exactly the tested and the last commands flagged
\* (eval.c:202-330).
THEOREM ControlStaysSound == ShellSpec => []ControlSound
<1>1. EvalInv => ControlSound
  BY EvalInvSound
<1> QED BY <1>1, EvalInvariance, PTL

\* break and continue end in the loop they count to, and a function left by
\* return has the status return was given (eval.c:332-470, 1060-1140).
THEOREM SkipsDoArrive == ShellSpec => SkipsArrive
<1> DEFINE RightLoop ==
             ctl.at = "return" /\ evalskip \in {"break", "cont"} /\ evalskip' = "none"
             /\ ~swallowed => Len(calls) = target
           RightStatus ==
             evalskip = "func" /\ evalskip' = "none" /\ ctl.at = "return" =>
             exitstatus' = retstatus
<1>1. ASSUME EvalInv, [ShellNext]_shellVars
      PROVE  [RightLoop]_evalVars /\ [RightStatus]_evalVars
  <2>1. CASE EvalNext
    BY <1>1, <2>1, SkipEnds
  <2>2. CASE UNCHANGED evalVars
    BY <2>2
  <2> QED BY <1>1, <2>1, <2>2, EvalStepOrRest
<1>2. EvalInv /\ [ShellNext]_shellVars => [RightLoop]_evalVars
  BY <1>1
<1>3. EvalInv /\ [ShellNext]_shellVars => [RightStatus]_evalVars
  BY <1>1
<1>4. ShellSpec => [][RightLoop]_evalVars
  BY <1>2, EvalInvariance, PTL DEF ShellSpec
<1>5. ShellSpec => [][RightStatus]_evalVars
  BY <1>3, EvalInvariance, PTL DEF ShellSpec
<1> QED BY <1>4, <1>5 DEF SkipsArrive, SkipsRightLoop, ReturnStatus

\* The invariant variables are kept by: of the variables and of all that was
\* saved of them exactly one owns each allocated text, where a text is shared the
\* newer of the two holds it fixed, and whoever watches a variable was told its
\* text (var.c).
THEOREM VarInvariance == ShellSpec => []VarInv
<1>1. ShellInit => VarInv
  BY VarInitHolds DEF ShellInit
<1>2. VarInv /\ [ShellNext]_shellVars => VarInv'
  BY VarKept
<1> QED BY <1>1, <1>2, PTL DEF ShellSpec

\* However often variables are assigned, unset, exported and made local, and in
\* whatever order functions end or an error ends them all, no text is freed that
\* is in use, none is lost, and callbacks know the value (var.c:228-574).
THEOREM VariablesStaySound == ShellSpec => []VariablesSound
<1>1. VarInv => VariablesSound
  BY VarInvSound
<1> QED BY <1>1, VarInvariance, PTL

\* When a function is over every variable it made local, however often, is as it
\* was, and no other has changed (poplocalvars, var.c:508-543).
THEOREM LocalsComeBack == ShellSpec => LocalsRestored
<1> DEFINE Back ==
             poplocalvars =>
             \A n \in VarNames : LET lvs == Last(localvar_stack) IN
               IF \E k \in DOMAIN lvs : lvs[k].vp = n
               THEN LET v == FirstSaved(lvs, n)
                      IN View(vars[n])' =
                         [View(v) EXCEPT !.export = @ \/ (~v.there /\ vars[n].export')]
               ELSE vars[n]' = vars[n]
<1>1. ASSUME VarInv PROVE Back
  <2>1. ASSUME poplocalvars, NEW n \in VarNames, NEW lvs, lvs = Last(localvar_stack)
        PROVE  IF \E k \in DOMAIN lvs : lvs[k].vp = n
               THEN LET v == FirstSaved(lvs, n)
                      IN View(vars[n])' =
                         [View(v) EXCEPT !.export = @ \/ (~v.there /\ vars[n].export')]
               ELSE vars[n]' = vars[n]
    <3>1. /\ (\E k \in DOMAIN lvs : lvs[k].vp = n) => SeenAs(vars'[n], FirstSaved(lvs, n))
          /\ ~(\E k \in DOMAIN lvs : lvs[k].vp = n) => vars'[n] = vars[n]
      BY <1>1, <2>1, LocalsAreBack
    <3>2. View(vars[n])' = View(vars'[n])
      BY DEF View
    <3> QED BY <3>1, <3>2 DEF SeenAs
  <2> QED BY <2>1
<1>2. VarInv /\ [ShellNext]_shellVars => [Back]_varVars
  BY <1>1
<1>3. ShellSpec => [][Back]_varVars
  BY <1>2, VarInvariance, PTL DEF ShellSpec
<1> QED BY <1>3 DEF LocalsRestored

\* The invariant the working directory is named by: followed name by name,
\* what curdir says leads to the directory the kernel has and what OLDPWD says
\* to the one before it, unless the leaf went; physdir is the kernel's own
\* name; and each name that is not nullstr has its own memory (cd.c).
THEOREM CdInvariance == ShellSpec => []CdInv
<1>1. ShellInit => CdInv
  BY CdInitHolds DEF ShellInit
<1>2. CdInv /\ [ShellNext]_shellVars => CdInv'
  BY CdKept
<1> QED BY <1>1, <1>2, PTL DEF ShellSpec

\* In every file system and whatever mixture of cd -L, cd -P, cd -, CDPATH and
\* pwd -P led there, pwd says a name of the directory the shell is in, and no
\* name is freed twice or lost (cd.c:96-305).
THEOREM DirectoryStaysSound == ShellSpec => []DirectorySound
<1>1. CdInv => DirectorySound
  BY CdInvSound
<1> QED BY <1>1, CdInvariance, PTL

\* However the shell came to where it is, cd by name without .. comes to the
\* directory the kernel would come to (updatepwd, docd; cd.c:142-249).
THEOREM ByNameAsByKernel == ShellSpec => LogicalIsPhysical
<1> DEFINE Same ==
             curdir' # curdir =>
               \A dest \in Dests :
                 ~gone /\ ".." \notin ToSet(dest.names) /\ cdcmd(dest, <<>>, FALSE) =>
                   curdirectory' = Resolve(dest)
<1>1. CdInv /\ [ShellNext]_shellVars => [Same]_cdVars
  BY ByNameIsPhysical
<1>2. ShellSpec => [][Same]_cdVars
  BY <1>1, CdInvariance, PTL DEF ShellSpec
<1> QED BY <1>2 DEF LogicalIsPhysical

\* The invariant the parameters are sound by: every parameter that is allocated
\* is in one list, the present one or that of a caller, and once; and where a
\* course of calls of getopts goes on, its place in the list is that of as many
\* options as it has given, in every function (options.c).
THEOREM OptionsInvariance == ShellSpec => []OptionsInv
<1>1. ShellInit => OptionsInv
  BY OptionsInitHolds DEF ShellInit
<1>2. OptionsInv /\ [ShellNext]_shellVars => OptionsInv'
  BY OptionsKept
<1> QED BY <1>1, <1>2, PTL DEF ShellSpec

\* getopts gives the options of any list call by call, in silent mode with -:
\* among them, which the guidelines do not know (options.c:465), and ends at
\* its first operand, also through functions with lists of their own, never
\* begins outside its list, no parameter is freed twice, lost or freed in use,
\* and job control is on as set -m says (options.c:302-515, eval.c:970-1009).
THEOREM ParametersStaySound == ShellSpec => []ParametersSound
<1>1. OptionsInv => ParametersSound
  BY OptionsInvSound
<1> QED BY <1>1, OptionsInvariance, PTL
=============================================================================
