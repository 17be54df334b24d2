------------------------------ MODULE SlabList ------------------------------
(***************************************************************************)
(* The list of a pool (slab_pool.c) as functions: from the links before a  *)
(* step to the links after it.  The links live in the headers of the slabs *)
(* (next and prev, functions of the page), the two ends in the pool.       *)
(***************************************************************************)
EXTENDS SlabFreelist, FiniteSets

\* The pages of count slabs created together, and where they can be when
\* these pages are free.
Region(base, count) == {base + i * PageSize : i \in 0..(count - 1)}

MappableIn(free, count) == {base \in free : Region(base, count) \subseteq free}

\* mem_slab_create_several: count new slabs, linked in order of address in
\* front of list_next.
SeveralLinked(l, base, count, list_next) ==
  LET new  == Region(base, count)
      last == base + (count - 1) * PageSize
  IN [start |-> base,
      end   |-> l.end,
      next  |-> [p \in DOMAIN l.next \cup new |->
                   CASE p = last -> list_next
                     [] p \in new \ {last} -> p + PageSize
                     [] OTHER -> l.next[p]],
      prev  |-> [p \in DOMAIN l.prev \cup new |->
                   CASE p = base -> NULL
                     [] p \in new \ {base} -> p - PageSize
                     [] p = list_next -> last
                     [] OTHER -> l.prev[p]]]

SeveralCreated(all, base, count, size) ==
  [p \in DOMAIN all \cup Region(base, count) |->
     IF p \in DOMAIN all THEN all[p] ELSE PreparedSlab(p, size)]

\* get_last_from_list follows next from a slab until there is none.
LastFromList(l, slab) ==
  LET last[p \in DOMAIN l.next] == IF l.next[p] = NULL THEN p ELSE last[l.next[p]]
  IN last[slab]

\* move_slab_to_end_of_the_list
MoveToEnd(l, slab) ==
  LET previous == l.prev[slab]
      next     == l.next[slab]
  IN IF next = NULL THEN l
     ELSE [start |-> IF previous = NULL THEN next ELSE l.start,
           end   |-> slab,
           next  |-> [p \in DOMAIN l.next |->
                        CASE p = slab -> NULL
                          [] p = l.end -> slab
                          [] p = previous -> next
                          [] OTHER -> l.next[p]],
           prev  |-> [l.prev EXCEPT ![next] = previous, ![slab] = l.end]]

\* list_end once a slab is cut out of the list, and a mutant that forgets it.
EndUnmoved(l, slab) == l.end

EndWithoutSlab(l, slab) == IF l.next[slab] = NULL THEN l.prev[slab] ELSE l.end

\* move_slab_to_start_of_the_list
MoveToStart(l, slab) ==
  LET previous == l.prev[slab]
      next     == l.next[slab]
      bypassed == IF next = NULL THEN l.prev ELSE [l.prev EXCEPT ![next] = previous]
  IN IF l.start = slab THEN l
     ELSE [start |-> slab,
           end   |-> EndWithoutSlab(l, slab),
           next  |-> [l.next EXCEPT ![previous] = next, ![slab] = l.start],
           prev  |-> [bypassed EXCEPT ![slab] = NULL, ![l.start] = slab]]

\* The list without a slab that has just moved to its start, and a mutant
\* that leaves list_start on the slab.
StartUnmoved(l, slab) == l.start

StartWithoutSlab(l, slab) == IF l.prev[slab] = NULL THEN l.next[slab] ELSE l.start

Unlinked(l, slab) ==
  [start |-> StartWithoutSlab(l, slab),
   end   |-> l.end,
   next  |-> [p \in DOMAIN l.next \ {slab} |->
                IF p = l.prev[slab] THEN l.next[slab] ELSE l.next[p]],
   prev  |-> [p \in DOMAIN l.prev \ {slab} |->
                IF p = l.next[slab] THEN l.prev[slab] ELSE l.prev[p]]]

-----------------------------------------------------------------------------
(* slab_pool_allocate looks at the first slab, and at the one behind it.   *)

\* A slab with no room, and a mutant of the test that is off by one.
IsOverfull(s) == s.ref_count > s.max_refs

IsFull(s) == s.ref_count = s.max_refs

\* The list once the full first slab has moved to the end, and once the one
\* that is then first has moved there, too.
SecondFirst(l) == MoveToEnd(l, l.start)
ThirdFirst(l)  == MoveToEnd(SecondFirst(l), SecondFirst(l).start)

FirstTwoFull(l, all) == IsFull(all[l.start]) /\ IsFull(all[SecondFirst(l).start])

\* A slab that is the only one of its list.
IsLonely(l, slab) == l.next[slab] = NULL /\ l.prev[slab] = NULL
=============================================================================
