------------------------ MODULE ShellProcessesProofs ------------------------
(***************************************************************************)
(* The redirections (Redir), the traps (Trap), the jobs (Jobs), the input  *)
(* (Input) and the commands it finds (Exec) of the shell are sound for     *)
(* every number of descriptors, tables, nested calls, files, texts and     *)
(* functions, as parts of the shell and the system it runs on              *)
(* (ShellProcesses).                                                       *)
(***************************************************************************)
EXTENDS ShellProcesses, DoublyLinkedProofs, SequenceTheorems

\* What f makes of the state s with the elements of seq at the places t, if h
\* has what it makes with fewer.
FoldedAt(h, f, s, seq, t) ==
  IF t = {} THEN s ELSE f[<<h[t \ {Largest(t)}], seq[Largest(t)]>>]

Folds(h, f, s, seq, S, n) ==
  /\ h \in [SUBSET (1..n) -> S]
  /\ \A t \in SUBSET (1..n) : h[t] = FoldedAt(h, f, s, seq, t)

LEMMA FoldValues ==
  ASSUME NEW S, NEW T, NEW f \in [S \X T -> S], NEW s \in S, NEW n \in Nat,
         NEW seq, \A k \in 1..n : seq[k] \in T
  PROVE  \E h : Folds(h, f, s, seq, S, n)
<1> DEFINE all == SUBSET (1..n)
           Upto(k) == \E h \in [all -> S] :
                        \A t \in all : Cardinality(t) < k => h[t] = FoldedAt(h, f, s, seq, t)
           Reached == {k \in Nat : Upto(k)}
<1>2. ASSUME NEW t \in all PROVE Cardinality(t) \in Nat /\ Cardinality(t) <= n
  <2>1. t \in SUBSET (1..n)
    OBVIOUS
  <2>2. Cardinality(t) \in 0..n
    BY <2>1, SmallerPlaces
  <2> QED BY <2>2
<1>3. 0 \in Reached
  <2>1. \A t \in all : ~(Cardinality(t) < 0)
    BY <1>2
  <2>2. [t \in all |-> s] \in [all -> S]
    OBVIOUS
  <2> QED BY <2>1, <2>2
<1>4. ASSUME NEW k \in Reached PROVE k + 1 \in Reached
  <2>1. PICK h \in [all -> S] :
          \A t \in all : Cardinality(t) < k => h[t] = FoldedAt(h, f, s, seq, t)
    OBVIOUS
  <2> DEFINE g == [t \in all |-> FoldedAt(h, f, s, seq, t)]
  <2>2. ASSUME NEW t \in all, t # {}
        PROVE  /\ t \ {Largest(t)} \in all /\ seq[Largest(t)] \in T
               /\ Cardinality(t \ {Largest(t)}) = Cardinality(t) - 1
    <3>1. t \in SUBSET (1..n)
      OBVIOUS
    <3>2. /\ Largest(t) \in t /\ t \ {Largest(t)} \in SUBSET (1..n)
          /\ Cardinality(t \ {Largest(t)}) = Cardinality(t) - 1
      BY <2>2, <3>1, SmallerPlaces
    <3> QED BY <3>1, <3>2
  <2>3. g \in [all -> S]
    <3>1. ASSUME NEW t \in all PROVE FoldedAt(h, f, s, seq, t) \in S
      <4>1. CASE t = {}
        BY <4>1 DEF FoldedAt
      <4>2. CASE t # {}
        <5>1. h[t \ {Largest(t)}] \in S /\ seq[Largest(t)] \in T
          BY <2>2, <4>2
        <5> QED BY <4>2, <5>1 DEF FoldedAt
      <4> QED BY <4>1, <4>2
    <3> QED BY <3>1
  <2>4. ASSUME NEW t \in all, Cardinality(t) < k + 1
        PROVE  g[t] = FoldedAt(g, f, s, seq, t)
    <3>1. CASE t = {}
      BY <3>1 DEF FoldedAt
    <3>2. CASE t # {}
      <4> DEFINE r == t \ {Largest(t)}
      <4>1. r \in all /\ Cardinality(r) = Cardinality(t) - 1 /\ Cardinality(t) \in Nat
        BY <1>2, <2>2, <3>2
      <4>2. Cardinality(r) < k
        BY <2>4, <4>1
      <4>3. g[r] = h[r]
        BY <2>1, <4>1, <4>2
      <4>4. g[t] = f[<<h[r], seq[Largest(t)]>>]
        BY <3>2 DEF FoldedAt
      <4> HIDE DEF g
      <4> QED BY <3>2, <4>3, <4>4 DEF FoldedAt
    <3> QED BY <3>1, <3>2
  <2> HIDE DEF g
  <2>5. \A t \in all : Cardinality(t) < k + 1 => g[t] = FoldedAt(g, f, s, seq, t)
    BY <2>4
  <2>6. Upto(k + 1)
    <3> HIDE DEF all
    <3> QED BY <2>3, <2>5
  <2>7. k \in Nat
    OBVIOUS
  <2> HIDE DEF Upto
  <2> QED BY <2>6, <2>7
<1>5. Upto(n + 1)
  <2>1. Reached = Nat
    <3>1. Reached \in SUBSET Nat
      OBVIOUS
    <3> HIDE DEF Reached
    <3> QED BY <1>3, <1>4, <3>1, AllNaturals
  <2>2. n + 1 \in Reached
    <3> HIDE DEF Reached
    <3> QED BY <2>1
  <2> QED BY <2>2
<1>6. \A t \in all : Cardinality(t) < n + 1
  BY <1>2
<1>7. PICK h \in [all -> S] : \A t \in all : h[t] = FoldedAt(h, f, s, seq, t)
  BY <1>5, <1>6
<1> QED BY <1>7 DEF Folds

FilesOpen == Files \cup {None, "in", "out"}

Redirtab == [renamed : [LowFds -> {EMPTY, CLOSED} \cup (Low..MaxFd)],
             before  : [LowFds -> FilesOpen]]

\* What the first m tables of list say of the descriptors tab: exactly their
\* copies and those in kept, a subshell's, are open above those that scripts
\* name, each in one table for one descriptor, and a copy is what the
\* descriptor was before it was taken.
CopiesOpen(tab, list, m, kept) ==
  \A d \in Low..MaxFd :
    tab[d] # None <=> d \in kept \/ \E i \in 1..m : \E c \in LowFds : list[i].renamed[c] = d

CopiesApart(list, m) ==
  \A i, j \in 1..m : \A c, d \in LowFds :
    list[i].renamed[c] = list[j].renamed[d] /\ list[i].renamed[c] >= 0 => i = j /\ c = d

CopiesNew(list, m, kept) ==
  \A i \in 1..m : \A c \in LowFds : list[i].renamed[c] \notin kept

CopiesRight(tab, list, m, over) ==
  \A i \in 1..m : \A c \in LowFds \ over :
    /\ list[i].renamed[c] = CLOSED => list[i].before[c] = None
    /\ list[i].renamed[c] >= 0 => tab[list[i].renamed[c]] = list[i].before[c]

TablesHold(tab, closed, list, m, over, kept) ==
  /\ tab \in [0..MaxFd -> FilesOpen]
  /\ closed \in SUBSET LowFds
  /\ \A i \in 1..m : list[i] \in Redirtab
  /\ kept \subseteq Low..MaxFd
  /\ CopiesOpen(tab, list, m, kept)
  /\ CopiesApart(list, m)
  /\ CopiesNew(list, m, kept)
  /\ CopiesRight(tab, list, m, over)
  /\ \A fd \in closed \ over : tab[fd] = None

\* h says of every table and every descriptor it can take what it takes of S.
Taken(h, n, S) == \A s \in S : \E i \in 1..n : \E c \in LowFds : h[<<i, c>>] = s

\* No more than the tables of one shell can take.
Few(S) == \E h : Taken(h, MaxFrames, S)

\* The inductive invariant of the redirections.
RedirInv ==
  /\ redirlist \in Seq(Redirtab)
  /\ TablesHold(fds, closed_redirs, redirlist, Len(redirlist), overlooked, inherited)
  /\ Len(redirlist) <= MaxFrames
  /\ Few(inherited)
  /\ ~forked => inherited = {}
  /\ redirphase \in {"body", "redirecting", "subshell"}
  /\ redirphase = "redirecting" => redirlist # <<>>
  /\ redirphase = "subshell" => redirlist = <<>>

LEMMA LowFdsAre ==
  /\ LowFds = 0..Low - 1 /\ Low \in Nat \ {0} /\ MaxFd \in Nat /\ MaxFd > Low
  /\ \A c \in LowFds : c \in 0..MaxFd /\ c >= 0 /\ c < Low
  /\ \A d \in Low..MaxFd : d \in 0..MaxFd /\ d \notin LowFds /\ d >= 0
  /\ \A d \in 0..MaxFd : d \in LowFds \/ d \in Low..MaxFd
  /\ EMPTY = -2 /\ CLOSED = -1
BY RedirAssumption DEF LowFds, EMPTY, CLOSED

\* However many descriptors the tables have taken, one is free.
LEMMA RoomAbove ==
  ASSUME NEW n \in 0..(2 * MaxFrames), NEW h, NEW S, Taken(h, n, S)
  PROVE  \E d \in Low..MaxFd : d \notin S
<1> SUFFICES ASSUME \A d \in Low..MaxFd : d \in S PROVE FALSE
  OBVIOUS
<1> DEFINE M == 2 * MaxFrames
<1>0. /\ Low \in Nat \ {0} /\ M \in Nat /\ MaxFd \in Nat /\ n \in Nat /\ n <= M
      /\ MaxFd >= Low + Low * M
  BY RedirAssumption
<1> HIDE DEF M
<1> DEFINE P == (1..n) \X LowFds
           Q == {p \in P : h[p] \in Low..MaxFd}
           g == [p \in Q |-> h[p]]
<1>1. g \in Surjection(Q, Low..MaxFd)
  <2>1. g \in [Q -> Low..MaxFd]
    OBVIOUS
  <2>2. ASSUME NEW d \in Low..MaxFd PROVE \E p \in Q : g[p] = d
    <3>1. PICK i \in 1..n, c \in LowFds : h[<<i, c>>] = d
      BY DEF Taken
    <3>2. <<i, c>> \in Q
      BY <3>1
    <3> QED BY <3>1, <3>2
  <2> QED BY <2>1, <2>2 DEF Surjection
<1>2. IsFiniteSet(P) /\ Cardinality(P) = n * Low
  <2>1. IsFiniteSet(1..n) /\ Cardinality(1..n) = n
    <3>1. 1 \in Int /\ n \in Int
      BY <1>0
    <3>2. IsFiniteSet(1..n) /\ Cardinality(1..n) = IF 1 > n THEN 0 ELSE n - 1 + 1
      BY <3>1, FS_Interval
    <3> QED BY <1>0, <3>2
  <2>2. IsFiniteSet(LowFds) /\ Cardinality(LowFds) = Low
    <3>1. 0 \in Int /\ Low - 1 \in Int
      BY <1>0
    <3>2. IsFiniteSet(0..Low - 1)
          /\ Cardinality(0..Low - 1) = IF 0 > Low - 1 THEN 0 ELSE (Low - 1) - 0 + 1
      BY <3>1, FS_Interval
    <3> QED BY <1>0, <3>2 DEF LowFds
  <2> QED BY <2>1, <2>2, FS_Product
<1>3. IsFiniteSet(Q) /\ Cardinality(Q) <= Cardinality(P)
  BY <1>2, FS_Subset
<1>4. Cardinality(Low..MaxFd) = MaxFd - Low + 1
  <2>1. Low \in Int /\ MaxFd \in Int
    BY <1>0
  <2>2. Cardinality(Low..MaxFd) = IF Low > MaxFd THEN 0 ELSE MaxFd - Low + 1
    BY <2>1, FS_Interval
  <2> QED BY <1>0, <2>2, RedirAssumption
<1>5. Cardinality(Low..MaxFd) <= Cardinality(Q)
  BY <1>1, <1>3, FS_Surjection
<1>6. n * Low \in Nat /\ Low * M \in Nat /\ n * Low <= Low * M
  <2>1. n * Low = Low * n /\ Low * n \in Nat /\ Low * M \in Nat
    BY <1>0, SMT
  <2>2. CASE n = M
    BY <2>1, <2>2
  <2>3. CASE n < M
    BY <1>0, <2>1, <2>3, TimesMonotone
  <2> QED BY <1>0, <2>2, <2>3
<1>7. Cardinality(Q) \in Nat
  BY <1>3, FS_CardinalityType
<1> HIDE DEF P, Q, g
<1> QED BY <1>0, <1>2, <1>3, <1>4, <1>5, <1>6, <1>7

\* Each of S is kept or in the first n tables of h.
KeptOrIn(h, n, S, kept) ==
  \A s \in S : s \in kept \/ \E i \in 1..n : \E c \in LowFds : h[<<i, c>>] = s

\* What the tables of a subshell take and what its parent's took is together no
\* more than two shells' tables can take.
LEMMA BothTaken ==
  ASSUME NEW n \in 0..MaxFrames, NEW h, NEW S, NEW kept, Few(kept), KeptOrIn(h, n, S, kept)
  PROVE  \E d \in Low..MaxFd : d \notin S
<1>0. MaxFrames \in Nat /\ n \in Nat /\ n <= MaxFrames
  BY RedirAssumption
<1>1. PICK g : Taken(g, MaxFrames, kept)
  BY DEF Few
<1> DEFINE k   == n + MaxFrames
           all == [p \in (1..k) \X LowFds |-> IF p[1] <= n THEN h[p]
                                             ELSE g[<<p[1] - n, p[2]>>]]
<1>2. ASSUME NEW s \in S PROVE \E i \in 1..k : \E c \in LowFds : all[<<i, c>>] = s
  <2>1. CASE s \in kept
    <3>1. PICK i \in 1..MaxFrames, c \in LowFds : g[<<i, c>>] = s
      BY <1>1, <2>1 DEF Taken
    <3>2. i + n \in 1..k /\ ~(i + n <= n) /\ (i + n) - n = i
      BY <1>0
    <3>3. all[<<i + n, c>>] = s
      BY <3>1, <3>2
    <3> QED BY <3>2, <3>3
  <2>2. CASE s \notin kept
    <3>1. PICK i \in 1..n, c \in LowFds : h[<<i, c>>] = s
      BY <2>2 DEF KeptOrIn
    <3>2. i \in 1..k /\ i <= n
      BY <1>0
    <3>3. all[<<i, c>>] = s
      BY <3>1, <3>2
    <3> QED BY <3>2, <3>3
  <2> QED BY <2>1, <2>2
<1>3. k \in 0..(2 * MaxFrames)
  BY <1>0
<1> HIDE DEF all, k
<1>4. Taken(all, k, S)
  BY <1>2 DEF Taken
<1> QED BY <1>3, <1>4, RoomAbove

\* dup and open return a descriptor that is free.
LEMMA LowestFree ==
  ASSUME NEW tab, NEW from \in Nat, NEW d \in from..MaxFd, tab[d] = None
  PROVE  Lowest(tab, from) \in from..MaxFd /\ tab[Lowest(tab, from)] = None
<1> DEFINE S == {fd \in from..MaxFd : tab[fd] = None} \cup {MaxFd}
<1>0. MaxFd \in Nat /\ d <= MaxFd /\ from <= MaxFd
  BY RedirAssumption
<1>1. S \in SUBSET Nat /\ S # {}
  BY <1>0
<1> HIDE DEF S
<1>2. \E m \in S : \A k \in S : m <= k
  BY <1>1, LeastElement
<1>3. Min(S) \in S /\ \A k \in S : Min(S) <= k
  BY <1>2 DEF Min
<1>4. Lowest(tab, from) = Min(S)
  BY DEF S, Lowest
<1> DEFINE m == Min(S)
<1>5. m \in S /\ m <= d
  <2>1. d \in S
    BY DEF S
  <2> QED BY <1>3, <2>1
<1> HIDE DEF m
<1>6. CASE m \in from..MaxFd /\ tab[m] = None
  BY <1>4, <1>6 DEF m
<1>7. CASE m = MaxFd
  <2>1. m = d
    BY <1>0, <1>5, <1>7
  <2> QED BY <1>4, <2>1 DEF m
<1> QED BY <1>5, <1>6, <1>7 DEF S

\* Popping a table closes its copies and leaves those of the tables below.
LEMMA PoppedHolds ==
  ASSUME NEW tab, NEW closed, NEW list, NEW m \in Nat \ {0}, NEW over, NEW kept, NEW drop \in BOOLEAN,
         TablesHold(tab, closed, list, m, over, kept)
  PROVE  /\ TablesHold(Popped(tab, closed, list[m], drop), ClosedAfter(closed, list[m], drop),
                       list, m - 1, over, kept)
         /\ ~drop => \A fd \in LowFds \ over :
              Popped(tab, closed, list[m], drop)[fd] =
                IF list[m].renamed[fd] = EMPTY THEN tab[fd] ELSE list[m].before[fd]
<1> DEFINE new == Popped(tab, closed, list[m], drop)
           cls == ClosedAfter(closed, list[m], drop)
           sv  == list[m]
<1>0. m \in 1..m /\ m - 1 \in Nat /\ (\A i \in 1..(m - 1) : i \in 1..m /\ i # m)
  OBVIOUS
<1>1. /\ sv \in Redirtab /\ DOMAIN tab = 0..MaxFd /\ tab \in [0..MaxFd -> FilesOpen]
      /\ \A i \in 1..m : list[i] \in Redirtab
  BY <1>0 DEF TablesHold
<1>2. \A c \in LowFds : /\ sv.renamed[c] \in {EMPTY, CLOSED} \cup (Low..MaxFd)
                        /\ sv.before[c] \in FilesOpen
  BY <1>1 DEF Redirtab
<1>3. new \in [0..MaxFd -> FilesOpen]
  <2>1. ASSUME NEW d \in 0..MaxFd PROVE new[d] \in FilesOpen
    <3>1. tab[d] \in FilesOpen /\ None \in FilesOpen
      BY <1>1 DEF FilesOpen
    <3>2. ASSUME d \in LowFds, sv.renamed[d] # EMPTY, sv.renamed[d] # CLOSED
          PROVE  tab[sv.renamed[d]] \in FilesOpen
      BY <1>1, <1>2, <3>2, LowFdsAre
    <3> QED BY <1>1, <3>1, <3>2 DEF Popped
  <2>2. new = [d \in 0..MaxFd |-> new[d]]
    BY <1>1 DEF Popped
  <2> HIDE DEF new
  <2> QED BY <2>1, <2>2
<1>4. \A d \in LowFds : new[d] = IF sv.renamed[d] = EMPTY \/ drop THEN tab[d]
                                 ELSE IF sv.renamed[d] = CLOSED
                                 THEN IF d \in closed THEN tab[d] ELSE None
                                 ELSE tab[sv.renamed[d]]
  BY <1>1, LowFdsAre DEF Popped
<1>5. \A d \in Low..MaxFd : new[d] = IF \E fd \in LowFds : sv.renamed[fd] = d THEN None ELSE tab[d]
  BY <1>1, LowFdsAre DEF Popped
<1> HIDE DEF new
<1>6. cls \in SUBSET LowFds
  BY DEF TablesHold, ClosedAfter
<1>7. CopiesOpen(new, list, m - 1, kept)
  <2> SUFFICES ASSUME NEW d \in Low..MaxFd
               PROVE  new[d] # None <=> \/ d \in kept
                                        \/ \E i \in 1..(m - 1) : \E c \in LowFds :
                                             list[i].renamed[c] = d
    BY DEF CopiesOpen
  <2>1. tab[d] # None <=> d \in kept \/ \E i \in 1..m : \E c \in LowFds : list[i].renamed[c] = d
    BY DEF TablesHold, CopiesOpen
  <2>2. CASE \E fd \in LowFds : sv.renamed[fd] = d
    <3>1. new[d] = None
      BY <1>5, <2>2
    <3>2. \A i \in 1..(m - 1) : \A c \in LowFds : list[i].renamed[c] # d
      BY <1>0, <2>2, LowFdsAre DEF TablesHold, CopiesApart
    <3>3. d \notin kept
      BY <1>0, <2>2 DEF TablesHold, CopiesNew
    <3> QED BY <3>1, <3>2, <3>3
  <2>3. CASE \A fd \in LowFds : sv.renamed[fd] # d
    <3>1. new[d] = tab[d]
      BY <1>5, <2>3
    <3>2. \A i \in 1..m : i \in 1..(m - 1) \/ i = m
      OBVIOUS
    <3> QED BY <1>0, <2>1, <2>3, <3>1, <3>2
  <2> QED BY <2>2, <2>3
<1>8. CopiesApart(list, m - 1) /\ CopiesNew(list, m - 1, kept)
  BY <1>0 DEF TablesHold, CopiesApart, CopiesNew
<1>9. CopiesRight(new, list, m - 1, over)
  <2> SUFFICES ASSUME NEW i \in 1..(m - 1), NEW c \in LowFds \ over
               PROVE  /\ list[i].renamed[c] = CLOSED => list[i].before[c] = None
                      /\ list[i].renamed[c] >= 0 => new[list[i].renamed[c]] = list[i].before[c]
    BY DEF CopiesRight
  <2>0. /\ list[i].renamed[c] = CLOSED => list[i].before[c] = None
        /\ list[i].renamed[c] >= 0 => tab[list[i].renamed[c]] = list[i].before[c]
    BY <1>0 DEF TablesHold, CopiesRight
  <2>1. ASSUME list[i].renamed[c] >= 0 PROVE new[list[i].renamed[c]] = tab[list[i].renamed[c]]
    <3>1. list[i] \in Redirtab
      BY <1>0, <1>1
    <3>2. list[i].renamed[c] \in Low..MaxFd
      BY <2>1, <3>1, LowFdsAre DEF Redirtab
    <3>3. \A fd \in LowFds : sv.renamed[fd] # list[i].renamed[c]
      BY <1>0, <2>1 DEF TablesHold, CopiesApart
    <3> QED BY <1>5, <3>2, <3>3
  <2> QED BY <2>0, <2>1
<1>10. \A fd \in cls \ over : new[fd] = None
  <2> SUFFICES ASSUME NEW fd \in cls \ over PROVE new[fd] = None
    OBVIOUS
  <2>0. fd \in LowFds /\ \A d \in closed \ over : tab[d] = None
    BY <1>6 DEF TablesHold
  <2>1. CASE drop
    BY <1>4, <2>0, <2>1 DEF ClosedAfter
  <2>2. CASE ~drop /\ sv.renamed[fd] = EMPTY
    BY <1>4, <2>0, <2>2 DEF ClosedAfter
  <2>3. CASE ~drop /\ sv.renamed[fd] = CLOSED
    BY <1>4, <2>0, <2>3, LowFdsAre
  <2>4. CASE ~drop /\ sv.renamed[fd] # EMPTY /\ sv.renamed[fd] # CLOSED
    <3>1. sv.renamed[fd] >= 0
      BY <1>2, <2>0, <2>4, LowFdsAre
    <3>2. fd \notin cls
      BY <2>4, <3>1 DEF ClosedAfter, Marked
    <3> QED BY <3>2
  <2> QED BY <2>1, <2>2, <2>3, <2>4
<1>11. ASSUME ~drop, NEW fd \in LowFds \ over
       PROVE  new[fd] = IF sv.renamed[fd] = EMPTY THEN tab[fd] ELSE sv.before[fd]
  <2>0. fd \in closed => tab[fd] = None
    BY DEF TablesHold
  <2>1. /\ sv.renamed[fd] = CLOSED => sv.before[fd] = None
        /\ sv.renamed[fd] >= 0 => tab[sv.renamed[fd]] = sv.before[fd]
    BY <1>0 DEF TablesHold, CopiesRight
  <2>2. sv.renamed[fd] = EMPTY \/ sv.renamed[fd] = CLOSED \/ sv.renamed[fd] >= 0
    BY <1>2, LowFdsAre
  <2> QED BY <1>4, <1>11, <2>0, <2>1, <2>2, LowFdsAre
<1>12. TablesHold(new, cls, list, m - 1, over, kept)
  BY <1>0, <1>1, <1>3, <1>6, <1>7, <1>8, <1>9, <1>10 DEF TablesHold
<1> QED BY <1>11, <1>12 DEF new

Descriptors == [fds : [0..MaxFd -> FilesOpen], closed : SUBSET LowFds]

PoppedState(s, sv) ==
  [fds |-> Popped(s.fds, s.closed, sv, FALSE), closed |-> ClosedAfter(s.closed, sv, FALSE)]

LEMMA PoppedTypes ==
  ASSUME NEW s \in Descriptors, NEW sv \in Redirtab
  PROVE  PoppedState(s, sv) \in Descriptors
<1> DEFINE new == Popped(s.fds, s.closed, sv, FALSE)
           tab == s.fds
<1>1. tab \in [0..MaxFd -> FilesOpen] /\ DOMAIN tab = 0..MaxFd
  BY DEF Descriptors
<1>2. \A c \in LowFds : sv.renamed[c] \in {EMPTY, CLOSED} \cup (Low..MaxFd)
  BY DEF Redirtab
<1>3. ASSUME NEW d \in 0..MaxFd PROVE new[d] \in FilesOpen
  <2>1. tab[d] \in FilesOpen /\ None \in FilesOpen
    BY <1>1 DEF FilesOpen
  <2>2. ASSUME d \in LowFds, sv.renamed[d] # EMPTY, sv.renamed[d] # CLOSED
        PROVE  tab[sv.renamed[d]] \in FilesOpen
    BY <1>1, <1>2, <2>2, LowFdsAre
  <2> QED BY <1>1, <2>1, <2>2 DEF Popped
<1>4. new = [d \in 0..MaxFd |-> new[d]]
  BY <1>1 DEF Popped
<1>5. new \in [0..MaxFd -> FilesOpen]
  <2> HIDE DEF new
  <2> QED BY <1>3, <1>4
<1>6. ClosedAfter(s.closed, sv, FALSE) \in SUBSET LowFds
  BY DEF ClosedAfter
<1> QED BY <1>5, <1>6 DEF PoppedState, Descriptors

LEMMA UnwoundSteps ==
  ASSUME NEW tabs \in Seq(Redirtab), [fds |-> fds, closed |-> closed_redirs] \in Descriptors
  PROVE  \E g : /\ g[0] = [fds |-> fds, closed |-> closed_redirs]
                /\ g[Len(tabs)] = Unwound(tabs)
                /\ \A k \in 1..Len(tabs) :
                     g[k] = PoppedState(g[k - 1], tabs[Len(tabs) - k + 1])
<1> DEFINE n == Len(tabs)
           s == [fds |-> fds, closed |-> closed_redirs]
           seq == Reverse(tabs)
           D == DOMAIN seq
           G(h) == [t \in SUBSET D |->
                     IF t = {} THEN s
                     ELSE PoppedState(h[t \ {CHOOSE x \in t : \A y \in t : x >= y}],
                                      seq[CHOOSE x \in t : \A y \in t : x >= y])]
           f == CHOOSE h : h = G(h)
           step == [p \in Descriptors \X Redirtab |-> PoppedState(p[1], p[2])]
<1>1. n \in Nat /\ D = 1..n /\ \A k \in 1..n : seq[k] \in Redirtab /\ seq[k] = tabs[n - k + 1]
  BY DEF Reverse
<1>2. Unwound(tabs) = f[D]
  BY DEF Unwound, FoldLeft, MapThenFoldSet, Max, PoppedState
<1>3. \E h : h = G(h)
  <2>1. step \in [Descriptors \X Redirtab -> Descriptors]
    BY PoppedTypes
  <2>a. s \in Descriptors
    OBVIOUS
  <2> HIDE DEF step, n, seq, s
  <2>b. n \in Nat /\ \A k \in 1..n : seq[k] \in Redirtab
    BY <1>1
  <2>c. PICK h : Folds(h, step, s, seq, Descriptors, n)
    BY <2>1, <2>a, <2>b, FoldValues
  <2>2. /\ h \in [SUBSET (1..n) -> Descriptors]
        /\ \A t \in SUBSET (1..n) : h[t] = FoldedAt(h, step, s, seq, t)
    BY <2>c DEF Folds
  <2>3. ASSUME NEW t \in SUBSET D PROVE h[t] = G(h)[t]
    <3>1. CASE t = {}
      BY <1>1, <2>2, <3>1 DEF FoldedAt
    <3>2. CASE t # {}
      <4>1. Largest(t) \in 1..n /\ t \ {Largest(t)} \in SUBSET (1..n)
        BY <1>1, <3>2, SmallerPlaces
      <4>2. h[t] = step[<<h[t \ {Largest(t)}], seq[Largest(t)]>>]
        BY <1>1, <2>2, <3>2 DEF FoldedAt
      <4>3. h[t \ {Largest(t)}] \in Descriptors /\ seq[Largest(t)] \in Redirtab
        BY <2>2, <2>b, <4>1
      <4>4. h[t] = PoppedState(h[t \ {Largest(t)}], seq[Largest(t)])
        BY <4>2, <4>3 DEF step
      <4> QED BY <1>1, <3>2, <4>4 DEF Largest
    <3> QED BY <3>1, <3>2
  <2>4. h = [t \in SUBSET D |-> h[t]]
    BY <1>1, <2>2
  <2>5. G(h) = [t \in SUBSET D |-> G(h)[t]]
    OBVIOUS
  <2> HIDE DEF G
  <2>6. h = G(h)
    BY <2>3, <2>4, <2>5
  <2> QED BY <2>6
<1>4. f = G(f)
  BY <1>3
<1> HIDE DEF f
<1>5. \A t \in SUBSET D : t # {} => f[t] = PoppedState(f[t \ {Largest(t)}], seq[Largest(t)])
  BY <1>4 DEF Largest
<1>6. f[{}] = s
  <2>1. {} \in SUBSET D
    OBVIOUS
  <2> QED BY <1>4, <2>1
<1> DEFINE g == [k \in 0..n |-> f[1..k]]
<1>7. ASSUME NEW k \in 1..n
      PROVE  f[1..k] = PoppedState(f[1..(k - 1)], tabs[n - k + 1])
  <2> HIDE DEF n, seq, s
  <2>1. 1..k \in SUBSET D /\ 1..k # {} /\ Largest(1..k) = k /\ (1..k) \ {k} = 1..(k - 1)
    BY <1>1, UptoPlace
  <2>2. f[1..k] = PoppedState(f[1..(k - 1)], seq[k])
    BY <1>5, <2>1
  <2> QED BY <1>1, <2>2
<1>8. g[0] = s
  <2>1. 1..0 = {} /\ 0 \in 0..n
    BY <1>1
  <2> HIDE DEF s
  <2> QED BY <1>6, <2>1
<1>9. g[n] = f[D]
  BY <1>1
<1>10. \A k \in 1..n : g[k] = f[1..k] /\ g[k - 1] = f[1..(k - 1)]
  BY <1>1
<1> HIDE DEF g
<1> QED BY <1>2, <1>7, <1>8, <1>9, <1>10

LEMMA UnwoundHolds ==
  ASSUME RedirInv
  PROVE  TablesHold(Unwound(redirlist).fds, Unwound(redirlist).closed, redirlist, 0, overlooked, inherited)
<1> DEFINE n == Len(redirlist)
<1>0. redirlist \in Seq(Redirtab) /\ n \in Nat
      /\ TablesHold(fds, closed_redirs, redirlist, n, overlooked, inherited)
  BY DEF RedirInv
<1>1. [fds |-> fds, closed |-> closed_redirs] \in Descriptors
  BY <1>0 DEF TablesHold, Descriptors
<1>2. PICK g : /\ g[0] = [fds |-> fds, closed |-> closed_redirs]
               /\ g[n] = Unwound(redirlist)
               /\ \A k \in 1..n : g[k] = PoppedState(g[k - 1], redirlist[n - k + 1])
  BY <1>0, <1>1, UnwoundSteps
<1> DEFINE Holds(k) == TablesHold(g[k].fds, g[k].closed, redirlist, n - k, overlooked, inherited)
           Reached == {k \in Nat : k <= n => Holds(k)}
<1> HIDE DEF n
<1>3. 0 \in Reached
  BY <1>0, <1>2
<1>4. ASSUME NEW k \in Reached PROVE k + 1 \in Reached
  <2> SUFFICES ASSUME k + 1 <= n PROVE Holds(k + 1)
    OBVIOUS
  <2> DEFINE m == n - k
  <2>0. k \in Nat /\ k <= n /\ k + 1 \in 1..n /\ (k + 1) - 1 = k /\ n - (k + 1) + 1 = m
        /\ m \in Nat \ {0} /\ n - (k + 1) = m - 1
    BY <1>0
  <2>1. TablesHold(g[k].fds, g[k].closed, redirlist, m, overlooked, inherited)
    BY <2>0
  <2>2. g[k + 1] = PoppedState(g[k], redirlist[m])
    BY <1>2, <2>0
  <2> HIDE DEF m
  <2>3. TablesHold(Popped(g[k].fds, g[k].closed, redirlist[m], FALSE),
                   ClosedAfter(g[k].closed, redirlist[m], FALSE), redirlist, m - 1, overlooked, inherited)
    BY <2>0, <2>1, PoppedHolds
  <2>4. /\ g[k + 1].fds = Popped(g[k].fds, g[k].closed, redirlist[m], FALSE)
        /\ g[k + 1].closed = ClosedAfter(g[k].closed, redirlist[m], FALSE)
    BY <2>2 DEF PoppedState
  <2>5. TablesHold(g[k + 1].fds, g[k + 1].closed, redirlist, m - 1, overlooked, inherited)
    BY <2>3, <2>4
  <2> QED BY <2>0, <2>5
<1>5. n \in Reached
  <2>1. Reached \in SUBSET Nat
    OBVIOUS
  <2> HIDE DEF Reached
  <2>2. Reached = Nat
    BY <1>3, <1>4, <2>1, AllNaturals
  <2> QED BY <1>0, <2>2
<1>6. Holds(n)
  BY <1>0, <1>5
<1>7. n - n = 0
  BY <1>0
<1> QED BY <1>2, <1>6, <1>7

\* One redirection: the descriptor newfd is open in tab, and was already unless
\* it was opened for this.
LEMMA RedirectHolds ==
  ASSUME RedirInv, redirphase = "redirecting",
         NEW fd \in LowFds, NEW newfd \in {-1} \cup 0..MaxFd, NEW tab \in [0..MaxFd -> FilesOpen],
         NEW opened \in BOOLEAN, \A d \in 0..MaxFd : d # newfd => tab[d] = fds[d],
         opened => newfd # -1 /\ fds[newfd] = None /\ tab[newfd] # None,
         ~opened => tab = fds /\ newfd # fd /\ newfd \notin Low..MaxFd,
         Redirect(fd, newfd, tab, opened)
  PROVE  RedirInv'
<1> DEFINE n     == Len(redirlist)
           top   == redirlist[n]
           saved == Lowest(tab, Low)
           saves == SavesFd(RedirTop, fd, newfd) /\ tab[fd] # None
           first == top.renamed[fd] = EMPTY
           r     == Redirected(tab, fd, newfd, opened)
           \* What the table says afterwards of the descriptor.
           name  == IF saves THEN saved ELSE IF first THEN CLOSED ELSE top.renamed[fd]
           was   == IF first THEN fds[fd] ELSE top.before[fd]
<1>0. /\ redirlist \in Seq(Redirtab) /\ n \in Nat \ {0} /\ n <= MaxFrames /\ MaxFrames \in Nat
      /\ \A i \in 1..n : redirlist[i] \in Redirtab
      /\ n \in 1..n /\ top \in Redirtab /\ RedirTop = top
      /\ redirlist = [i \in 1..n |-> redirlist[i]]
  <2>1. redirlist \in Seq(Redirtab) /\ redirlist # <<>> /\ n <= MaxFrames
    BY DEF RedirInv
  <2>2. n \in Nat /\ n # 0
    BY <2>1
  <2> QED BY <2>1, <2>2, RedirAssumption DEF RedirTop, Last
<1>1. /\ fds \in [0..MaxFd -> FilesOpen] /\ closed_redirs \in SUBSET LowFds
      /\ CopiesOpen(fds, redirlist, n, inherited) /\ CopiesApart(redirlist, n)
      /\ CopiesNew(redirlist, n, inherited) /\ inherited \subseteq Low..MaxFd
      /\ Few(inherited) /\ (~forked => inherited = {})
      /\ CopiesRight(fds, redirlist, n, overlooked)
      /\ \A d \in closed_redirs \ overlooked : fds[d] = None
  BY DEF RedirInv, TablesHold
<1>2. /\ fds' = r.fds
      /\ redirlist' = [redirlist EXCEPT ![n] =
                          [renamed |-> [@.renamed EXCEPT ![fd] = r.renamed],
                           before  |-> [@.before EXCEPT ![fd] = r.before]]]
      /\ closed_redirs' = Marked(closed_redirs, fd, newfd)
      /\ overlooked' = overlooked /\ redirphase' = redirphase
      /\ inherited' = inherited /\ forked' = forked
  BY DEF Redirect
<1>3. r.renamed = name /\ r.before = was
  BY <1>0 DEF Redirected
<1>4. DOMAIN tab = 0..MaxFd /\ fd \in 0..MaxFd /\ -1 \notin 0..MaxFd
  BY LowFdsAre
\* What is free to save to.
<1>5. ASSUME saves
      PROVE  /\ saved \in Low..MaxFd /\ tab[saved] = None /\ saved # newfd /\ fds[saved] = None
             /\ first /\ fd # newfd /\ fds[fd] # None /\ fd \notin closed_redirs
             /\ \A i \in 1..n : \A c \in LowFds : redirlist[i].renamed[c] # saved
             /\ saved \notin inherited
  <2>1. first /\ fd # newfd /\ tab[fd] # None /\ fd \notin closed_redirs
    BY <1>0, <1>5 DEF SavesFd
  <2> DEFINE h == [p \in (1..n) \X LowFds |-> IF p[1] = n /\ p[2] = fd THEN newfd
                                              ELSE redirlist[p[1]].renamed[p[2]]]
             busy == {d \in Low..MaxFd : tab[d] # None}
  <2>2. ASSUME NEW s \in busy, s \notin inherited
        PROVE  \E i \in 1..n : \E c \in LowFds : h[<<i, c>>] = s
    <3>1. CASE s = newfd
      <4>1. h[<<n, fd>>] = s
        BY <1>0, <3>1
      <4> QED BY <1>0, <4>1
    <3>2. CASE s # newfd
      <4>1. fds[s] # None
        BY <3>2, LowFdsAre
      <4>2. PICK i \in 1..n, c \in LowFds : redirlist[i].renamed[c] = s
        BY <1>1, <2>2, <4>1 DEF CopiesOpen
      <4>3. ~(i = n /\ c = fd)
        BY <2>1, <4>2, LowFdsAre
      <4>4. h[<<i, c>>] = s
        BY <4>2, <4>3
      <4> QED BY <4>4
    <3> QED BY <3>1, <3>2
  <2>3. n \in 0..MaxFrames
    BY <1>0
  <2> HIDE DEF h
  <2>4. PICK d \in Low..MaxFd : d \notin busy
    <3>1. KeptOrIn(h, n, busy, inherited)
      BY <2>2 DEF KeptOrIn
    <3>2. Few(inherited)
      BY <1>1
    <3> HIDE DEF n, top, saved, saves, first, r, name, was, busy
    <3> QED BY <2>3, <3>1, <3>2, BothTaken
  <2>5. tab[d] = None /\ Low \in Nat
    BY <2>4, LowFdsAre
  <2>6. saved \in Low..MaxFd /\ tab[saved] = None
    BY <2>5, LowestFree
  <2>7. saved # newfd
    <3> SUFFICES ASSUME saved = newfd PROVE FALSE
      OBVIOUS
    <3>1. newfd \in Low..MaxFd /\ tab[newfd] = None
      BY <2>6
    <3>2. opened
      BY <3>1
    <3> QED BY <3>1, <3>2
  <2>8. fds[saved] = None /\ fds[fd] # None
    BY <1>4, <2>1, <2>6, <2>7, LowFdsAre
  <2>9. saved \notin inherited /\ \A i \in 1..n : \A c \in LowFds : redirlist[i].renamed[c] # saved
    BY <1>1, <2>6, <2>8 DEF CopiesOpen
  <2> QED BY <2>1, <2>6, <2>7, <2>8, <2>9
\* The descriptors and the table afterwards.
<1> HIDE DEF n, top
<1>6. ASSUME NEW d \in 0..MaxFd
      PROVE  r.fds[d] = IF d = fd THEN (IF newfd = -1 THEN None ELSE tab[newfd])
                        ELSE IF d = newfd /\ opened THEN None
                        ELSE IF saves /\ d = saved THEN fds[fd] ELSE fds[d]
  <2>1. saves => tab[fd] = fds[fd]
    BY <1>4, <1>5
  <2>2. newfd >= 0 <=> newfd # -1
    BY <1>4
  <2>3. CASE saves
    <3>1. fd # newfd /\ saved # fd /\ saved # newfd
      BY <1>5, <2>3, LowFdsAre
    <3> QED BY <1>4, <2>1, <2>2, <2>3, <3>1 DEF Redirected
  <2>4. CASE ~saves
    <3>1. CASE fd = newfd
      BY <1>4, <2>2, <2>4, <3>1 DEF Redirected
    <3>2. CASE fd # newfd
      BY <1>4, <2>2, <2>4, <3>2 DEF Redirected
    <3> QED BY <3>1, <3>2
  <2> QED BY <2>3, <2>4
<1>7. r.fds = [d \in 0..MaxFd |-> r.fds[d]]
  <2>1. CASE fd = newfd
    <3>1. ~saves
      BY <2>1 DEF SavesFd
    <3> QED BY <2>1, <3>1 DEF Redirected
  <2>2. CASE fd # newfd
    BY <1>4, <2>2 DEF Redirected
  <2> QED BY <2>1, <2>2
<1>8. /\ redirlist' = [i \in 1..n |-> redirlist'[i]] /\ redirlist' \in Seq(Redirtab)
      /\ Len(redirlist') = n
      /\ \A i \in 1..n : i # n => redirlist'[i] = redirlist[i]
      /\ redirlist'[n] = [renamed |-> [top.renamed EXCEPT ![fd] = name],
                          before  |-> [top.before EXCEPT ![fd] = was]]
  <2>1. /\ top.renamed \in [LowFds -> {EMPTY, CLOSED} \cup (Low..MaxFd)]
        /\ top.before \in [LowFds -> FilesOpen]
    BY <1>0 DEF Redirtab
  <2>2. name \in {EMPTY, CLOSED} \cup (Low..MaxFd)
    BY <1>5, <2>1
  <2>3. was \in FilesOpen
    BY <1>1, <1>4, <2>1
  <2> DEFINE new == [renamed |-> [top.renamed EXCEPT ![fd] = name],
                     before  |-> [top.before EXCEPT ![fd] = was]]
  <2>4. new \in Redirtab
    <3> HIDE DEF name, was
    <3> QED BY <2>1, <2>2, <2>3 DEF Redirtab
  <2>5. redirlist' = [redirlist EXCEPT ![n] = new]
    BY <1>2, <1>3 DEF top
  <2> HIDE DEF new
  <2>6. redirlist' = [i \in 1..n |-> IF i = n THEN new ELSE redirlist[i]]
    BY <1>0, <2>5
  <2>7. redirlist' \in [1..n -> Redirtab]
    BY <1>0, <2>4, <2>6
  <2>8. redirlist' \in Seq(Redirtab) /\ Len(redirlist') = n
    BY <1>0, <2>7
  <2> QED BY <1>0, <2>6, <2>7, <2>8 DEF new
<1> HIDE DEF r, saves, first, name, was, saved
<1>9. \A i \in 1..n : \A c \in LowFds :
        redirlist'[i].renamed[c] = (IF i = n /\ c = fd THEN name ELSE redirlist[i].renamed[c])
        /\ redirlist'[i].before[c] = (IF i = n /\ c = fd THEN was ELSE redirlist[i].before[c])
  <2>1. DOMAIN top.renamed = LowFds /\ DOMAIN top.before = LowFds
    BY <1>0 DEF Redirtab
  <2> QED BY <1>8, <2>1 DEF top
<1>10. name = (IF saves THEN saved ELSE IF first THEN CLOSED ELSE top.renamed[fd])
       /\ was = (IF first THEN fds[fd] ELSE top.before[fd])
       /\ (first <=> top.renamed[fd] = EMPTY) /\ top = redirlist[n]
       /\ top.renamed[fd] \in {EMPTY, CLOSED} \cup (Low..MaxFd)
  BY <1>0 DEF name, was, first, top, Redirtab
<1>11. \A d \in 0..MaxFd : fds'[d] = r.fds[d]
  BY <1>2
<1>12. fds' \in [0..MaxFd -> FilesOpen]
  <2>1. ASSUME NEW d \in 0..MaxFd PROVE r.fds[d] \in FilesOpen
    <3>1. newfd # -1 => tab[newfd] \in FilesOpen
      OBVIOUS
    <3>2. fds[d] \in FilesOpen /\ fds[fd] \in FilesOpen /\ None \in FilesOpen
      BY <1>1, <1>4 DEF FilesOpen
    <3> QED BY <1>6, <3>1, <3>2
  <2> QED BY <1>2, <1>7, <2>1
<1>13. \A d \in Low..MaxFd : fds'[d] = IF saves /\ d = saved THEN fds[fd] ELSE fds[d]
  <2> SUFFICES ASSUME NEW d \in Low..MaxFd
               PROVE  r.fds[d] = IF saves /\ d = saved THEN fds[fd] ELSE fds[d]
    BY <1>11, LowFdsAre
  <2>1. d \in 0..MaxFd /\ d # fd
    BY LowFdsAre
  <2>2. CASE d = newfd
    <3>1. opened /\ fds[newfd] = None /\ ~(saves /\ d = saved)
      BY <1>5, <2>2
    <3> QED BY <1>6, <2>1, <2>2, <3>1
  <2>3. CASE d # newfd
    BY <1>6, <2>1, <2>3
  <2> QED BY <2>2, <2>3
<1>14. CopiesOpen(fds', redirlist', n, inherited)
  <2> SUFFICES ASSUME NEW d \in Low..MaxFd
               PROVE  fds'[d] # None <=> \/ d \in inherited
                                         \/ \E i \in 1..n : \E c \in LowFds :
                                              redirlist'[i].renamed[c] = d
    BY DEF CopiesOpen
  <2>1. fds[d] # None <=> d \in inherited \/ \E i \in 1..n : \E c \in LowFds : redirlist[i].renamed[c] = d
    BY <1>1 DEF CopiesOpen
  <2>2. CASE saves /\ d = saved
    <3>1. fds'[d] # None
      BY <1>5, <1>13, <2>2
    <3>2. redirlist'[n].renamed[fd] = d
      BY <1>0, <1>9, <1>10, <2>2
    <3> QED BY <1>0, <3>1, <3>2
  <2>3. CASE ~(saves /\ d = saved)
    <3>1. fds'[d] = fds[d]
      BY <1>13, <2>3
    <3>2. ASSUME NEW i \in 1..n, NEW c \in LowFds
          PROVE  redirlist'[i].renamed[c] = d <=> redirlist[i].renamed[c] = d
      BY <1>5, <1>9, <1>10, <2>3, LowFdsAre
    <3> QED BY <2>1, <3>1, <3>2
  <2> QED BY <2>2, <2>3
<1>15. CopiesApart(redirlist', n)
  <2> SUFFICES ASSUME NEW i \in 1..n, NEW j \in 1..n, NEW c \in LowFds, NEW d \in LowFds,
                      redirlist'[i].renamed[c] = redirlist'[j].renamed[d],
                      redirlist'[i].renamed[c] >= 0
               PROVE  i = j /\ c = d
    BY DEF CopiesApart
  <2>1. \A a, b \in 1..n : \A x, y \in LowFds :
          redirlist[a].renamed[x] = redirlist[b].renamed[y] /\ redirlist[a].renamed[x] >= 0
            => a = b /\ x = y
    BY <1>1 DEF CopiesApart
  <2>2. CASE saves
    BY <1>5, <1>9, <1>10, <2>1, <2>2
  <2>3. CASE ~saves
    BY <1>9, <1>10, <2>1, <2>3, LowFdsAre
  <2> QED BY <2>2, <2>3
<1>a. CopiesNew(redirlist', n, inherited)
  <2> SUFFICES ASSUME NEW i \in 1..n, NEW c \in LowFds
               PROVE  redirlist'[i].renamed[c] \notin inherited
    BY DEF CopiesNew
  <2>1. redirlist[i].renamed[c] \notin inherited /\ CLOSED \notin inherited
    BY <1>1, LowFdsAre DEF CopiesNew
  <2> QED BY <1>5, <1>9, <1>10, <2>1
<1>16. CopiesRight(fds', redirlist', n, overlooked)
  <2> SUFFICES ASSUME NEW i \in 1..n, NEW c \in LowFds \ overlooked
               PROVE  /\ redirlist'[i].renamed[c] = CLOSED => redirlist'[i].before[c] = None
                      /\ redirlist'[i].renamed[c] >= 0 =>
                           fds'[redirlist'[i].renamed[c]] = redirlist'[i].before[c]
    BY DEF CopiesRight
  <2>1. /\ redirlist[i].renamed[c] = CLOSED => redirlist[i].before[c] = None
        /\ redirlist[i].renamed[c] >= 0 => fds[redirlist[i].renamed[c]] = redirlist[i].before[c]
    BY <1>1 DEF CopiesRight
  <2>2. ASSUME redirlist[i].renamed[c] >= 0
        PROVE  fds'[redirlist[i].renamed[c]] = fds[redirlist[i].renamed[c]]
    <3>1. redirlist[i].renamed[c] \in Low..MaxFd
      BY <1>0, <2>2, LowFdsAre DEF Redirtab
    <3>2. ~(saves /\ redirlist[i].renamed[c] = saved)
      BY <1>5
    <3> QED BY <1>13, <3>1, <3>2
  <2>3. CASE i = n /\ c = fd
    <3>1. redirlist'[i].renamed[c] = name /\ redirlist'[i].before[c] = was
      BY <1>9, <2>3
    <3>2. CASE saves
      <4>1. name = saved /\ was = fds[fd] /\ saved \in Low..MaxFd
        BY <1>5, <1>10, <3>2
      <4>2. fds'[saved] = fds[fd]
        BY <1>13, <3>2, <4>1
      <4> QED BY <3>1, <4>1, <4>2, LowFdsAre
    <3>3. CASE ~saves /\ first
      <4>1. name = CLOSED /\ was = fds[fd]
        BY <1>10, <3>3
      <4>2. fds[fd] = None
        <5>1. ~(SavesFd(RedirTop, fd, newfd) /\ tab[fd] # None)
          BY <3>3 DEF saves
        <5>2. RedirTop.renamed[fd] = EMPTY
          BY <1>0, <1>10, <3>3
        <5>3. fd = newfd \/ fd \in closed_redirs \/ tab[fd] = None
          BY <5>1, <5>2 DEF SavesFd
        <5>4. fd = newfd => fds[fd] = None
          OBVIOUS
        <5>5. fd # newfd => tab[fd] = fds[fd]
          BY <1>4
        <5> QED BY <1>1, <2>3, <5>3, <5>4, <5>5
      <4> QED BY <3>1, <4>1, <4>2, LowFdsAre
    <3>4. CASE ~saves /\ ~first
      <4>1. name = redirlist[i].renamed[c] /\ was = redirlist[i].before[c]
        BY <1>10, <2>3, <3>4
      <4> QED BY <2>1, <2>2, <3>1, <4>1
    <3> QED BY <3>2, <3>3, <3>4
  <2>4. CASE ~(i = n /\ c = fd)
    BY <1>9, <2>1, <2>2, <2>4
  <2> QED BY <2>3, <2>4
<1>17. \A d \in closed_redirs' \ overlooked : fds'[d] = None
  <2> SUFFICES ASSUME NEW d \in closed_redirs' \ overlooked
               PROVE  r.fds[d] = None
    BY <1>2
  <2>1. d \in LowFds /\ d \in 0..MaxFd
    BY <1>1, <1>2, LowFdsAre DEF Marked
  <2>2. CASE d = fd
    <3>1. newfd = -1
      BY <1>2, <2>2 DEF Marked
    <3> QED BY <1>4, <1>6, <2>2, <3>1
  <2>3. CASE d # fd
    <3>1. fds[d] = None
      BY <1>1, <1>2, <2>3 DEF Marked
    <3>2. ~(saves /\ d = saved)
      BY <1>5, <2>1, LowFdsAre
    <3> QED BY <1>6, <2>1, <2>3, <3>1, <3>2
  <2> QED BY <2>2, <2>3
<1>18. closed_redirs' \in SUBSET LowFds
  BY <1>1, <1>2 DEF Marked
<1>19. TablesHold(fds', closed_redirs', redirlist', Len(redirlist'), overlooked', inherited')
  <2>1. \A i \in 1..n : redirlist'[i] \in Redirtab
    BY <1>8
  <2> QED BY <1>1, <1>2, <1>8, <1>a, <1>12, <1>14, <1>15, <1>16, <1>17, <1>18, <2>1 DEF TablesHold
<1>20. /\ redirlist' # <<>> /\ redirphase' = "redirecting"
       /\ Few(inherited') /\ (~forked' => inherited' = {})
  BY <1>0, <1>1, <1>2, <1>8
<1> QED BY <1>0, <1>8, <1>19, <1>20 DEF RedirInv

LEMMA RedirInitHolds == RedirInit => RedirInv
<1> SUFFICES ASSUME RedirInit PROVE RedirInv
  OBVIOUS
<1>1. PICK first \in {None, "in"} :
        fds = [fd \in 0..MaxFd |-> IF fd = 0 THEN first ELSE IF fd < Low THEN "out" ELSE None]
  BY DEF RedirInit
<1>2. redirlist = <<>> /\ closed_redirs = {} /\ redirphase = "body" /\ Len(redirlist) = 0
      /\ inherited = {}
  BY DEF RedirInit
<1>3. redirlist \in Seq(Redirtab)
  BY <1>2
<1>4. fds \in [0..MaxFd -> FilesOpen]
  <2>1. first \in FilesOpen /\ "out" \in FilesOpen /\ None \in FilesOpen
    BY DEF FilesOpen
  <2> QED BY <1>1, <2>1
<1>5. CopiesOpen(fds, redirlist, 0, {})
  <2>1. \A d \in Low..MaxFd : d \in 0..MaxFd /\ d # 0 /\ ~(d < Low)
    BY RedirAssumption
  <2>2. \A d \in Low..MaxFd : fds[d] = None
    BY <1>1, <2>1
  <2> QED BY <2>2 DEF CopiesOpen
<1>6. CopiesApart(redirlist, 0) /\ CopiesRight(fds, redirlist, 0, overlooked)
  BY DEF CopiesApart, CopiesRight
<1>7. CopiesNew(redirlist, 0, {}) /\ Few({})
  BY DEF CopiesNew, Few, Taken
<1> QED BY <1>2, <1>3, <1>4, <1>5, <1>6, <1>7, RedirAssumption DEF RedirInv, TablesHold

LEMMA pushredirKeeps ==
  ASSUME RedirInv, pushredir
  PROVE  RedirInv'
<1> DEFINE n   == Len(redirlist)
           new == [renamed |-> [fd \in LowFds |-> EMPTY], before |-> [fd \in LowFds |-> None]]
<1>1. redirlist \in Seq(Redirtab) /\ n \in Nat /\ TablesHold(fds, closed_redirs, redirlist, n, overlooked, inherited)
  BY DEF RedirInv
<1>2. new \in Redirtab
  BY DEF Redirtab, FilesOpen
<1>3. redirlist' = Append(redirlist, new) /\ n < MaxFrames /\ redirphase' = "redirecting"
      /\ fds' = fds /\ closed_redirs' = closed_redirs /\ overlooked' = overlooked
      /\ inherited' = inherited /\ forked' = forked
  <2>1. n < MaxFrames - (IF forked THEN 1 ELSE 0)
    BY DEF pushredir
  <2> QED BY <1>1, <2>1, RedirAssumption DEF pushredir
<1>4. \A c \in LowFds : new.renamed[c] = EMPTY
  OBVIOUS
<1> HIDE DEF new
<1>5. /\ redirlist' \in Seq(Redirtab) /\ Len(redirlist') = n + 1
      /\ \A i \in 1..n : redirlist'[i] = redirlist[i]
      /\ redirlist'[n + 1] = new
  BY <1>1, <1>2, <1>3
<1>6. \A i \in 1..(n + 1) : i \in 1..n \/ i = n + 1
  BY <1>1
<1>7. \A i \in 1..n : i \in 1..(n + 1)
  BY <1>1
<1>8. TablesHold(fds, closed_redirs, redirlist', n + 1, overlooked, inherited)
  <2>1. \A i \in 1..(n + 1) : redirlist'[i] \in Redirtab
    BY <1>1, <1>2, <1>5, <1>6 DEF TablesHold
  <2>2. CopiesOpen(fds, redirlist', n + 1, inherited)
    <3> SUFFICES ASSUME NEW d \in Low..MaxFd
                 PROVE  fds[d] # None <=> \/ d \in inherited
                                          \/ \E i \in 1..(n + 1) : \E c \in LowFds :
                                               redirlist'[i].renamed[c] = d
      BY DEF CopiesOpen
    <3>1. fds[d] # None <=> d \in inherited \/ \E i \in 1..n : \E c \in LowFds : redirlist[i].renamed[c] = d
      BY <1>1 DEF TablesHold, CopiesOpen
    <3>2. d # EMPTY
      BY LowFdsAre
    <3> QED BY <1>4, <1>5, <1>6, <1>7, <3>1, <3>2
  <2>3. CopiesApart(redirlist', n + 1)
    <3> SUFFICES ASSUME NEW i \in 1..(n + 1), NEW j \in 1..(n + 1), NEW c \in LowFds, NEW d \in LowFds,
                        redirlist'[i].renamed[c] = redirlist'[j].renamed[d],
                        redirlist'[i].renamed[c] >= 0
                 PROVE  i = j /\ c = d
      BY DEF CopiesApart
    <3>1. \A a, b \in 1..n : \A x, y \in LowFds :
            redirlist[a].renamed[x] = redirlist[b].renamed[y] /\ redirlist[a].renamed[x] >= 0
              => a = b /\ x = y
      BY <1>1 DEF TablesHold, CopiesApart
    <3>2. ~(EMPTY >= 0)
      BY LowFdsAre
    <3> QED BY <1>4, <1>5, <1>6, <3>1, <3>2
  <2>4. CopiesRight(fds, redirlist', n + 1, overlooked)
    <3>1. ~(EMPTY >= 0) /\ EMPTY # CLOSED
      BY LowFdsAre
    <3> QED BY <1>1, <1>4, <1>5, <1>6, <3>1 DEF TablesHold, CopiesRight
  <2>5. CopiesNew(redirlist', n + 1, inherited)
    <3>1. EMPTY \notin inherited
      BY <1>1, LowFdsAre DEF TablesHold
    <3> QED BY <1>1, <1>4, <1>5, <1>6, <3>1 DEF TablesHold, CopiesNew
  <2> QED BY <1>1, <2>1, <2>2, <2>3, <2>4, <2>5 DEF TablesHold
<1>9. n + 1 <= MaxFrames /\ redirlist' # <<>>
  BY <1>1, <1>3, <1>5, RedirAssumption
<1> QED BY <1>3, <1>5, <1>8, <1>9 DEF RedirInv

LEMMA redirectKeeps ==
  ASSUME RedirInv, NEW fd \in LowFds,
         \/ \E f \in Files : redirect_file(fd, f)
         \/ \E d \in LowFds : redirect_dup(fd, d)
         \/ redirect_close(fd)
  PROVE  RedirInv'
<1>0. fds \in [0..MaxFd -> FilesOpen] /\ -1 \in {-1} \cup 0..MaxFd /\ -1 # fd /\ -1 \notin Low..MaxFd
  BY LowFdsAre DEF RedirInv, TablesHold
<1>1. ASSUME NEW f \in Files, redirect_file(fd, f) PROVE RedirInv'
  <2> DEFINE newfd == Lowest(fds, 0)
             tab == [fds EXCEPT ![newfd] = f]
             n == Len(redirlist)
             h == [p \in (1..n) \X LowFds |-> redirlist[p[1]].renamed[p[2]]]
             busy == {d \in Low..MaxFd : fds[d] # None}
  <2>1. redirphase = "redirecting" /\ Redirect(fd, newfd, tab, TRUE)
    BY <1>1 DEF redirect_file
  <2>2. ASSUME NEW s \in busy, s \notin inherited
        PROVE  \E i \in 1..n : \E c \in LowFds : h[<<i, c>>] = s
    <3>1. CopiesOpen(fds, redirlist, n, inherited)
      BY DEF RedirInv, TablesHold
    <3>2. PICK i \in 1..n, c \in LowFds : redirlist[i].renamed[c] = s
      BY <2>2, <3>1 DEF CopiesOpen
    <3>3. h[<<i, c>>] = s
      BY <3>2
    <3> QED BY <3>3
  <2>3. n \in 0..MaxFrames /\ Few(inherited)
    BY RedirAssumption DEF RedirInv
  <2>4. PICK d \in Low..MaxFd : d \notin busy
    <3>1. KeptOrIn(h, n, busy, inherited)
      BY <2>2 DEF KeptOrIn
    <3> HIDE DEF h, n, busy
    <3> QED BY <2>3, <3>1, BothTaken
  <2>5. newfd \in 0..MaxFd /\ fds[newfd] = None
    <3>1. d \in 0..MaxFd /\ fds[d] = None
      BY <2>4, LowFdsAre
    <3> QED BY <3>1, LowestFree
  <2> HIDE DEF newfd
  <2>6. tab \in [0..MaxFd -> FilesOpen] /\ tab[newfd] # None /\ newfd # -1
        /\ (\A e \in 0..MaxFd : e # newfd => tab[e] = fds[e])
        /\ newfd \in {-1} \cup 0..MaxFd
    <3>1. f \in FilesOpen /\ f # None
      BY RedirAssumption DEF FilesOpen
    <3> QED BY <1>0, <2>5, <3>1
  <2> HIDE DEF tab
  <2> QED BY <2>1, <2>5, <2>6, RedirectHolds
<1>2. ASSUME NEW d \in LowFds, redirect_dup(fd, d) PROVE RedirInv'
  <2>1. redirphase = "redirecting" /\ Redirect(fd, d, fds, FALSE) /\ d # fd
    BY <1>2 DEF redirect_dup
  <2>2. d \in {-1} \cup 0..MaxFd /\ d \notin Low..MaxFd
    BY LowFdsAre
  <2> QED BY <1>0, <2>1, <2>2, RedirectHolds
<1>3. CASE redirect_close(fd)
  <2>1. redirphase = "redirecting" /\ Redirect(fd, -1, fds, FALSE)
    BY <1>3 DEF redirect_close
  <2> QED BY <1>0, <2>1, RedirectHolds
<1> QED BY <1>1, <1>2, <1>3

\* The tables below the innermost are those of the list without it.
LEMMA FrontHolds ==
  ASSUME NEW tab, NEW closed, NEW list \in Seq(Redirtab), NEW over, NEW kept, list # <<>>,
         TablesHold(tab, closed, list, Len(list) - 1, over, kept)
  PROVE  /\ Front(list) \in Seq(Redirtab) /\ Len(Front(list)) = Len(list) - 1
         /\ TablesHold(tab, closed, Front(list), Len(Front(list)), over, kept)
<1> DEFINE m == Len(list) - 1
<1>1. m \in Nat /\ Len(list) \in Nat
  BY EmptySeq, LenProperties
<1>2. Front(list) = [i \in 1..m |-> list[i]]
  BY <1>1 DEF Front
<1>3. Front(list) \in Seq(Redirtab) /\ Len(Front(list)) = m
  <2>1. Front(list) \in [1..m -> Redirtab]
    BY <1>1, <1>2
  <2> QED BY <1>1, <2>1, SeqDef
<1> HIDE DEF m
<1>4. \A i \in 1..m : Front(list)[i] = list[i]
  BY <1>2
<1>5. TablesHold(tab, closed, list, m, over, kept)
  BY DEF m
<1>6. TablesHold(tab, closed, Front(list), m, over, kept)
  <2>1. CopiesOpen(tab, Front(list), m, kept)
    BY <1>4, <1>5 DEF TablesHold, CopiesOpen
  <2>2. CopiesApart(Front(list), m) /\ CopiesNew(Front(list), m, kept)
    BY <1>4, <1>5 DEF TablesHold, CopiesApart, CopiesNew
  <2>3. CopiesRight(tab, Front(list), m, over)
    BY <1>4, <1>5 DEF TablesHold, CopiesRight
  <2> QED BY <1>4, <1>5, <2>1, <2>2, <2>3 DEF TablesHold
<1> QED BY <1>3, <1>6 DEF m

LEMMA popredirKeeps ==
  ASSUME RedirInv, NEW drop \in BOOLEAN, popredir(drop)
  PROVE  /\ RedirInv'
         /\ ~drop => \A fd \in LowFds \ overlooked :
              fds'[fd] = IF RedirTop.renamed[fd] = EMPTY THEN fds[fd] ELSE RedirTop.before[fd]
<1> DEFINE n == Len(redirlist)
<1>1. /\ redirlist \in Seq(Redirtab) /\ redirlist # <<>> /\ n <= MaxFrames
      /\ TablesHold(fds, closed_redirs, redirlist, n, overlooked, inherited)
      /\ n \in Nat \ {0} /\ RedirTop = redirlist[n]
  <2>1. redirlist \in Seq(Redirtab) /\ redirlist # <<>>
    BY DEF RedirInv, popredir
  <2>2. n \in Nat /\ n # 0
    BY <2>1
  <2> QED BY <2>1, <2>2 DEF RedirInv, RedirTop, Last
<1>2. /\ fds' = Popped(fds, closed_redirs, redirlist[n], drop)
      /\ closed_redirs' = ClosedAfter(closed_redirs, redirlist[n], drop)
      /\ redirlist' = Front(redirlist) /\ redirphase' = "body" /\ overlooked' = overlooked
      /\ inherited' = inherited /\ forked' = forked
  BY <1>1 DEF popredir
<1>3. TablesHold(fds', closed_redirs', redirlist, n - 1, overlooked, inherited)
  BY <1>1, <1>2, PoppedHolds
<1>4. /\ redirlist' \in Seq(Redirtab) /\ Len(redirlist') = n - 1
      /\ TablesHold(fds', closed_redirs', redirlist', Len(redirlist'), overlooked', inherited')
  BY <1>1, <1>2, <1>3, FrontHolds
<1>5. n - 1 <= MaxFrames
  BY <1>1, RedirAssumption
<1>6. RedirInv'
  BY <1>2, <1>4, <1>5 DEF RedirInv
<1>7. ~drop => \A fd \in LowFds \ overlooked :
        fds'[fd] = IF redirlist[n].renamed[fd] = EMPTY THEN fds[fd] ELSE redirlist[n].before[fd]
  BY <1>1, <1>2, PoppedHolds
<1> QED BY <1>1, <1>6, <1>7

\* A shell without tables: no copies are open.
LEMMA NoTables ==
  ASSUME RedirInv, redirlist' = <<>>,
         TablesHold(fds', closed_redirs', redirlist', 0, overlooked', inherited'),
         Few(inherited'), ~forked' => inherited' = {},
         redirphase' \in {"body", "subshell"}
  PROVE  RedirInv'
<1>1. redirlist' \in Seq(Redirtab) /\ Len(redirlist') = 0 /\ 0 <= MaxFrames
  BY RedirAssumption
<1> QED BY <1>1 DEF RedirInv

LEMMA NoneOpenAbove ==
  ASSUME NEW tab, NEW closed, NEW list, NEW m, NEW over, NEW kept, NEW other
  PROVE  TablesHold(tab, closed, list, 0, over, kept) => TablesHold(tab, closed, other, 0, over, kept)
BY DEF TablesHold, CopiesOpen, CopiesApart, CopiesNew, CopiesRight

\* The copies of the tables in force.
LEMMA SavesAre ==
  ASSUME NEW closed, NEW over, NEW kept, redirlist \in Seq(Redirtab),
         TablesHold(fds, closed, redirlist, Len(redirlist), over, kept)
  PROVE  /\ \A d \in Low..MaxFd : fds[d] # None <=> d \in kept \/ d \in Saves
         /\ \A s \in Saves : /\ s \in Low..MaxFd /\ s \notin kept
                             /\ \E i \in 1..Len(redirlist) : \E c \in LowFds :
                                  redirlist[i].renamed[c] = s
<1> DEFINE n == Len(redirlist)
<1>1. /\ DOMAIN redirlist = 1..n
      /\ \A i \in 1..n : redirlist[i] \in Redirtab
  BY DEF TablesHold
<1> HIDE DEF n
<1>2. ASSUME NEW s \in Saves
      PROVE  /\ s \in Low..MaxFd /\ s \notin kept
             /\ \E i \in 1..n : \E c \in LowFds : redirlist[i].renamed[c] = s
  <2>1. PICK i \in 1..n, c \in LowFds : s = redirlist[i].renamed[c]
    BY <1>1 DEF Saves, ToSet
  <2>2. s \in Low..MaxFd
    BY <1>1, <2>1 DEF Saves, Redirtab
  <2>3. s \notin kept
    BY <2>1 DEF TablesHold, CopiesNew, n
  <2> QED BY <2>1, <2>2, <2>3
<1>3. ASSUME NEW d \in Low..MaxFd
      PROVE  d \in Saves <=> \E i \in 1..n : \E c \in LowFds : redirlist[i].renamed[c] = d
  <2>1. ASSUME NEW i \in 1..n, NEW c \in LowFds, redirlist[i].renamed[c] = d PROVE d \in Saves
    <3>1. redirlist[i] \in ToSet(redirlist) /\ d # EMPTY /\ d # CLOSED
      BY <1>1, LowFdsAre DEF ToSet
    <3> QED BY <2>1, <3>1 DEF Saves
  <2> QED BY <1>2, <2>1
<1>4. ASSUME NEW d \in Low..MaxFd
      PROVE  fds[d] # None <=> d \in kept \/ d \in Saves
  <2>1. fds[d] # None <=> d \in kept \/ \E i \in 1..n : \E c \in LowFds :
                                           redirlist[i].renamed[c] = d
    BY DEF TablesHold, CopiesOpen, n
  <2> QED BY <1>3, <2>1
<1> QED BY <1>2, <1>4 DEF n

LEMMA RedirNextKeeps ==
  ASSUME RedirInv, RedirNext
  PROVE  RedirInv'
<1>0. TablesHold(fds, closed_redirs, redirlist, Len(redirlist), overlooked, inherited)
  BY DEF RedirInv
<1>1. CASE pushredir
  BY <1>1, pushredirKeeps
<1>2. CASE run_body
  BY <1>2 DEF run_body, RedirInv
<1>3. CASE fork_redir
  <2> DEFINE n == Len(redirlist)
             h == [p \in (1..MaxFrames) \X LowFds |-> redirlist[p[1]].renamed[p[2]]]
  <2>1. /\ redirlist' = <<>> /\ redirphase' = "subshell" /\ closed_redirs' = closed_redirs
        /\ overlooked' = overlooked /\ fds' = fds /\ inherited' = Saves /\ forked' = TRUE
        /\ inherited = {} /\ n <= MaxFrames /\ n \in Nat /\ redirlist \in Seq(Redirtab)
    BY <1>3 DEF fork_redir, RedirInv
  <2>2. \A d \in Low..MaxFd : fds[d] # None <=> d \in Saves
    BY <1>0, <2>1, SavesAre
  <2>3. \A s \in Saves : s \in Low..MaxFd /\ \E i \in 1..n : \E c \in LowFds :
                          redirlist[i].renamed[c] = s
    BY <1>0, <2>1, SavesAre
  <2>4. TablesHold(fds, closed_redirs, <<>>, 0, overlooked, Saves)
    <3>1. CopiesOpen(fds, <<>>, 0, Saves)
      BY <2>2 DEF CopiesOpen
    <3>2. CopiesApart(<<>>, 0) /\ CopiesRight(fds, <<>>, 0, overlooked) /\ CopiesNew(<<>>, 0, Saves)
      BY DEF CopiesApart, CopiesRight, CopiesNew
    <3>3. Saves \subseteq Low..MaxFd
      BY <2>3
    <3> QED BY <1>0, <3>1, <3>2, <3>3 DEF TablesHold
  <2>5. ASSUME NEW s \in Saves PROVE \E i \in 1..MaxFrames : \E c \in LowFds : h[<<i, c>>] = s
    <3>1. PICK i \in 1..n, c \in LowFds : redirlist[i].renamed[c] = s
      BY <2>3
    <3>2. i \in 1..MaxFrames
      BY <2>1, RedirAssumption
    <3>3. h[<<i, c>>] = s
      BY <3>1, <3>2
    <3> QED BY <3>2, <3>3
  <2> HIDE DEF h
  <2>6. Few(Saves)
    BY <2>5 DEF Few, Taken
  <2> QED BY <2>1, <2>4, <2>6, NoTables
<1>4. CASE unwindredir
  <2>1. /\ fds' = Unwound(redirlist).fds /\ closed_redirs' = Unwound(redirlist).closed
        /\ redirlist' = <<>> /\ redirphase' = "body" /\ overlooked' = overlooked
        /\ inherited' = inherited /\ forked' = forked
        /\ Few(inherited) /\ (~forked => inherited = {})
    BY <1>4 DEF unwindredir, RedirInv
  <2>2. TablesHold(fds', closed_redirs', redirlist, 0, overlooked, inherited)
    BY <2>1, UnwoundHolds
  <2>3. TablesHold(fds', closed_redirs', redirlist', 0, overlooked, inherited)
    BY <2>2, NoneOpenAbove
  <2> QED BY <2>1, <2>3, NoTables
<1>5. ASSUME NEW fd \in LowFds, NEW f \in Files, redirect_subshell(fd, f) PROVE RedirInv'
  <2>1. /\ redirphase = "subshell" /\ redirlist = <<>> /\ redirlist' = redirlist
        /\ closed_redirs' = closed_redirs /\ redirphase' = redirphase
        /\ fds' = [fds EXCEPT ![fd] = f]
        /\ overlooked' = overlooked \cup ({fd} \cap closed_redirs)
        /\ Len(redirlist) = 0 /\ inherited' = inherited /\ forked' = forked
        /\ Few(inherited) /\ (~forked => inherited = {})
    BY <1>5 DEF redirect_subshell, RedirInv
  <2>2. fds \in [0..MaxFd -> FilesOpen] /\ f \in FilesOpen /\ fd \in 0..MaxFd
    BY <1>0, LowFdsAre DEF TablesHold, FilesOpen
  <2>3. fds' \in [0..MaxFd -> FilesOpen]
    BY <2>1, <2>2
  <2>4. \A d \in 0..MaxFd : d # fd => fds'[d] = fds[d]
    BY <2>1, <2>2
  <2>5. CopiesOpen(fds', redirlist', 0, inherited)
    <3>1. \A d \in Low..MaxFd : fds'[d] = fds[d]
      BY <2>4, LowFdsAre
    <3>2. CopiesOpen(fds, redirlist, 0, inherited)
      BY <1>0, <2>1 DEF TablesHold
    <3> QED BY <3>1, <3>2 DEF CopiesOpen
  <2>6. /\ CopiesApart(redirlist', 0) /\ CopiesRight(fds', redirlist', 0, overlooked')
        /\ CopiesNew(redirlist', 0, inherited)
    BY DEF CopiesApart, CopiesRight, CopiesNew
  <2>7. \A d \in closed_redirs' \ overlooked' : fds'[d] = None
    <3> SUFFICES ASSUME NEW d \in closed_redirs' \ overlooked' PROVE fds'[d] = None
      OBVIOUS
    <3>1. d # fd /\ d \in closed_redirs \ overlooked /\ d \in 0..MaxFd
      BY <1>0, <2>1, LowFdsAre DEF TablesHold
    <3> QED BY <1>0, <2>4, <3>1 DEF TablesHold
  <2>8. TablesHold(fds', closed_redirs', redirlist', 0, overlooked', inherited')
    BY <1>0, <2>1, <2>3, <2>5, <2>6, <2>7 DEF TablesHold
  <2> QED BY <2>1, <2>8, NoTables
<1>6. ASSUME NEW fd \in LowFds, NEW f \in Files, redirect_file(fd, f) PROVE RedirInv'
  BY <1>6, redirectKeeps
<1>7. ASSUME NEW fd \in LowFds, NEW d \in LowFds, redirect_dup(fd, d) PROVE RedirInv'
  BY <1>7, redirectKeeps
<1>8. ASSUME NEW fd \in LowFds, redirect_close(fd) PROVE RedirInv'
  BY <1>8, redirectKeeps
<1>9. ASSUME NEW drop \in BOOLEAN, popredir(drop) PROVE RedirInv'
  BY <1>9, popredirKeeps
<1> QED BY <1>1, <1>2, <1>3, <1>4, <1>5, <1>6, <1>7, <1>8, <1>9 DEF RedirNext

LEMMA RedirInvSound ==
  ASSUME RedirInv
  PROVE  DescriptorsSound
<1> DEFINE n == Len(redirlist)
<1>1. /\ DOMAIN redirlist = 1..n /\ redirlist \in Seq(Redirtab)
      /\ TablesHold(fds, closed_redirs, redirlist, n, overlooked, inherited)
      /\ \A i \in 1..n : redirlist[i] \in Redirtab
  BY DEF RedirInv, TablesHold
<1>2. /\ \A d \in Low..MaxFd : fds[d] # None <=> d \in inherited \/ d \in Saves
      /\ \A s \in Saves : s \in Low..MaxFd /\ s \notin inherited
  BY <1>1, SavesAre
<1> HIDE DEF n
<1>3. /\ {fd \in Low..MaxFd : fds[fd] # None} = Saves \cup inherited
      /\ Saves \cap inherited = {}
  <2>1. inherited \subseteq Low..MaxFd
    BY <1>1 DEF TablesHold
  <2> QED BY <1>2, <2>1
<1>4. \A i, j \in DOMAIN redirlist : \A c, d \in LowFds :
        redirlist[i].renamed[c] = redirlist[j].renamed[d] /\ redirlist[i].renamed[c] >= 0
          => i = j /\ c = d
  BY <1>1 DEF TablesHold, CopiesApart
<1>5. MarkedAreClosed
  BY <1>1 DEF TablesHold, MarkedAreClosed
<1> QED BY <1>3, <1>4, <1>5 DEF DescriptorsSound, NoDescriptorLeaks

Actions == {"null", "ignore", "run"}
Modes == {"unknown", "dfl", "catch", "ign", "hard"}
Dispositions == {"dfl", "catch", "ign"}

Dotrap == [at : Nat, acting : BOOLEAN]

\* A signal found ignored that stays so, whatever its trap.
Hard(fnd, sh, s) == fnd = "ign" /\ ~(sh.i /\ s = "TSTP")

\* What sigmode says of a signal is right.
ModeOK(mode, disp, fnd, sh, s) ==
  /\ mode \in Modes /\ disp \in Dispositions /\ fnd \in {"dfl", "ign"}
  /\ disp = IF mode = "unknown" THEN fnd ELSE IF mode = "hard" THEN "ign" ELSE mode
  /\ IF Hard(fnd, sh, s) THEN disp = "ign" /\ mode \in {"unknown", "hard"} ELSE mode # "hard"

\* What the kernel may do with a signal, by its trap.
Allowed(tr, sh, s) ==
  IF tr = "run" THEN {"catch"} ELSE IF tr = "ignore" THEN {"ign"}
  ELSE {"dfl"} \cup {d \in {"catch"} : s = "INT"}
               \cup {d \in {"ign"} : sh.i /\ sh.root /\ s \in {"TERM", "TSTP"}}

SignalOK(tr, mode, disp, fnd, sh, s) ==
  /\ ModeOK(mode, disp, fnd, sh, s)
  /\ ~Hard(fnd, sh, s) => disp \in Allowed(tr, sh, s)

Remembered(got, pending, cut, calls) ==
  got # {} /\ ~cut =>
    pending \/ \A s \in got : \E k \in 1..Len(calls) : calls[k].at <= Number(s)

\* The inductive invariant of traps and signals.
TrapInv ==
  /\ trap \in [Signals \cup {"EXIT"} -> Actions]
  /\ found \in [Signals -> {"dfl", "ign"}]
  /\ sigmode \in [Signals -> Modes] /\ disposition \in [Signals -> Dispositions]
  /\ shell \in [i : BOOLEAN, root : BOOLEAN]
  /\ trapcnt = Cardinality({s \in DOMAIN trap : trap[s] = "run"})
  /\ \A s \in Signals : SignalOK(trap[s], sigmode[s], disposition[s], found[s], shell, s)
  /\ executed # NoTable =>
       \A s \in Signals : executed[s] = "ign" <=> trap[s] = "ignore" \/ Hard(found[s], shell, s)
  /\ gotsig \in SUBSET Signals
  /\ dotraps \in Seq(Dotrap)
  /\ Remembered(gotsig, pending_sig, cutshort, dotraps)

LEMMA SignalsAre ==
  /\ Signals \subseteq {"INT", "TERM", "TSTP", "USR"} /\ "EXIT" \notin Signals
  /\ IsFiniteSet(Signals \cup {"EXIT"})
  /\ SigOrder \in Seq({"INT", "TERM", "TSTP", "USR"})
  /\ Len(SigOrder) \in Nat /\ DOMAIN SigOrder = 1..Len(SigOrder)
  /\ \A s \in Signals : Number(s) \in 1..Len(SigOrder) /\ SigOrder[Number(s)] = s
<1>1. SigOrder \in Seq({"INT", "TERM", "TSTP", "USR"})
  BY TrapAssumption
<1>2. Len(SigOrder) \in Nat /\ DOMAIN SigOrder = 1..Len(SigOrder)
      /\ \A k \in 1..Len(SigOrder) : SigOrder[k] \in {"INT", "TERM", "TSTP", "USR"}
  BY <1>1
<1>3. Signals \subseteq {"INT", "TERM", "TSTP", "USR"}
  BY <1>2 DEF Signals, ToSet
<1>4. IsFiniteSet(Signals \cup {"EXIT"})
  <2>1. IsFiniteSet({"INT"}) /\ IsFiniteSet({"TERM"}) /\ IsFiniteSet({"TSTP"})
        /\ IsFiniteSet({"USR"}) /\ IsFiniteSet({"EXIT"})
    BY FS_Singleton
  <2>2. IsFiniteSet((({"INT"} \cup {"TERM"}) \cup ({"TSTP"} \cup {"USR"})) \cup {"EXIT"})
    BY <2>1, FS_Union
  <2>3. Signals \cup {"EXIT"} \subseteq
          (({"INT"} \cup {"TERM"}) \cup ({"TSTP"} \cup {"USR"})) \cup {"EXIT"}
    BY <1>3
  <2> QED BY <2>2, <2>3, FS_Subset
<1>5. ASSUME NEW s \in Signals
      PROVE  Number(s) \in 1..Len(SigOrder) /\ SigOrder[Number(s)] = s
  <2>1. \E k \in DOMAIN SigOrder : SigOrder[k] = s
    BY DEF Signals, ToSet
  <2> QED BY <1>2, <2>1 DEF Number
<1> QED BY <1>1, <1>2, <1>3, <1>4, <1>5

\* What setsignal makes of a signal, if it sets it.
SetRight(mode, disp, oldmode, olddisp, act, sets, vforked, fnd, sh, s) ==
  /\ ~sets => mode = oldmode /\ disp = olddisp
  /\ Hard(fnd, sh, s) => mode = oldmode /\ disp = olddisp
  /\ ~Hard(fnd, sh, s) /\ sets => disp = act
  /\ mode \in Modes /\ disp \in Dispositions
  /\ ~vforked => ModeOK(mode, disp, fnd, sh, s)

\* setsignal leaves a signal right, and treats it as its trap says, unless it
\* was found ignored for good.
LEMMA SetOne ==
  ASSUME NEW traps, NEW modes, NEW disps, NEW sh \in [i : BOOLEAN, root : BOOLEAN],
         NEW vforked \in BOOLEAN, NEW set, NEW s \in Signals, NEW fnd, traps[s] \in Actions,
         ModeOK(modes[s], disps[s], fnd, sh, s)
  PROVE  SetRight(ModesAfter(traps, modes, disps, sh, vforked, set)[s],
                  DispositionsAfter(traps, modes, disps, sh, vforked, set)[s],
                  modes[s], disps[s], ActionOf(traps, sh, vforked, s), s \in set,
                  vforked, fnd, sh, s)
<1> DEFINE mode == ModesAfter(traps, modes, disps, sh, vforked, set)[s]
           disp == DispositionsAfter(traps, modes, disps, sh, vforked, set)[s]
           act  == ActionOf(traps, sh, vforked, s)
           again == s \in set /\ SetAgain(traps, modes, disps, sh, vforked, s)
<1>1. act \in {"catch", "ign", "dfl"}
  BY DEF ActionOf, Actions
<1>2. mode = IF again /\ ~vforked THEN act ELSE modes[s]
  BY DEF ModesAfter
<1>3. disp = IF again THEN act ELSE disps[s]
  BY DEF DispositionsAfter
<1>4. again <=> s \in set /\ KnownMode(modes, disps, sh, s) # "hard"
                /\ KnownMode(modes, disps, sh, s) # act
  BY DEF SetAgain
<1>5. KnownMode(modes, disps, sh, s) =
        IF modes[s] # "unknown" THEN modes[s]
        ELSE IF disps[s] # "ign" THEN "reset"
        ELSE IF sh.i /\ s = "TSTP" THEN "ign" ELSE "hard"
  BY DEF KnownMode
<1> HIDE DEF mode, disp, act, again
<1>6. Hard(fnd, sh, s) => ~again
  BY <1>4, <1>5 DEF ModeOK, Hard
<1>7. ~Hard(fnd, sh, s) /\ s \in set => disp = act
  BY <1>1, <1>3, <1>4, <1>5 DEF ModeOK, Hard, Modes, Dispositions
<1>8. mode \in Modes /\ disp \in Dispositions
  BY <1>1, <1>2, <1>3 DEF ModeOK, Modes, Dispositions
<1>9. ~vforked => ModeOK(mode, disp, fnd, sh, s)
  <2>1. CASE again
    BY <1>1, <1>2, <1>3, <1>6, <1>8, <2>1 DEF ModeOK
  <2>2. CASE ~again
    BY <1>2, <1>3, <2>2
  <2> QED BY <2>1, <2>2
<1>10. s \notin set => mode = modes[s] /\ disp = disps[s]
  BY <1>2, <1>3, <1>4
<1>11. Hard(fnd, sh, s) => mode = modes[s] /\ disp = disps[s]
  BY <1>2, <1>3, <1>6
<1>12. SetRight(mode, disp, modes[s], disps[s], act, s \in set, vforked, fnd, sh, s)
  BY <1>7, <1>8, <1>9, <1>10, <1>11 DEF SetRight
<1> QED BY <1>12 DEF mode, disp, act

\* The actions are among those allowed.
LEMMA ActionsAllowed ==
  ASSUME NEW traps, NEW sh \in [i : BOOLEAN, root : BOOLEAN], NEW s, traps[s] \in Actions
  PROVE  /\ ActionOf(traps, sh, FALSE, s) \in Allowed(traps[s], sh, s)
         /\ ActionOf(traps, sh, TRUE, s) = "ign" <=> traps[s] = "ignore"
BY DEF ActionOf, Allowed, Actions

LEMMA SetSignals ==
  ASSUME NEW traps, NEW modes, NEW disps, NEW sh \in [i : BOOLEAN, root : BOOLEAN],
         NEW set, NEW s \in Signals, NEW fnd, traps[s] \in Actions,
         ModeOK(modes[s], disps[s], fnd, sh, s),
         s \notin set /\ ~Hard(fnd, sh, s) => disps[s] \in Allowed(traps[s], sh, s)
  PROVE  SignalOK(traps[s], ModesAfter(traps, modes, disps, sh, FALSE, set)[s],
                  DispositionsAfter(traps, modes, disps, sh, FALSE, set)[s], fnd, sh, s)
<1> DEFINE mode == ModesAfter(traps, modes, disps, sh, FALSE, set)[s]
           disp == DispositionsAfter(traps, modes, disps, sh, FALSE, set)[s]
<1>1. /\ s \notin set => disp = disps[s]
      /\ ~Hard(fnd, sh, s) /\ s \in set => disp = ActionOf(traps, sh, FALSE, s)
      /\ ModeOK(mode, disp, fnd, sh, s)
  <2>1. SetRight(mode, disp, modes[s], disps[s], ActionOf(traps, sh, FALSE, s), s \in set,
                 FALSE, fnd, sh, s)
    BY SetOne
  <2> HIDE DEF mode, disp
  <2> QED BY <2>1 DEF SetRight
<1>2. ActionOf(traps, sh, FALSE, s) \in Allowed(traps[s], sh, s)
  BY ActionsAllowed
<1> HIDE DEF mode, disp
<1>3. SignalOK(traps[s], mode, disp, fnd, sh, s)
  BY <1>1, <1>2 DEF SignalOK
<1> QED BY <1>3 DEF mode, disp

\* The traps that run are counted when one is replaced.
LEMMA TrapReplaced ==
  ASSUME TrapInv, NEW s \in Signals \cup {"EXIT"}, NEW action \in Actions
  PROVE  CountAfter(trap[s], action) =
           Cardinality({t \in DOMAIN trap : [trap EXCEPT ![s] = action][t] = "run"})
<1> DEFINE D == Signals \cup {"EXIT"}
           R == {t \in D : trap[t] = "run"}
           N == {t \in D : [trap EXCEPT ![s] = action][t] = "run"}
<1>1. trap \in [D -> Actions] /\ DOMAIN trap = D /\ s \in D
  BY DEF TrapInv
<1>2. IsFiniteSet(R) /\ Cardinality(R) \in Nat /\ trapcnt = Cardinality(R)
  <2>1. IsFiniteSet(R)
    BY SignalsAre, FS_Subset
  <2> QED BY <1>1, <2>1, FS_CardinalityType DEF TrapInv
<1>3. \A t \in D : [trap EXCEPT ![s] = action][t] = IF t = s THEN action ELSE trap[t]
  BY <1>1
<1>4. CASE action = "run" /\ trap[s] # "run"
  <2>1. N = R \cup {s} /\ s \notin R
    BY <1>1, <1>3, <1>4
  <2>2. Cardinality(N) = Cardinality(R) + 1
    BY <1>2, <2>1, FS_AddElement
  <2> QED BY <1>1, <1>2, <1>4, <2>2 DEF CountAfter
<1>5. CASE action # "run" /\ trap[s] = "run"
  <2>1. N = R \ {s} /\ s \in R
    BY <1>1, <1>3, <1>5
  <2>2. Cardinality(N) = Cardinality(R) - 1
    BY <1>2, <2>1, FS_RemoveElement
  <2> QED BY <1>1, <1>2, <1>5, <2>2 DEF CountAfter
<1>6. CASE action = "run" <=> trap[s] = "run"
  <2>1. N = R
    BY <1>1, <1>3, <1>6
  <2>2. CountAfter(trap[s], action) = trapcnt
    <3>1. CASE action = "run"
      BY <1>2, <1>6, <3>1 DEF CountAfter
    <3>2. CASE action # "run"
      BY <1>2, <1>6, <3>2 DEF CountAfter
    <3> QED BY <3>1, <3>2
  <2>3. Cardinality(N) = trapcnt
    BY <1>2, <2>1
  <2> HIDE DEF N
  <2>4. CountAfter(trap[s], action) = Cardinality(N)
    BY <2>2, <2>3
  <2> QED BY <1>1, <2>4 DEF N
<1> QED BY <1>4, <1>5, <1>6

LEMMA TrapInitHolds == TrapInit => TrapInv
<1> SUFFICES ASSUME TrapInit PROVE TrapInv
  OBVIOUS
<1> DEFINE unknown == [s \in Signals |-> "unknown"]
<1>1. /\ trap = [s \in Signals \cup {"EXIT"} |-> "null"] /\ trapcnt = 0
      /\ found \in [Signals -> {"dfl", "ign"}]
      /\ shell \in [i : BOOLEAN, root : BOOLEAN]
      /\ gotsig = {} /\ dotraps = <<>> /\ executed = NoTable
      /\ sigmode = ModesAfter(trap, unknown, found, shell, FALSE, ShellsOwn)
      /\ disposition = DispositionsAfter(trap, unknown, found, shell, FALSE, ShellsOwn)
      /\ shell.root
  BY DEF TrapInit
<1>2. trap \in [Signals \cup {"EXIT"} -> Actions]
  BY <1>1 DEF Actions
<1>3. ASSUME NEW s \in Signals
      PROVE  SignalOK(trap[s], sigmode[s], disposition[s], found[s], shell, s)
  <2>1. trap[s] = "null" /\ unknown[s] = "unknown" /\ found[s] \in {"dfl", "ign"}
    BY <1>1
  <2>2. ModeOK(unknown[s], found[s], found[s], shell, s)
    BY <2>1 DEF ModeOK, Hard, Modes, Dispositions
  <2>3. s \notin ShellsOwn /\ ~Hard(found[s], shell, s) => found[s] \in Allowed(trap[s], shell, s)
    BY <2>1 DEF ShellsOwn, Hard, Allowed
  <2>4. trap[s] \in Actions
    BY <1>2
  <2> HIDE DEF unknown
  <2> QED BY <1>1, <2>2, <2>3, <2>4, SetSignals
<1>4. sigmode \in [Signals -> Modes] /\ disposition \in [Signals -> Dispositions]
  <2>1. sigmode = [s \in Signals |-> sigmode[s]] /\ disposition = [s \in Signals |-> disposition[s]]
    BY <1>1 DEF ModesAfter, DispositionsAfter
  <2>2. \A s \in Signals : sigmode[s] \in Modes /\ disposition[s] \in Dispositions
    BY <1>3 DEF SignalOK, ModeOK
  <2> QED BY <2>1, <2>2
<1>5. {s \in DOMAIN trap : trap[s] = "run"} = {}
  BY <1>1
<1>6. trapcnt = Cardinality({s \in DOMAIN trap : trap[s] = "run"})
  BY <1>1, <1>5, FS_EmptySet
<1>7. dotraps \in Seq(Dotrap) /\ gotsig \in SUBSET Signals
      /\ Remembered(gotsig, pending_sig, cutshort, dotraps)
  BY <1>1 DEF Remembered
<1> QED BY <1>1, <1>2, <1>3, <1>4, <1>6, <1>7 DEF TrapInv

LEMMA trapcmdKeeps ==
  ASSUME TrapInv, NEW s \in Signals \cup {"EXIT"}, NEW action \in Actions, trapcmd(s, action)
  PROVE  TrapInv'
<1>1. /\ trap' = [trap EXCEPT ![s] = action] /\ trapcnt' = CountAfter(trap[s], action)
      /\ found' = found /\ shell' = shell /\ executed' = executed /\ executed = NoTable
      /\ gotsig' = gotsig /\ pending_sig' = pending_sig /\ cutshort' = cutshort
      /\ dotraps' = dotraps
  BY DEF trapcmd, deliveryVars, Running
<1>2. trap \in [Signals \cup {"EXIT"} -> Actions] /\ shell \in [i : BOOLEAN, root : BOOLEAN]
  BY DEF TrapInv
<1>3. trap' \in [Signals \cup {"EXIT"} -> Actions]
      /\ \A t \in Signals \cup {"EXIT"} : trap'[t] = IF t = s THEN action ELSE trap[t]
  BY <1>1, <1>2
<1>4. ASSUME NEW t \in Signals
      PROVE  SignalOK(trap'[t], sigmode'[t], disposition'[t], found[t], shell, t)
  <2>0. SignalOK(trap[t], sigmode[t], disposition[t], found[t], shell, t)
    BY DEF TrapInv
  <2>1. CASE s = "EXIT"
    <3>1. sigmode' = sigmode /\ disposition' = disposition /\ t # s
      BY <2>1, SignalsAre DEF trapcmd
    <3> QED BY <1>3, <2>0, <3>1
  <2>2. CASE s # "EXIT"
    <3>1. /\ sigmode' = ModesAfter(trap', sigmode, disposition, shell, FALSE, {s})
          /\ disposition' = DispositionsAfter(trap', sigmode, disposition, shell, FALSE, {s})
      BY <2>2 DEF trapcmd, setsignal
    <3>2. trap'[t] \in Actions
      BY <1>3
    <3>3. t \notin {s} /\ ~Hard(found[t], shell, t) => disposition[t] \in Allowed(trap'[t], shell, t)
      BY <1>3, <2>0 DEF SignalOK
    <3>4. ModeOK(sigmode[t], disposition[t], found[t], shell, t)
      BY <2>0 DEF SignalOK
    <3>5. SignalOK(trap'[t], ModesAfter(trap', sigmode, disposition, shell, FALSE, {s})[t],
                   DispositionsAfter(trap', sigmode, disposition, shell, FALSE, {s})[t],
                   found[t], shell, t)
      BY <1>2, <3>2, <3>3, <3>4, SetSignals
    <3> QED BY <3>1, <3>5
  <2> QED BY <2>1, <2>2
<1>5. sigmode' \in [Signals -> Modes] /\ disposition' \in [Signals -> Dispositions]
  <2>1. sigmode' = [t \in Signals |-> sigmode'[t]] /\ disposition' = [t \in Signals |-> disposition'[t]]
    <3>1. CASE s = "EXIT"
      <4>1. sigmode' = sigmode /\ disposition' = disposition
        BY <3>1 DEF trapcmd
      <4> QED BY <4>1 DEF TrapInv
    <3>2. CASE s # "EXIT"
      BY <3>2 DEF trapcmd, setsignal, ModesAfter, DispositionsAfter
    <3> QED BY <3>1, <3>2
  <2>2. \A t \in Signals : sigmode'[t] \in Modes /\ disposition'[t] \in Dispositions
    BY <1>4 DEF SignalOK, ModeOK
  <2> QED BY <2>1, <2>2
<1>6. trapcnt' = Cardinality({t \in DOMAIN trap' : trap'[t] = "run"})
  <2>1. DOMAIN trap' = DOMAIN trap
    BY <1>2, <1>3
  <2> QED BY <1>1, <2>1, TrapReplaced
<1> QED BY <1>1, <1>3, <1>4, <1>5, <1>6 DEF TrapInv

\* What a step keeps that leaves traps, signals and the shell alone.
LEMMA DispositionsKept ==
  ASSUME TrapInv, UNCHANGED dispositionVars, executed' \in {executed, NoTable},
         gotsig' \in SUBSET Signals, dotraps' \in Seq(Dotrap),
         Remembered(gotsig', pending_sig', cutshort', dotraps')
  PROVE  TrapInv'
<1>1. /\ trap' = trap /\ trapcnt' = trapcnt /\ sigmode' = sigmode /\ disposition' = disposition
      /\ found' = found /\ shell' = shell
  BY DEF dispositionVars
<1>2. executed' # NoTable => executed' = executed
  OBVIOUS
<1>3. /\ trap \in [Signals \cup {"EXIT"} -> Actions]
      /\ found \in [Signals -> {"dfl", "ign"}]
      /\ sigmode \in [Signals -> Modes] /\ disposition \in [Signals -> Dispositions]
      /\ shell \in [i : BOOLEAN, root : BOOLEAN]
      /\ trapcnt = Cardinality({s \in DOMAIN trap : trap[s] = "run"})
      /\ \A s \in Signals : SignalOK(trap[s], sigmode[s], disposition[s], found[s], shell, s)
      /\ executed # NoTable =>
           \A s \in Signals : executed[s] = "ign" <=> trap[s] = "ignore" \/ Hard(found[s], shell, s)
  BY DEF TrapInv
<1>4. executed' # NoTable =>
        \A s \in Signals : executed'[s] = "ign" <=> trap[s] = "ignore" \/ Hard(found[s], shell, s)
  BY <1>2, <1>3
<1> QED BY <1>1, <1>3, <1>4 DEF TrapInv

LEMMA vforkexecKeeps ==
  ASSUME TrapInv, vforkexec
  PROVE  TrapInv'
<1> DEFINE set   == IF shell.root /\ shell.i THEN ShellsOwn ELSE {}
           child == DispositionsAfter(trap, sigmode, disposition, shell, TRUE, set)
<1>1. /\ executed' = [s \in Signals |-> IF child[s] = "catch" THEN "dfl" ELSE child[s]]
      /\ sigmode' = ModesAfter(trap, sigmode, disposition, shell, TRUE, set)
      /\ trap' = trap /\ trapcnt' = trapcnt /\ disposition' = disposition /\ found' = found
      /\ shell' = shell /\ gotsig' = gotsig /\ pending_sig' = pending_sig
      /\ dotraps' = dotraps /\ cutshort' = cutshort
  BY DEF vforkexec, deliveryVars
<1>2. sigmode' = sigmode
  <2>1. sigmode' = [s \in Signals |-> sigmode[s]]
    BY <1>1 DEF ModesAfter
  <2>2. sigmode = [s \in Signals |-> sigmode[s]]
    BY DEF TrapInv
  <2> QED BY <2>1, <2>2
<1> HIDE DEF child
<1>3. ASSUME NEW s \in Signals
      PROVE  executed'[s] = "ign" <=> trap[s] = "ignore" \/ Hard(found[s], shell, s)
  <2>0. /\ trap[s] \in Actions /\ shell \in [i : BOOLEAN, root : BOOLEAN]
        /\ SignalOK(trap[s], sigmode[s], disposition[s], found[s], shell, s)
        /\ ModeOK(sigmode[s], disposition[s], found[s], shell, s)
    BY DEF TrapInv, SignalOK
  <2>1. SetRight(ModesAfter(trap, sigmode, disposition, shell, TRUE, set)[s], child[s],
                 sigmode[s], disposition[s], ActionOf(trap, shell, TRUE, s), s \in set,
                 TRUE, found[s], shell, s)
    BY <2>0, SetOne DEF child
  <2>2. executed'[s] = "ign" <=> child[s] = "ign"
    BY <1>1
  <2>3. CASE Hard(found[s], shell, s)
    <3>1. disposition[s] = "ign"
      BY <2>0, <2>3 DEF ModeOK
    <3> QED BY <2>1, <2>2, <2>3, <3>1 DEF SetRight
  <2>4. CASE ~Hard(found[s], shell, s) /\ s \in set
    <3>1. child[s] = ActionOf(trap, shell, TRUE, s)
      BY <2>1, <2>4 DEF SetRight
    <3> QED BY <2>0, <2>2, <2>4, <3>1, ActionsAllowed
  <2>5. CASE ~Hard(found[s], shell, s) /\ s \notin set
    <3>1. child[s] = disposition[s]
      BY <2>1, <2>5 DEF SetRight
    <3>2. disposition[s] \in Allowed(trap[s], shell, s)
      BY <2>0, <2>5 DEF SignalOK
    <3>3. ~(shell.i /\ shell.root /\ s \in {"TERM", "TSTP"})
      BY <2>5 DEF ShellsOwn
    <3> QED BY <2>0, <2>2, <2>5, <3>1, <3>2, <3>3 DEF Allowed, Actions
  <2> QED BY <2>3, <2>4, <2>5
<1> QED BY <1>1, <1>2, <1>3 DEF TrapInv

LEMMA subshellKeeps ==
  ASSUME TrapInv, NEW background \in BOOLEAN, subshell(background)
  PROVE  TrapInv'
<1> DEFINE traps   == [s \in DOMAIN trap |-> IF trap[s] = "run" THEN "null" ELSE trap[s]]
           child   == [shell EXCEPT !.root = FALSE]
           modes   == ModesAfter(traps, sigmode, disposition, child, FALSE, ResetSignals)
           disps   == DispositionsAfter(traps, sigmode, disposition, child, FALSE, ResetSignals)
           ignored == IF background /\ ~(shell.root /\ shell.i) THEN {"INT"} \cap Signals ELSE {}
           hard    == [s \in Signals |-> IF s \in ignored THEN "hard" ELSE modes[s]]
           ign     == [s \in Signals |-> IF s \in ignored THEN "ign" ELSE disps[s]]
           own     == IF shell.root /\ shell.i THEN ShellsOwn ELSE {}
           fnd     == [s \in Signals |-> IF s \in ignored THEN "ign" ELSE found[s]]
<1>0. /\ trap \in [Signals \cup {"EXIT"} -> Actions] /\ DOMAIN trap = Signals \cup {"EXIT"}
      /\ shell \in [i : BOOLEAN, root : BOOLEAN] /\ found \in [Signals -> {"dfl", "ign"}]
      /\ \A s \in Signals : SignalOK(trap[s], sigmode[s], disposition[s], found[s], shell, s)
  BY DEF TrapInv
<1>1. /\ trap' = traps /\ trapcnt' = 0 /\ shell' = child
      /\ sigmode' = ModesAfter(traps, hard, ign, child, FALSE, own)
      /\ disposition' = DispositionsAfter(traps, hard, ign, child, FALSE, own)
      /\ found' = fnd
      /\ dotraps' = <<>> /\ cutshort' = (cutshort \/ dotraps # <<>>)
      /\ gotsig' = gotsig /\ pending_sig' = pending_sig /\ executed' = executed
      /\ executed = NoTable
  BY DEF subshell, Running
<1>2. /\ traps \in [Signals \cup {"EXIT"} -> Actions]
      /\ \A s \in Signals \cup {"EXIT"} : traps[s] = IF trap[s] = "run" THEN "null" ELSE trap[s]
  BY <1>0 DEF Actions
<1>3. /\ child \in [i : BOOLEAN, root : BOOLEAN] /\ child.i = shell.i /\ child.root = FALSE
      /\ fnd \in [Signals -> {"dfl", "ign"}]
  BY <1>0
<1>4. \A s \in Signals : /\ hard[s] = IF s \in ignored THEN "hard" ELSE modes[s]
                         /\ ign[s] = IF s \in ignored THEN "ign" ELSE disps[s]
                         /\ fnd[s] = IF s \in ignored THEN "ign" ELSE found[s]
                         /\ s \in ignored => s = "INT"
  OBVIOUS
<1> HIDE DEF traps, child, modes, disps, hard, ign, fnd
<1>5. ASSUME NEW s \in Signals
      PROVE  SignalOK(traps[s], ModesAfter(traps, hard, ign, child, FALSE, own)[s],
                      DispositionsAfter(traps, hard, ign, child, FALSE, own)[s], fnd[s], child, s)
  <2>0. /\ traps[s] \in Actions
        /\ SignalOK(trap[s], sigmode[s], disposition[s], found[s], shell, s)
        /\ ModeOK(sigmode[s], disposition[s], found[s], child, s)
        /\ Hard(found[s], child, s) <=> Hard(found[s], shell, s)
    BY <1>0, <1>2, <1>3 DEF SignalOK, ModeOK, Hard
  <2>1. SetRight(modes[s], disps[s], sigmode[s], disposition[s],
                 ActionOf(traps, child, FALSE, s), s \in ResetSignals, FALSE, found[s], child, s)
    BY <1>3, <2>0, SetOne DEF modes, disps
  <2>2. ModeOK(hard[s], ign[s], fnd[s], child, s)
    <3>1. CASE s \in ignored
      BY <1>4, <3>1 DEF ModeOK, Hard, Modes, Dispositions
    <3>2. CASE s \notin ignored
      BY <1>4, <2>1, <3>2 DEF SetRight
    <3> QED BY <3>1, <3>2
  <2>3. s \notin own /\ ~Hard(fnd[s], child, s) => ign[s] \in Allowed(traps[s], child, s)
    <3> SUFFICES ASSUME s \notin own, ~Hard(fnd[s], child, s)
                 PROVE  ign[s] \in Allowed(traps[s], child, s)
      OBVIOUS
    <3>1. s \notin ignored
      BY <1>4 DEF Hard
    <3>2. ign[s] = disps[s] /\ ~Hard(found[s], child, s)
      BY <1>4, <3>1
    <3>3. CASE trap[s] = "run"
      <4>1. s \in ResetSignals
        BY <3>3 DEF ResetSignals
      <4>2. disps[s] = ActionOf(traps, child, FALSE, s)
        BY <2>1, <3>2, <4>1 DEF SetRight
      <4>3. ActionOf(traps, child, FALSE, s) \in Allowed(traps[s], child, s)
        BY <1>3, <2>0, ActionsAllowed
      <4> QED BY <3>2, <4>2, <4>3
    <3>4. CASE trap[s] # "run"
      <4>1. s \notin ResetSignals /\ traps[s] = trap[s]
        BY <1>2, <3>4 DEF ResetSignals
      <4>2. disps[s] = disposition[s]
        BY <2>1, <4>1 DEF SetRight
      <4>3. disposition[s] \in Allowed(trap[s], shell, s)
        BY <2>0, <3>2 DEF SignalOK
      <4>4. ~(shell.i /\ shell.root /\ s \in {"TERM", "TSTP"})
        BY DEF ShellsOwn
      <4> QED BY <3>2, <4>1, <4>2, <4>3, <4>4 DEF Allowed
    <3> QED BY <3>3, <3>4
  <2> HIDE DEF own, ignored
  <2> QED BY <1>3, <2>0, <2>2, <2>3, SetSignals
<1>6. sigmode' \in [Signals -> Modes] /\ disposition' \in [Signals -> Dispositions]
  <2>1. sigmode' = [s \in Signals |-> sigmode'[s]] /\ disposition' = [s \in Signals |-> disposition'[s]]
    <3> HIDE DEF own, ignored
    <3> QED BY <1>1 DEF ModesAfter, DispositionsAfter
  <2>2. \A s \in Signals : sigmode'[s] \in Modes /\ disposition'[s] \in Dispositions
    <3> HIDE DEF own, ignored
    <3> QED BY <1>1, <1>5 DEF SignalOK, ModeOK
  <2> QED BY <2>1, <2>2
<1>7. trapcnt' = Cardinality({s \in DOMAIN trap' : trap'[s] = "run"})
  <2>1. {s \in DOMAIN trap' : trap'[s] = "run"} = {}
    BY <1>1, <1>2
  <2> QED BY <1>1, <2>1, FS_EmptySet
<1>8. Remembered(gotsig', pending_sig', cutshort', dotraps')
  <2>1. Remembered(gotsig, pending_sig, cutshort, dotraps)
    BY DEF TrapInv
  <2>2. CASE dotraps = <<>>
    BY <1>1, <2>1, <2>2 DEF Remembered
  <2>3. CASE dotraps # <<>>
    BY <1>1, <2>3 DEF Remembered
  <2> QED BY <2>2, <2>3
<1>9. dotraps' \in Seq(Dotrap) /\ gotsig' \in SUBSET Signals
  BY <1>1 DEF TrapInv
<1>10. \A s \in Signals : SignalOK(trap'[s], sigmode'[s], disposition'[s], found'[s], shell', s)
  <2> HIDE DEF own, ignored
  <2> QED BY <1>1, <1>5
<1> QED BY <1>1, <1>2, <1>3, <1>6, <1>7, <1>8, <1>9, <1>10 DEF TrapInv

\* An exception leaves every dotrap there is.
LEMMA RaisedRemembers ==
  ASSUME TrapInv, Raised, (gotsig' = gotsig /\ pending_sig' = pending_sig) \/ pending_sig'
  PROVE  /\ executed' = NoTable /\ dotraps' \in Seq(Dotrap)
         /\ Remembered(gotsig', pending_sig', cutshort', dotraps')
<1>1. dotraps' = <<>> /\ cutshort' = (cutshort \/ dotraps # <<>>) /\ executed' = NoTable
  BY DEF Raised
<1>2. Remembered(gotsig, pending_sig, cutshort, dotraps)
  BY DEF TrapInv
<1>3. ASSUME pending_sig' PROVE Remembered(gotsig', pending_sig', cutshort', dotraps')
  BY <1>3 DEF Remembered
<1>4. ASSUME gotsig' = gotsig, pending_sig' = pending_sig
      PROVE  Remembered(gotsig', pending_sig', cutshort', dotraps')
  <2>1. CASE dotraps = <<>>
    BY <1>1, <1>2, <1>4, <2>1 DEF Remembered
  <2>2. CASE dotraps # <<>>
    BY <1>1, <2>2 DEF Remembered
  <2> QED BY <2>1, <2>2
<1>5. Remembered(gotsig', pending_sig', cutshort', dotraps')
  BY <1>3, <1>4
<1>6. dotraps' \in Seq(Dotrap)
  BY <1>1
<1> QED BY <1>1, <1>5, <1>6

LEMMA onsigKeeps ==
  ASSUME TrapInv, NEW s \in Signals, onsig(s)
  PROVE  TrapInv'
<1>1. gotsig' = gotsig \cup {s} /\ pending_sig' = TRUE /\ UNCHANGED dispositionVars
  BY DEF onsig
<1>2. gotsig' \in SUBSET Signals
  BY <1>1 DEF TrapInv
<1>3. CASE Raised
  BY <1>1, <1>2, <1>3, RaisedRemembers, DispositionsKept
<1>4. CASE dotraps' = dotraps /\ executed' = executed
  <2>1. Remembered(gotsig', pending_sig', cutshort', dotraps')
    BY <1>1 DEF Remembered
  <2>2. dotraps' \in Seq(Dotrap)
    BY <1>4 DEF TrapInv
  <2> QED BY <1>1, <1>2, <1>4, <2>1, <2>2, DispositionsKept
<1> QED BY <1>3, <1>4 DEF onsig

LEMMA dotrapKeeps ==
  ASSUME TrapInv, dotrap
  PROVE  TrapInv'
<1> DEFINE n == Len(dotraps)
           new == [at |-> 1, acting |-> FALSE]
<1>1. /\ dotraps' = Append(dotraps, new) /\ gotsig' = gotsig /\ cutshort' = cutshort
      /\ executed' = executed /\ UNCHANGED dispositionVars
  BY DEF dotrap
<1>2. dotraps \in Seq(Dotrap) /\ gotsig \in SUBSET Signals /\ new \in Dotrap /\ n \in Nat
  BY DEF TrapInv, Dotrap
<1>3. dotraps' \in Seq(Dotrap) /\ Len(dotraps') = n + 1 /\ dotraps'[n + 1] = new
  BY <1>1, <1>2
<1>4. \A s \in gotsig : new.at <= Number(s)
  BY <1>2, SignalsAre
<1> HIDE DEF new
<1>5. Remembered(gotsig', pending_sig', cutshort', dotraps')
  <2>1. n + 1 \in 1..(n + 1)
    BY <1>2
  <2> QED BY <1>1, <1>3, <1>4, <2>1 DEF Remembered
<1> QED BY <1>1, <1>2, <1>3, <1>5, DispositionsKept

LEMMA dotrap_nextKeeps ==
  ASSUME TrapInv, dotrap_next
  PROVE  TrapInv'
<1> DEFINE n == Len(dotraps)
           last == dotraps[n]
           came == {k \in DOMAIN SigOrder : k >= last.at /\ SigOrder[k] \in gotsig}
           s == SigOrder[Min(came)]
           back == Front(dotraps)
           next == [at |-> Min(came) + 1, acting |-> trap[s] = "run"]
<1>1. /\ cutshort' = cutshort /\ executed' = executed /\ UNCHANGED dispositionVars
      /\ dotraps # <<>> /\ Last(dotraps) = last
  BY DEF dotrap_next, Last
<1>2. /\ dotraps \in Seq(Dotrap) /\ gotsig \in SUBSET Signals /\ n \in Nat \ {0}
      /\ last \in Dotrap /\ Remembered(gotsig, pending_sig, cutshort, dotraps)
  <2>1. dotraps \in Seq(Dotrap) /\ dotraps # <<>>
    BY <1>1 DEF TrapInv
  <2>2. n \in Nat /\ n # 0
    BY <2>1
  <2>3. n \in 1..n
    BY <2>2
  <2> QED BY <2>1, <2>2, <2>3 DEF TrapInv
<1>3. /\ back = [k \in 1..(n - 1) |-> dotraps[k]] /\ n - 1 \in Nat
      /\ back \in Seq(Dotrap) /\ Len(back) = n - 1
  <2>1. back = [k \in 1..(n - 1) |-> dotraps[k]] /\ n - 1 \in Nat
    BY <1>2 DEF Front
  <2>2. back \in [1..(n - 1) -> Dotrap]
    BY <1>2, <2>1
  <2> QED BY <2>1, <2>2, SeqDef
<1>4. \A t \in Signals : t \in gotsig /\ last.at <= Number(t) => Number(t) \in came
  BY <1>2, SignalsAre
<1>5. came # {} => Min(came) \in came /\ \A k \in came : Min(came) <= k
  <2>1. came \in SUBSET Nat
    BY SignalsAre
  <2> HIDE DEF came
  <2>2. came # {} => \E m \in came : \A k \in came : m <= k
    BY <2>1, LeastElement
  <2> QED BY <2>2 DEF Min
<1>6. came # {} => Min(came) \in Nat
  BY <1>5, SignalsAre
<1>7. \/ came = {} /\ dotraps' = back /\ gotsig' = gotsig /\ pending_sig' = pending_sig
      \/ dotraps' = back /\ pending_sig' = TRUE /\ gotsig' = gotsig
      \/ came # {} /\ gotsig' = gotsig \ {s} /\ dotraps' = Append(back, next)
         /\ pending_sig' = pending_sig
  BY <1>1 DEF dotrap_next, LeavesOff
<1>8. CASE came = {} /\ dotraps' = back /\ gotsig' = gotsig /\ pending_sig' = pending_sig
  <2>1. Remembered(gotsig', pending_sig', cutshort', dotraps')
    <3> SUFFICES ASSUME gotsig # {}, ~cutshort, ~pending_sig, NEW t \in gotsig
                 PROVE  \E k \in 1..(n - 1) : back[k].at <= Number(t)
      BY <1>1, <1>3, <1>8 DEF Remembered
    <3>1. PICK k \in 1..n : dotraps[k].at <= Number(t)
      BY <1>2 DEF Remembered
    <3>2. k # n
      BY <1>2, <1>4, <1>8, <3>1
    <3>3. k \in 1..(n - 1)
      BY <1>2, <3>2
    <3> QED BY <1>3, <3>1, <3>3
  <2> QED BY <1>1, <1>2, <1>3, <1>8, <2>1, DispositionsKept
<1>9. CASE dotraps' = back /\ pending_sig' = TRUE /\ gotsig' = gotsig
  <2>1. Remembered(gotsig', pending_sig', cutshort', dotraps')
    BY <1>9 DEF Remembered
  <2> QED BY <1>1, <1>2, <1>3, <1>9, <2>1, DispositionsKept
<1>10. CASE came # {} /\ gotsig' = gotsig \ {s} /\ dotraps' = Append(back, next)
            /\ pending_sig' = pending_sig
  <2> DEFINE m == Min(came)
  <2>1. /\ m \in came /\ m \in Nat /\ (\A k \in came : m <= k) /\ s = SigOrder[m]
        /\ next.at = m + 1
    BY <1>5, <1>6, <1>10
  <2>2. next \in Dotrap
    BY <2>1 DEF Dotrap
  <2> HIDE DEF next, s, came, back
  <2>3. /\ dotraps' \in Seq(Dotrap) /\ Len(dotraps') = n /\ dotraps'[n] = next
        /\ \A k \in 1..(n - 1) : dotraps'[k] = dotraps[k]
    <3>1. Len(Append(back, next)) = (n - 1) + 1 /\ (n - 1) + 1 = n
      BY <1>2, <1>3, <2>2
    <3> QED BY <1>2, <1>3, <1>10, <2>2, <3>1
  <2>4. Remembered(gotsig', pending_sig', cutshort', dotraps')
    <3> SUFFICES ASSUME gotsig # {}, ~cutshort, ~pending_sig, NEW t \in gotsig, t # s
                 PROVE  \E k \in 1..n : dotraps'[k].at <= Number(t)
      BY <1>1, <1>10, <2>3 DEF Remembered
    <3>1. PICK k \in 1..n : dotraps[k].at <= Number(t)
      BY <1>2 DEF Remembered
    <3>2. CASE k = n
      <4>0. t \in Signals /\ last.at <= Number(t)
        BY <1>2, <3>1, <3>2
      <4>1. Number(t) \in came /\ SigOrder[Number(t)] = t /\ Number(t) \in Nat
        BY <1>4, <4>0, SignalsAre
      <4>2. m <= Number(t) /\ m # Number(t)
        BY <2>1, <4>1
      <4>3. next.at <= Number(t)
        <5> HIDE DEF m
        <5> QED BY <2>1, <4>1, <4>2
      <4> QED BY <2>3, <3>2, <4>3
    <3>3. CASE k # n
      <4>1. k \in 1..(n - 1)
        BY <1>2, <3>3
      <4> QED BY <2>3, <3>1, <4>1
    <3> QED BY <3>2, <3>3
  <2>5. gotsig' \in SUBSET Signals
    BY <1>2, <1>10
  <2> QED BY <1>1, <2>3, <2>4, <2>5, DispositionsKept
<1> QED BY <1>7, <1>8, <1>9, <1>10

LEMMA action_endsKeeps ==
  ASSUME TrapInv, action_ends
  PROVE  TrapInv'
<1> DEFINE n == Len(dotraps)
<1>1. /\ dotraps' = [dotraps EXCEPT ![n].acting = FALSE] /\ dotraps # <<>>
      /\ gotsig' = gotsig /\ pending_sig' = pending_sig /\ cutshort' = cutshort
      /\ executed' = executed /\ UNCHANGED dispositionVars
  BY DEF action_ends
<1>2. /\ dotraps \in Seq(Dotrap) /\ gotsig \in SUBSET Signals
      /\ Remembered(gotsig, pending_sig, cutshort, dotraps)
  BY DEF TrapInv
<1>3. n \in Nat /\ n \in 1..n /\ dotraps \in [1..n -> Dotrap]
  BY <1>1, <1>2
<1> HIDE DEF n
<1>4. dotraps' \in [1..n -> Dotrap] /\ \A k \in 1..n : dotraps'[k].at = dotraps[k].at
  BY <1>1, <1>3 DEF Dotrap
<1>5. dotraps' \in Seq(Dotrap) /\ Len(dotraps') = n /\ Len(dotraps) = n
  BY <1>3, <1>4, SeqDef DEF n
<1>6. Remembered(gotsig', pending_sig', cutshort', dotraps')
  BY <1>1, <1>2, <1>4, <1>5 DEF Remembered
<1> QED BY <1>1, <1>2, <1>5, <1>6, DispositionsKept

LEMMA TrapNextKeeps ==
  ASSUME TrapInv, TrapNext
  PROVE  TrapInv'
<1>1. ASSUME NEW s \in Signals, NEW action \in {"null", "ignore", "run"}, trapcmd(s, action)
      PROVE  TrapInv'
  BY <1>1, trapcmdKeeps DEF Actions
<1>2. ASSUME NEW action \in {"null", "run"}, trapcmd("EXIT", action) PROVE TrapInv'
  BY <1>2, trapcmdKeeps DEF Actions
<1>3. ASSUME NEW background \in BOOLEAN, subshell(background) PROVE TrapInv'
  BY <1>3, subshellKeeps
<1>4. ASSUME NEW s \in Signals, onsig(s) PROVE TrapInv'
  BY <1>4, onsigKeeps
<1>5. CASE error
  <2>1. Raised /\ gotsig' = gotsig /\ pending_sig' = pending_sig /\ UNCHANGED dispositionVars
    BY <1>5 DEF error
  <2>2. gotsig' \in SUBSET Signals
    BY <2>1 DEF TrapInv
  <2> QED BY <2>1, <2>2, RaisedRemembers, DispositionsKept
<1>6. CASE command_done \/ skip \/ INTOFF \/ (INTON /\ ~Raised)
  <2>1. /\ UNCHANGED dispositionVars /\ executed' \in {executed, NoTable}
        /\ gotsig' = gotsig /\ pending_sig' = pending_sig /\ cutshort' = cutshort
        /\ dotraps' = dotraps
    BY <1>6 DEF command_done, skip, INTOFF, INTON, deliveryVars
  <2>2. /\ gotsig' \in SUBSET Signals /\ dotraps' \in Seq(Dotrap)
        /\ Remembered(gotsig', pending_sig', cutshort', dotraps')
    BY <2>1 DEF TrapInv
  <2> QED BY <2>1, <2>2, DispositionsKept
<1>7. CASE INTON /\ Raised
  <2>1. Raised /\ gotsig' = gotsig /\ pending_sig' = pending_sig /\ UNCHANGED dispositionVars
    BY <1>7 DEF INTON
  <2>2. gotsig' \in SUBSET Signals
    BY <2>1 DEF TrapInv
  <2> QED BY <2>1, <2>2, RaisedRemembers, DispositionsKept
<1> QED BY <1>1, <1>2, <1>3, <1>4, <1>5, <1>6, <1>7, vforkexecKeeps, dotrapKeeps,
           dotrap_nextKeeps, action_endsKeeps DEF TrapNext

LEMMA TrapInvSound ==
  ASSUME TrapInv
  PROVE  TrapsSound
<1>0. \A s \in Signals : /\ SignalOK(trap[s], sigmode[s], disposition[s], found[s], shell, s)
                         /\ trap[s] \in Actions
  BY DEF TrapInv
<1>1. TrapsCounted
  BY DEF TrapInv, TrapsCounted
<1>2. ModesRight
  BY <1>0 DEF ModesRight, SignalOK, ModeOK
<1>3. TrapsInForce
  <2> SUFFICES ASSUME NEW s \in Signals, found[s] = "dfl"
               PROVE  disposition[s] \in
                        CASE trap[s] = "run"    -> {"catch"}
                          [] trap[s] = "ignore" -> {"ign"}
                          [] trap[s] = "null"   -> {"dfl"} \cup (IF s = "INT" THEN {"catch"} ELSE {})
                                                     \cup (IF shell.i THEN {"ign"} ELSE {})
    BY DEF TrapsInForce
  <2>1. disposition[s] \in Allowed(trap[s], shell, s)
    BY <1>0 DEF SignalOK, Hard
  <2>2. trap[s] = "run" \/ trap[s] = "ignore" \/ trap[s] = "null"
    BY <1>0 DEF Actions
  <2> QED BY <2>1, <2>2 DEF Allowed
<1>4. CommandsInherit
  BY DEF TrapInv, CommandsInherit, Hard
<1>5. SignalsRemembered
  <2>1. Remembered(gotsig, pending_sig, cutshort, dotraps) /\ DOMAIN dotraps = 1..Len(dotraps)
    BY DEF TrapInv
  <2> QED BY <2>1 DEF Remembered, SignalsRemembered
<1> QED BY <1>1, <1>2, <1>3, <1>4, <1>5 DEF TrapsSound

PsType == [pid : Pids, status : {"run", "stop", "end"}]
JobType == [used : BOOLEAN, state : {"running", "stopped", "done"}, ps : Seq(PsType), psat : Nat,
            waited : BOOLEAN, jobctl : BOOLEAN, adrift : BOOLEAN]
KidType == [st : {"none", "run", "stop", "end", "gone"}, news : BOOLEAN]
WaitType == [block : {"no", "block", "wait", "all"}, job : Nat, rpid : BOOLEAN,
             then : {"foreground", "show", "wait", "wait all"}]

\* The list has the elements of S, each once.
Lists(list, S) ==
  /\ list \in Seq(S)
  /\ \A i \in S : \E k \in 1..Len(list) : list[k] = i
  /\ \A k, l \in 1..Len(list) : list[k] = list[l] => k = l

\* The slots of the table that are used.
UsedIn(tab) == {i \in 1..Len(tab) : tab[i].used}

HasStatus(j, s) == \E q \in 1..Len(j.ps) : j.ps[q].status = s

\* A job that is used, in slot i.
JobRight(j, i) ==
  /\ Len(j.ps) >= 1 /\ j.psat = IF Len(j.ps) = 1 THEN i ELSE 0
  /\ j.state = "done" <=> ~HasStatus(j, "run") /\ ~HasStatus(j, "stop")
  /\ ~j.adrift => (j.state = "running" <=> HasStatus(j, "run"))

TableRight(tab) == \A i \in UsedIn(tab) : JobRight(tab[i], i)

\* Two processes of jobs are two children.
PidsDiffer(j, l) == \A q \in 1..Len(j.ps), r \in 1..Len(l.ps) : j.ps[q].pid # l.ps[r].pid

PidsOnce(j) == \A q, r \in 1..Len(j.ps) : j.ps[q].pid = j.ps[r].pid => q = r

PidsApart(tab) ==
  /\ \A i \in UsedIn(tab) : PidsOnce(tab[i])
  /\ \A i, j \in UsedIn(tab) : i # j => PidsDiffer(tab[i], tab[j])

\* A process of a job was forked, and is there until it is noted that it ended.
ProcessThere(ps, kid) ==
  /\ kid[ps.pid].st # "none"
  /\ ps.status # "end" => kid[ps.pid].st # "gone"

JobThere(j, kid) == \A q \in 1..Len(j.ps) : ProcessThere(j.ps[q], kid)

ProcessesThere(tab, kid) == \A i \in UsedIn(tab) : JobThere(tab[i], kid)

\* The child p is in a job that is not done.
Holds(j, p) == /\ j.state # "done"
               /\ \E q \in 1..Len(j.ps) : j.ps[q].pid = p /\ j.ps[q].status # "end"

InJob(tab, p) == \E i \in UsedIn(tab) : Holds(tab[i], p)

ChildOf(kid, p) == kid[p].st \notin {"none", "gone"}

ChildrenIn(tab, kid, orph) ==
  \A p \in Pids : ChildOf(kid, p) => p \in orph \/ InJob(tab, p)

KidsRight(kid) ==
  /\ kid \in [Pids -> KidType]
  /\ \A p \in Pids : kid[p].news => kid[p].st \in {"stop", "end"}
  /\ \E c \in Nat : {p \in Pids : kid[p].st # "none"} = 1..c

\* The table, the list and the children.
JobsHold(tab, list, kid, orph) ==
  /\ tab \in Seq(JobType)
  /\ Lists(list, UsedIn(tab)) /\ TableRight(tab) /\ PidsApart(tab)
  /\ ProcessesThere(tab, kid) /\ ChildrenIn(tab, kid, orph)

\* What dowait waits for.
WaitRight(tab, pc, w) ==
  /\ w \in WaitType
  /\ pc # "idle" /\ w.then \in {"foreground", "wait"} =>
       /\ w.job \in UsedIn(tab) /\ w.block # "all"
       /\ w.rpid /\ (w.block = "no" \/ pc = "return") => tab[w.job].state # "running"

\* The inductive invariant of the jobs.
JobsInv ==
  /\ JobsHold(jobtab, joblist, kids, orphans) /\ KidsRight(kids)
  /\ jobctl \in BOOLEAN /\ gotsigchld \in BOOLEAN
  /\ jobpc \in {"idle", "waitproc", "wait3", "check", "suspend", "unblocked", "return"}
  /\ WaitRight(jobtab, jobpc, wait)

(* Lists of jobs: p after the first n of a list, and a list without the k-th *)
(* (set_curjob, jobs.c:131-181).                                             *)

Inserted(list, n, p) == SubSeq(list, 1, n) \o <<p>> \o SubSeq(list, n + 1, Len(list))

\* out is list with p after the first n, of elements of T.
HasInserted(out, list, n, p, T) ==
  /\ out \in Seq(T) /\ Len(out) = Len(list) + 1
  /\ \A m \in 1..n : out[m] = list[m]
  /\ out[n + 1] = p
  /\ \A m \in (n + 1)..Len(list) : out[m + 1] = list[m]

LEMMA InsertedIs ==
  ASSUME NEW T, NEW list \in Seq(T), NEW n \in 0..Len(list), NEW p \in T
  PROVE  HasInserted(Inserted(list, n, p), list, n, p, T)
<1> DEFINE L == Len(list)
           a == SubSeq(list, 1, n)
           b == SubSeq(list, n + 1, L)
<1>1. L \in Nat /\ n \in Nat /\ n <= L
  OBVIOUS
<1>2. a \in Seq(T) /\ Len(a) = n /\ \A m \in 1..n : a[m] = list[m]
  BY <1>1
<1>3. b \in Seq(T) /\ Len(b) = L - n /\ \A m \in 1..(L - n) : b[m] = list[m + n]
  BY <1>1
<1> HIDE DEF a, b, L
<1> DEFINE c == a \o <<p>>
<1>4. c \in Seq(T) /\ Len(c) = n + 1 /\ c[n + 1] = p /\ \A m \in 1..n : c[m] = a[m]
  BY <1>1, <1>2
<1> HIDE DEF c
<1> DEFINE out == c \o b
<1>5. Inserted(list, n, p) = out
  BY DEF Inserted, a, b, c, L
<1>6. out \in Seq(T) /\ Len(out) = L + 1
  <2>1. out \in Seq(T) /\ Len(out) = Len(c) + Len(b)
    BY <1>3, <1>4, ConcatProperties
  <2> QED BY <1>1, <1>3, <1>4, <2>1
<1>7. \A m \in 1..(n + 1) : out[m] = c[m]
  BY <1>1, <1>3, <1>4
<1>8. \A m \in (n + 1)..L : out[m + 1] = b[m - n]
  BY <1>1, <1>3, <1>4
<1> HIDE DEF out
<1>9. \A m \in 1..n : out[m] = list[m]
  <2>1. ASSUME NEW m \in 1..n PROVE out[m] = list[m]
    <3>1. m \in 1..(n + 1)
      BY <1>1
    <3> QED BY <1>2, <1>4, <1>7, <3>1
  <2> QED BY <2>1
<1>10. out[n + 1] = p
  <2>1. n + 1 \in 1..(n + 1)
    BY <1>1
  <2> QED BY <1>4, <1>7, <2>1
<1>11. \A m \in (n + 1)..L : out[m + 1] = list[m]
  <2>1. ASSUME NEW m \in (n + 1)..L PROVE out[m + 1] = list[m]
    <3>1. m - n \in 1..(L - n) /\ (m - n) + n = m
      BY <1>1
    <3> QED BY <1>3, <1>8, <3>1
  <2> QED BY <2>1
<1> QED BY <1>5, <1>6, <1>9, <1>10, <1>11 DEF L, HasInserted

LEMMA InsertedLists ==
  ASSUME NEW S, NEW list, Lists(list, S), NEW n \in 0..Len(list), NEW p, p \notin S
  PROVE  Lists(Inserted(list, n, p), S \cup {p})
<1> DEFINE out == Inserted(list, n, p)
           L == Len(list)
           T == S \cup {p}
<1>1. /\ list \in Seq(S) /\ list \in Seq(T) /\ L \in Nat /\ n \in Nat /\ n <= L
      /\ \A i \in S : \E k \in 1..L : list[k] = i
      /\ \A k, l \in 1..L : list[k] = list[l] => k = l
  BY DEF Lists
<1>2. \A k \in 1..L : list[k] \in S /\ list[k] # p
  BY <1>1
<1> HIDE DEF T
<1>a. list \in Seq(T) /\ p \in T /\ n \in 0..Len(list)
  BY <1>1 DEF T
<1>b. HasInserted(out, list, n, p, T)
  BY <1>a, InsertedIs
<1> HIDE DEF out, L
<1>3. out \in Seq(T) /\ Len(out) = L + 1
  BY <1>b DEF HasInserted, L
<1>4. \A m \in 1..n : out[m] = list[m]
  BY <1>b DEF HasInserted, L
<1>5. out[n + 1] = p
  BY <1>b DEF HasInserted, L
<1>6. \A m \in (n + 1)..L : out[m + 1] = list[m]
  BY <1>b DEF HasInserted, L
<1>7. \A i \in T : \E m \in 1..(L + 1) : out[m] = i
  <2>1. ASSUME NEW i \in S PROVE \E m \in 1..(L + 1) : out[m] = i
    <3>1. PICK k \in 1..L : list[k] = i
      BY <1>1
    <3>2. CASE k <= n
      <4>1. k \in 1..n /\ k \in 1..(L + 1)
        BY <1>1, <3>2
      <4> QED BY <1>4, <3>1, <4>1
    <3>3. CASE ~(k <= n)
      <4>1. k \in (n + 1)..L /\ k + 1 \in 1..(L + 1)
        BY <1>1, <3>3
      <4> QED BY <1>6, <3>1, <4>1
    <3> QED BY <3>2, <3>3
  <2>2. n + 1 \in 1..(L + 1)
    BY <1>1
  <2> QED BY <1>5, <2>1, <2>2 DEF T
<1>8. \A m \in 1..(L + 1) : \/ m \in 1..n
                            \/ m = n + 1
                            \/ m - 1 \in (n + 1)..L /\ (m - 1) + 1 = m
  BY <1>1
<1>9. \A m \in 1..(L + 1) : \/ m = n + 1 /\ out[m] = p
                            \/ m <= n /\ m \in 1..L /\ out[m] = list[m]
                            \/ m > n + 1 /\ m - 1 \in 1..L /\ out[m] = list[m - 1]
  <2>1. ASSUME NEW m \in 1..(L + 1)
        PROVE  \/ m = n + 1 /\ out[m] = p
               \/ m <= n /\ m \in 1..L /\ out[m] = list[m]
               \/ m > n + 1 /\ m - 1 \in 1..L /\ out[m] = list[m - 1]
    <3>1. CASE m \in 1..n
      <4>1. m \in 1..L /\ m <= n
        BY <1>1, <3>1
      <4> QED BY <1>4, <3>1, <4>1
    <3>2. CASE m = n + 1
      BY <1>5, <3>2
    <3>3. CASE m - 1 \in (n + 1)..L /\ (m - 1) + 1 = m
      <4>1. m > n + 1 /\ m - 1 \in 1..L
        BY <1>1, <3>3
      <4>2. out[m] = list[m - 1]
        BY <1>6, <3>3
      <4> QED BY <4>1, <4>2
    <3> QED BY <1>8, <3>1, <3>2, <3>3
  <2> QED BY <2>1
<1>10. ASSUME NEW k \in 1..(L + 1), NEW l \in 1..(L + 1), out[k] = out[l] PROVE k = l
  <2>1. CASE k = n + 1 \/ l = n + 1
    <3>1. \A m \in 1..(L + 1) : out[m] = p => m = n + 1
      <4>1. \A m \in 1..(L + 1) : m - 1 \in 1..L => list[m - 1] # p
        BY <1>2
      <4> QED BY <1>2, <1>9, <4>1
    <3> QED BY <1>5, <1>10, <2>1, <3>1
  <2>2. CASE k # n + 1 /\ l # n + 1
    <3>1. PICK a \in 1..L : out[k] = list[a] /\ a = (IF k <= n THEN k ELSE k - 1)
      BY <1>1, <1>9, <2>2
    <3>2. PICK b \in 1..L : out[l] = list[b] /\ b = (IF l <= n THEN l ELSE l - 1)
      BY <1>1, <1>9, <2>2
    <3>3. a = b
      BY <1>1, <1>10, <3>1, <3>2
    <3> QED BY <1>1, <2>2, <3>1, <3>2, <3>3
  <2> QED BY <2>1, <2>2
<1>11. Lists(out, T)
  BY <1>3, <1>7, <1>10 DEF Lists
<1> QED BY <1>11 DEF out, T

LEMMA FirstLists ==
  ASSUME NEW S, NEW list, Lists(list, S), NEW p, p \notin S
  PROVE  Lists(<<p>> \o list, S \cup {p})
<1>1. list \in Seq(S) /\ Len(list) \in Nat /\ 0 \in 0..Len(list)
  BY DEF Lists
<1>2. Inserted(list, 0, p) = <<p>> \o list
  <2>1. SubSeq(list, 1, 0) = <<>> /\ SubSeq(list, 0 + 1, Len(list)) = list
    BY <1>1
  <2>2. <<>> \o <<p>> = <<p>>
    OBVIOUS
  <2> QED BY <2>1, <2>2 DEF Inserted
<1>3. Lists(Inserted(list, 0, p), S \cup {p})
  BY <1>1, InsertedLists
<1> QED BY <1>2, <1>3

LEMMA PlaceInList ==
  ASSUME NEW T, NEW list \in Seq(T), NEW k \in 1..Len(list),
         \A l \in 1..Len(list) : list[l] = list[k] => l = k
  PROVE  Without(list, list[k]) = RemoveAt(list, k)
<1> DEFINE U == {l \in DOMAIN list : list[l] = list[k]}
<1>1. U = {k}
  OBVIOUS
<1> HIDE DEF U
<1>2. Min(U) = k
  BY <1>1 DEF Min
<1> QED BY <1>2 DEF Without, U

\* r is list without its k-th element.
LacksOne(r, list, k, T) ==
  /\ r \in Seq(T) /\ Len(r) = Len(list) - 1
  /\ \A m \in 1..(k - 1) : r[m] = list[m]
  /\ \A m \in k..(Len(list) - 1) : r[m] = list[m + 1]

LEMMA WithoutIs ==
  ASSUME NEW T, NEW list \in Seq(T), NEW k \in 1..Len(list)
  PROVE  LacksOne(RemoveAt(list, k), list, k, T)
<1> DEFINE L == Len(list)
           a == SubSeq(list, 1, k - 1)
           b == SubSeq(list, k + 1, L)
<1>1. L \in Nat /\ k \in Nat /\ k <= L /\ k >= 1
  OBVIOUS
<1>2. a \in Seq(T) /\ Len(a) = k - 1 /\ \A m \in 1..(k - 1) : a[m] = list[m]
  BY <1>1
<1>3. b \in Seq(T) /\ Len(b) = L - k /\ \A m \in 1..(L - k) : b[m] = list[m + k]
  BY <1>1
<1> HIDE DEF a, b, L
<1> DEFINE out == a \o b
<1>4. RemoveAt(list, k) = out
  BY DEF RemoveAt, a, b, L
<1>5. out \in Seq(T) /\ Len(out) = L - 1
  <2>1. out \in Seq(T) /\ Len(out) = Len(a) + Len(b)
    BY <1>2, <1>3, ConcatProperties
  <2> QED BY <1>1, <1>2, <1>3, <2>1
<1>6. \A m \in 1..(k - 1) : out[m] = a[m]
  BY <1>1, <1>2, <1>3
<1>7. \A m \in k..(L - 1) : out[m] = b[m - (k - 1)]
  BY <1>1, <1>2, <1>3
<1> HIDE DEF out
<1>8. ASSUME NEW m \in k..(L - 1) PROVE out[m] = list[m + 1]
  <2>1. m - (k - 1) \in 1..(L - k) /\ (m - (k - 1)) + k = m + 1
    BY <1>1
  <2> QED BY <1>3, <1>7, <2>1
<1> QED BY <1>2, <1>4, <1>5, <1>6, <1>8 DEF L, LacksOne

LEMMA WithoutLists ==
  ASSUME NEW S, NEW list, Lists(list, S), NEW p \in S
  PROVE  Lists(Without(list, p), S \ {p})
<1> DEFINE L == Len(list)
           out == Without(list, p)
<1>1. /\ list \in Seq(S) /\ L \in Nat
      /\ \A i \in 1..L : list[i] \in S
      /\ \A i \in S : \E j \in 1..L : list[j] = i
      /\ \A i, j \in 1..L : list[i] = list[j] => i = j
  BY DEF Lists
<1>2. PICK k \in 1..L : list[k] = p
  BY <1>1
<1>3. out = RemoveAt(list, k)
  <2>1. \A l \in 1..Len(list) : list[l] = list[k] => l = k
    BY <1>1
  <2>2. Without(list, list[k]) = RemoveAt(list, k)
    BY <1>1, <2>1, PlaceInList
  <2> QED BY <1>2, <2>2
<1> HIDE DEF out
<1>a. LacksOne(out, list, k, S)
  BY <1>1, <1>3, WithoutIs
<1>4. out \in Seq(S) /\ Len(out) = L - 1
  BY <1>a DEF LacksOne
<1>5. \A m \in 1..(k - 1) : out[m] = list[m]
  BY <1>a DEF LacksOne
<1>6. \A m \in k..(L - 1) : out[m] = list[m + 1]
  BY <1>a DEF LacksOne
<1> HIDE DEF L
<1>7. \A m \in 1..(L - 1) : \/ m < k /\ m \in 1..L /\ out[m] = list[m]
                            \/ m >= k /\ m + 1 \in 1..L /\ out[m] = list[m + 1]
  <2>1. \A m \in 1..(L - 1) : \/ m \in 1..(k - 1) /\ m < k /\ m \in 1..L
                              \/ m \in k..(L - 1) /\ m >= k /\ m + 1 \in 1..L
    BY <1>1
  <2> QED BY <1>5, <1>6, <2>1
<1>8. \A m \in 1..(L - 1) : \E l \in 1..L : l # k /\ out[m] = list[l]
                              /\ l = (IF m < k THEN m ELSE m + 1)
  BY <1>1, <1>7
<1>9. ASSUME NEW m \in 1..(L - 1) PROVE out[m] \in S \ {p}
  <2>1. PICK l \in 1..L : l # k /\ out[m] = list[l]
    BY <1>8
  <2>2. list[l] # p
    BY <1>1, <1>2, <2>1
  <2> QED BY <1>1, <2>1, <2>2
<1>10. out \in Seq(S \ {p})
  BY <1>1, <1>4, <1>9
<1>11. ASSUME NEW i \in S \ {p} PROVE \E m \in 1..(L - 1) : out[m] = i
  <2>1. PICK l \in 1..L : list[l] = i
    BY <1>1
  <2>2. l # k
    BY <1>2, <2>1
  <2>3. CASE l < k
    <3>1. l \in 1..(k - 1) /\ l \in 1..(L - 1)
      BY <1>1, <2>3
    <3> QED BY <1>5, <2>1, <3>1
  <2>4. CASE l > k
    <3>1. l - 1 \in k..(L - 1) /\ l - 1 \in 1..(L - 1) /\ (l - 1) + 1 = l
      BY <1>1, <2>4
    <3> QED BY <1>6, <2>1, <3>1
  <2> QED BY <1>1, <2>2, <2>3, <2>4
<1>12. ASSUME NEW i \in 1..(L - 1), NEW j \in 1..(L - 1), out[i] = out[j] PROVE i = j
  <2>1. PICK a \in 1..L : out[i] = list[a] /\ a = (IF i < k THEN i ELSE i + 1)
    BY <1>8
  <2>2. PICK b \in 1..L : out[j] = list[b] /\ b = (IF j < k THEN j ELSE j + 1)
    BY <1>8
  <2>3. a = b
    BY <1>1, <1>12, <2>1, <2>2
  <2> QED BY <1>1, <2>1, <2>2, <2>3
<1>13. Lists(out, S \ {p})
  BY <1>1, <1>4, <1>10, <1>11, <1>12 DEF Lists
<1> QED BY <1>13 DEF out

LEMMA FirstGoes ==
  ASSUME NEW S, NEW list, Lists(list, S), NEW p, p \notin S
  PROVE  Without(<<p>> \o list, p) = list
<1> DEFINE T == S \cup {p}
           l == <<p>> \o list
           L == Len(list)
<1>1. list \in Seq(S) /\ list \in Seq(T) /\ L \in Nat /\ \A k \in 1..L : list[k] # p
  BY DEF Lists
<1>2. l \in Seq(T) /\ Len(l) = L + 1 /\ l[1] = p /\ \A k \in 1..L : l[k + 1] = list[k]
  BY <1>1
<1> HIDE DEF l, L, T
<1>3. \A k \in 1..Len(l) : l[k] = l[1] => k = 1
  <2>1. ASSUME NEW k \in 1..(L + 1), k # 1 PROVE l[k] # p
    <3>1. k - 1 \in 1..L /\ (k - 1) + 1 = k
      BY <1>1, <2>1
    <3> QED BY <1>1, <1>2, <3>1
  <2> QED BY <1>1, <1>2, <2>1
<1>4. 1 \in 1..Len(l)
  BY <1>1, <1>2
<1>5. Without(l, p) = RemoveAt(l, 1)
  <2>1. Without(l, l[1]) = RemoveAt(l, 1)
    BY <1>2, <1>3, <1>4, PlaceInList
  <2> QED BY <1>2, <2>1
<1> DEFINE r == RemoveAt(l, 1)
<1>a. LacksOne(r, l, 1, T)
  BY <1>2, <1>4, WithoutIs
<1> HIDE DEF r
<1>6. /\ r \in Seq(T) /\ Len(r) = Len(l) - 1
      /\ \A m \in 1..(Len(l) - 1) : r[m] = l[m + 1]
  BY <1>a DEF LacksOne
<1>8. Len(r) = L /\ \A m \in 1..L : r[m] = list[m]
  <2>1. Len(l) - 1 = L
    BY <1>1, <1>2
  <2>2. ASSUME NEW m \in 1..L PROVE r[m] = list[m]
    <3>1. r[m] = l[m + 1] /\ l[m + 1] = list[m]
      BY <1>2, <1>6, <2>1
    <3> QED BY <3>1
  <2> QED BY <1>6, <2>1, <2>2
<1>9. r = list
  <2>1. Len(r) = Len(list) /\ \A m \in 1..Len(r) : r[m] = list[m]
    BY <1>8 DEF L
  <2> QED BY <1>1, <1>6, <2>1, SeqEqual
<1> QED BY <1>5, <1>9 DEF r, l

-----------------------------------------------------------------------------
(* What the steps do to the table: jobs go, come, and change.              *)

Freed(tab, p) == [tab EXCEPT ![p] = Unused]

LEMMA UnusedIsJob == Unused \in JobType
<1>1. Unused.ps \in Seq(PsType)
  BY DEF Unused
<1> QED BY <1>1 DEF Unused, JobType

\* The jobs that are left are what they were.
LEMMA SubTable ==
  ASSUME NEW kid, NEW tab, TableRight(tab), PidsApart(tab), ProcessesThere(tab, kid),
         NEW tab2, \A i \in UsedIn(tab2) : i \in UsedIn(tab) /\ tab2[i] = tab[i]
  PROVE  TableRight(tab2) /\ PidsApart(tab2) /\ ProcessesThere(tab2, kid)
<1>1. ASSUME NEW i \in UsedIn(tab2)
      PROVE  JobRight(tab2[i], i) /\ PidsOnce(tab2[i]) /\ JobThere(tab2[i], kid)
  BY <1>1 DEF TableRight, PidsApart, ProcessesThere
<1>2. ASSUME NEW i \in UsedIn(tab2), NEW j \in UsedIn(tab2), i # j
      PROVE  PidsDiffer(tab2[i], tab2[j])
  BY <1>2 DEF PidsApart
<1> QED BY <1>1, <1>2 DEF TableRight, PidsApart, ProcessesThere

LEMMA SubTableHolds ==
  ASSUME NEW tab, NEW list, NEW kid, NEW orph, JobsHold(tab, list, kid, orph),
         NEW tab2 \in Seq(JobType), NEW list2, Lists(list2, UsedIn(tab2)),
         \A i \in UsedIn(tab2) : i \in UsedIn(tab) /\ tab2[i] = tab[i],
         \A i \in UsedIn(tab) : tab[i].state # "done" => i \in UsedIn(tab2) /\ tab2[i] = tab[i]
  PROVE  JobsHold(tab2, list2, kid, orph)
<1>1. TableRight(tab2) /\ PidsApart(tab2) /\ ProcessesThere(tab2, kid)
  BY SubTable DEF JobsHold
<1>2. ASSUME NEW p \in Pids, InJob(tab, p) PROVE InJob(tab2, p)
  BY <1>2 DEF InJob, Holds
<1>3. ChildrenIn(tab2, kid, orph)
  BY <1>2 DEF ChildrenIn, JobsHold
<1> QED BY <1>1, <1>3 DEF JobsHold

LEMMA FreedIs ==
  ASSUME NEW tab \in Seq(JobType), NEW p \in 1..Len(tab)
  PROVE  /\ Freed(tab, p) \in Seq(JobType) /\ Len(Freed(tab, p)) = Len(tab)
         /\ UsedIn(Freed(tab, p)) = UsedIn(tab) \ {p}
         /\ \A i \in UsedIn(Freed(tab, p)) : Freed(tab, p)[i] = tab[i]
<1> DEFINE tab2 == Freed(tab, p)
<1>1. tab2 \in Seq(JobType) /\ Len(tab2) = Len(tab)
  BY UnusedIsJob, ExceptSeq DEF Freed
<1>2. \A i \in 1..Len(tab) : tab2[i] = IF i = p THEN Unused ELSE tab[i]
  BY DEF Freed
<1>3. ~Unused.used
  BY DEF Unused
<1> HIDE DEF tab2
<1>4. UsedIn(tab2) = UsedIn(tab) \ {p}
  BY <1>1, <1>2, <1>3 DEF UsedIn
<1>5. \A i \in UsedIn(tab2) : tab2[i] = tab[i]
  BY <1>2, <1>4 DEF UsedIn
<1> QED BY <1>1, <1>4, <1>5 DEF tab2

LEMMA freejobIs ==
  ASSUME NEW tab, NEW list, NEW p
  PROVE  freejob([tab |-> tab, list |-> list], p)
           = [tab |-> Freed(tab, p), list |-> Without(list, p)]
<1> DEFINE js == [tab |-> tab, list |-> list]
<1>1. freejob(js, p) = [js EXCEPT !.tab = Freed(tab, p), !.list = Without(list, p)]
  BY DEF freejob, Freed
<1> QED BY <1>1

\* A job that is done may go (freejob, jobs.c:425-441).
LEMMA FreeHolds ==
  ASSUME NEW tab, NEW list, NEW kid, NEW orph, JobsHold(tab, list, kid, orph),
         NEW p \in UsedIn(tab), tab[p].state = "done"
  PROVE  JobsHold(Freed(tab, p), Without(list, p), kid, orph)
<1>1. tab \in Seq(JobType) /\ p \in 1..Len(tab) /\ Lists(list, UsedIn(tab))
  BY DEF JobsHold, UsedIn
<1>2. /\ Freed(tab, p) \in Seq(JobType)
      /\ UsedIn(Freed(tab, p)) = UsedIn(tab) \ {p}
      /\ \A i \in UsedIn(Freed(tab, p)) : Freed(tab, p)[i] = tab[i]
  BY <1>1, FreedIs
<1>3. Lists(Without(list, p), UsedIn(tab) \ {p})
  BY <1>1, WithoutLists
<1> DEFINE tab2 == Freed(tab, p)
<1> HIDE DEF tab2
<1>4. Lists(Without(list, p), UsedIn(tab2))
  BY <1>2, <1>3 DEF tab2
<1>5. \A i \in UsedIn(tab2) : i \in UsedIn(tab) /\ tab2[i] = tab[i]
  BY <1>2 DEF tab2
<1>6. \A i \in UsedIn(tab) : tab[i].state # "done" => i \in UsedIn(tab2) /\ tab2[i] = tab[i]
  BY <1>2, <1>5 DEF tab2
<1>7. tab2 \in Seq(JobType)
  BY <1>2 DEF tab2
<1>8. JobsHold(tab2, Without(list, p), kid, orph)
  BY <1>4, <1>5, <1>6, <1>7, SubTableHolds
<1> QED BY <1>8 DEF tab2

\* The table grows (growjobtab, jobs.c:800-840).
LEMMA GrownIs ==
  ASSUME NEW tab, NEW list, NEW kid, NEW orph, JobsHold(tab, list, kid, orph)
  PROVE  \E tab2 : /\ growjobtab([tab |-> tab, list |-> list]) = [tab |-> tab2, list |-> list]
                   /\ JobsHold(tab2, list, kid, orph)
                   /\ Len(tab) + 1 \in 1..Len(tab2) /\ ~tab2[Len(tab) + 1].used
<1>1. tab \in Seq(JobType) /\ Lists(list, UsedIn(tab)) /\ list \in Seq(UsedIn(tab))
  BY DEF JobsHold, Lists
<1> DEFINE L == Len(tab)
           js == [tab |-> tab, list |-> list]
           a == [i \in DOMAIN tab |->
                   [tab[i] EXCEPT !.psat = IF tab[i].psat = i THEN jmove(Moved(@)) ELSE @]]
           b == [i \in 1..TabGrow |-> Unused]
           tab2 == a \o b
<1>2. L \in Nat /\ DOMAIN tab = 1..L
  BY <1>1
<1>3. a = tab
  <2>1. ASSUME NEW i \in 1..L PROVE a[i] = tab[i]
    <3> DEFINE moves == jmove(Moved(tab[i].psat))
    <3>0. tab[i] \in JobType
      BY <1>1
    <3>1. tab[i] \in JobType /\ tab[i].psat \in Nat
      BY <3>0 DEF JobType
    <3>2. jmove(Moved(tab[i].psat)) = tab[i].psat
      BY <3>1 DEF jmove, Moved
    <3>3. a[i] = [tab[i] EXCEPT !.psat = IF tab[i].psat = i THEN moves ELSE tab[i].psat]
      BY <1>2
    <3> HIDE DEF moves
    <3>4. a[i] = [tab[i] EXCEPT !.psat = tab[i].psat]
      BY <3>2, <3>3 DEF moves
    <3> HIDE DEF a
    <3> QED BY <3>1, <3>4 DEF JobType
  <2>2. a = [i \in 1..L |-> a[i]] /\ tab = [i \in 1..L |-> tab[i]]
    BY <1>1, <1>2
  <2> HIDE DEF a
  <2> QED BY <2>1, <2>2
<1>4. Relocated(list) = list
  <2> DEFINE r == Relocated(list)
  <2>1. \A k \in 1..Len(list) : list[k] \in Nat
    BY <1>1 DEF UsedIn
  <2>2. r = [k \in 1..Len(list) |-> jmove(Moved(list[k]))]
    BY <1>1 DEF Relocated
  <2>3. \A k \in 1..Len(list) : jmove(Moved(list[k])) = list[k]
    BY <2>1 DEF jmove, Moved
  <2>4. list = [k \in 1..Len(list) |-> list[k]]
    BY <1>1
  <2> HIDE DEF r
  <2>5. r = list
    BY <2>2, <2>3, <2>4
  <2> QED BY <2>5 DEF r
<1>5. growjobtab(js) = [tab |-> tab2, list |-> list]
  <2>1. growjobtab(js) = [js EXCEPT !.list = Relocated(list), !.tab = tab2]
    BY DEF growjobtab
  <2> HIDE DEF tab2
  <2> QED BY <1>4, <2>1
<1>6. TabGrow \in Nat /\ TabGrow >= 1
  BY JobsAssumption
<1>7. b \in Seq(JobType) /\ Len(b) = TabGrow /\ \A i \in 1..TabGrow : b[i] = Unused
  BY <1>6, UnusedIsJob
<1> HIDE DEF a, b, js
<1>8. tab2 \in Seq(JobType) /\ Len(tab2) = L + TabGrow
  <2>1. tab2 \in Seq(JobType) /\ Len(tab2) = Len(a) + Len(b)
    BY <1>1, <1>3, <1>7, ConcatProperties
  <2> QED BY <1>3, <1>7, <2>1
<1>9. \A i \in 1..L : tab2[i] = tab[i]
  BY <1>1, <1>2, <1>3, <1>7
<1>10. \A i \in (L + 1)..(L + TabGrow) : tab2[i] = Unused
  <2>1. ASSUME NEW i \in (L + 1)..(L + TabGrow) PROVE tab2[i] = Unused
    <3>1. i - L \in 1..TabGrow /\ tab2[i] = b[i - L]
      BY <1>1, <1>2, <1>3, <1>6, <1>7
    <3> QED BY <1>7, <3>1
  <2> QED BY <2>1
<1> HIDE DEF tab2, L
<1>11. ~Unused.used
  BY DEF Unused
<1>12. UsedIn(tab2) = UsedIn(tab)
  <2>1. \A i \in 1..Len(tab2) : i \in 1..L \/ i \in (L + 1)..(L + TabGrow)
    BY <1>2, <1>6, <1>8
  <2>2. 1..L \subseteq 1..Len(tab2)
    BY <1>2, <1>6, <1>8
  <2>3. Len(tab) = L
    BY DEF L
  <2> QED BY <1>9, <1>10, <1>11, <2>1, <2>2, <2>3 DEF UsedIn
<1>13. \A i \in UsedIn(tab) : tab2[i] = tab[i]
  BY <1>9 DEF UsedIn, L
<1>14. JobsHold(tab2, list, kid, orph)
  BY <1>1, <1>8, <1>12, <1>13, SubTableHolds
<1>15. L + 1 \in 1..Len(tab2) /\ ~tab2[L + 1].used
  BY <1>2, <1>6, <1>8, <1>10, <1>11
<1> QED BY <1>5, <1>14, <1>15 DEF js, L

-----------------------------------------------------------------------------
\* Every job's processes, if the table is right.
LEMMA JobTyped ==
  ASSUME NEW tab \in Seq(JobType), NEW i \in UsedIn(tab)
  PROVE  /\ i \in 1..Len(tab) /\ i \in Nat \ {0} /\ tab[i] \in JobType /\ tab[i].ps \in Seq(PsType)
         /\ \A q \in 1..Len(tab[i].ps) : tab[i].ps[q] \in PsType /\ tab[i].ps[q].pid \in Pids
<1>1. i \in 1..Len(tab) /\ tab[i] \in JobType
  BY DEF UsedIn
<1>2. tab[i].ps \in Seq(PsType)
  BY <1>1 DEF JobType
<1>3. \A q \in 1..Len(tab[i].ps) : tab[i].ps[q] \in PsType
  BY <1>2
<1> QED BY <1>1, <1>2, <1>3 DEF PsType

\* The children change, but none is forked or reaped.
LEMMA KidsChange ==
  ASSUME NEW tab, NEW list, NEW kid, NEW orph, JobsHold(tab, list, kid, orph),
         NEW kid2, \A p \in Pids : /\ kid2[p].st = "none" <=> kid[p].st = "none"
                                   /\ kid2[p].st = "gone" <=> kid[p].st = "gone"
  PROVE  JobsHold(tab, list, kid2, orph)
<1>1. ASSUME NEW i \in UsedIn(tab), NEW q \in 1..Len(tab[i].ps)
      PROVE  ProcessThere(tab[i].ps[q], kid2)
  <2>1. tab \in Seq(JobType)
    BY DEF JobsHold
  <2>2. tab[i].ps[q].pid \in Pids
    BY <2>1, JobTyped
  <2>3. ProcessThere(tab[i].ps[q], kid)
    BY DEF JobsHold, ProcessesThere, JobThere
  <2> QED BY <2>2, <2>3 DEF ProcessThere
<1>2. ProcessesThere(tab, kid2)
  BY <1>1 DEF ProcessesThere, JobThere
<1>3. ChildrenIn(tab, kid2, orph)
  BY DEF JobsHold, ChildrenIn, ChildOf
<1> QED BY <1>2, <1>3 DEF JobsHold

\* The table with job j in slot p.
Put(tab, p, j) == [tab EXCEPT ![p] = j]

LEMMA PutIs ==
  ASSUME NEW tab \in Seq(JobType), NEW p \in 1..Len(tab), NEW j \in JobType, j.used
  PROVE  /\ Put(tab, p, j) \in Seq(JobType) /\ Len(Put(tab, p, j)) = Len(tab)
         /\ Put(tab, p, j)[p] = j
         /\ \A i \in 1..Len(tab) : i # p => Put(tab, p, j)[i] = tab[i]
         /\ UsedIn(Put(tab, p, j)) = UsedIn(tab) \cup {p}
<1> DEFINE tab2 == Put(tab, p, j)
<1>1. tab2 \in Seq(JobType) /\ Len(tab2) = Len(tab)
  BY ExceptSeq DEF Put
<1>2. tab2[p] = j /\ \A i \in 1..Len(tab) : i # p => tab2[i] = tab[i]
  BY DEF Put
<1> HIDE DEF tab2
<1>3. UsedIn(tab2) = UsedIn(tab) \cup {p}
  BY <1>1, <1>2 DEF UsedIn
<1> QED BY <1>1, <1>2, <1>3 DEF tab2

\* One job comes or changes: it agrees with its processes, they are there, and
\* they are no other job's.
LEMMA PutHolds ==
  ASSUME NEW tab, NEW list, NEW kid, NEW orph, JobsHold(tab, list, kid, orph),
         NEW p \in 1..Len(tab), NEW j \in JobType, j.used, JobRight(j, p), PidsOnce(j),
         NEW kid2, JobThere(j, kid2),
         \A i \in UsedIn(tab) \ {p} : JobThere(tab[i], kid2) /\ PidsDiffer(tab[i], j),
         NEW list2, Lists(list2, UsedIn(tab) \cup {p}),
         NEW orph2,
         \A c \in Pids : ChildOf(kid2, c) =>
           c \in orph2 \/ Holds(j, c) \/ \E i \in UsedIn(tab) \ {p} : Holds(tab[i], c)
  PROVE  JobsHold(Put(tab, p, j), list2, kid2, orph2)
<1> DEFINE tab2 == Put(tab, p, j)
<1>1. tab \in Seq(JobType) /\ TableRight(tab) /\ PidsApart(tab)
  BY DEF JobsHold
<1>2. /\ tab2 \in Seq(JobType) /\ Len(tab2) = Len(tab) /\ tab2[p] = j
      /\ \A i \in 1..Len(tab) : i # p => tab2[i] = tab[i]
      /\ UsedIn(tab2) = UsedIn(tab) \cup {p}
  BY <1>1, PutIs
<1> HIDE DEF tab2
<1>3. \A i \in UsedIn(tab2) : i = p \/ (i \in UsedIn(tab) \ {p} /\ tab2[i] = tab[i])
  BY <1>2 DEF UsedIn
<1>4. TableRight(tab2)
  BY <1>1, <1>2, <1>3 DEF TableRight
<1>5. ProcessesThere(tab2, kid2)
  BY <1>2, <1>3 DEF ProcessesThere
<1>6. PidsApart(tab2)
  <2>1. \A i \in UsedIn(tab2) : PidsOnce(tab2[i])
    BY <1>1, <1>2, <1>3 DEF PidsApart
  <2>2. ASSUME NEW i \in UsedIn(tab2), NEW l \in UsedIn(tab2), i # l
        PROVE  PidsDiffer(tab2[i], tab2[l])
    <3>1. CASE i = p
      <4>1. PidsDiffer(tab2[l], j)
        BY <1>3, <2>2, <3>1
      <4> QED BY <1>2, <3>1, <4>1 DEF PidsDiffer
    <3>2. CASE l = p
      BY <1>2, <1>3, <2>2, <3>2
    <3>3. CASE i # p /\ l # p
      BY <1>1, <1>3, <2>2, <3>3 DEF PidsApart
    <3> QED BY <3>1, <3>2, <3>3
  <2> QED BY <2>1, <2>2 DEF PidsApart
<1>7. ChildrenIn(tab2, kid2, orph2)
  <2>1. ASSUME NEW c \in Pids, ChildOf(kid2, c), c \notin orph2 PROVE InJob(tab2, c)
    <3>1. CASE Holds(j, c)
      BY <1>2, <3>1 DEF InJob
    <3>2. CASE \E i \in UsedIn(tab) \ {p} : Holds(tab[i], c)
      <4>1. PICK i \in UsedIn(tab) \ {p} : Holds(tab[i], c)
        BY <3>2
      <4>2. i \in UsedIn(tab2) /\ tab2[i] = tab[i]
        BY <1>2, <1>3
      <4> QED BY <4>1, <4>2 DEF InJob
    <3> QED BY <2>1, <3>1, <3>2
  <2> QED BY <2>1 DEF ChildrenIn
<1>8. JobsHold(tab2, list2, kid2, orph2)
  BY <1>2, <1>4, <1>5, <1>6, <1>7 DEF JobsHold
<1> QED BY <1>8 DEF tab2

\* Flags that say nothing of the processes change.
LEMMA FlagsHold ==
  ASSUME NEW tab, NEW list, NEW kid, NEW orph, JobsHold(tab, list, kid, orph),
         NEW tab2 \in Seq(JobType), Len(tab2) = Len(tab),
         \A i \in 1..Len(tab) : /\ tab2[i].used = tab[i].used /\ tab2[i].ps = tab[i].ps
                                /\ tab2[i].psat = tab[i].psat /\ tab2[i].state = tab[i].state
                                /\ tab2[i].adrift = tab[i].adrift
  PROVE  JobsHold(tab2, list, kid, orph) /\ UsedIn(tab2) = UsedIn(tab)
<1>1. UsedIn(tab2) = UsedIn(tab) /\ UsedIn(tab) \subseteq 1..Len(tab)
  BY DEF UsedIn
<1>2. TableRight(tab2)
  <2>1. ASSUME NEW i \in UsedIn(tab) PROVE JobRight(tab2[i], i)
    <3>1. JobRight(tab[i], i)
      BY DEF JobsHold, TableRight
    <3>2. tab2[i].ps = tab[i].ps /\ tab2[i].psat = tab[i].psat /\ tab2[i].state = tab[i].state
          /\ (tab2[i].adrift <=> tab[i].adrift)
      BY <1>1
    <3>3. \A st : HasStatus(tab2[i], st) <=> HasStatus(tab[i], st)
      BY <3>2 DEF HasStatus
    <3> QED BY <3>1, <3>2, <3>3 DEF JobRight
  <2> QED BY <1>1, <2>1 DEF TableRight
<1>3. PidsApart(tab2)
  <2>1. \A i \in UsedIn(tab) : tab2[i].ps = tab[i].ps
    BY <1>1
  <2>2. ASSUME NEW i \in UsedIn(tab) PROVE PidsOnce(tab2[i])
    <3>1. PidsOnce(tab[i])
      BY DEF JobsHold, PidsApart
    <3> QED BY <2>1, <3>1 DEF PidsOnce
  <2>3. ASSUME NEW i \in UsedIn(tab), NEW j \in UsedIn(tab), i # j
        PROVE  PidsDiffer(tab2[i], tab2[j])
    <3>1. PidsDiffer(tab[i], tab[j])
      BY <2>3 DEF JobsHold, PidsApart
    <3> QED BY <2>1, <3>1 DEF PidsDiffer
  <2> QED BY <1>1, <2>2, <2>3 DEF PidsApart
<1>4. ProcessesThere(tab2, kid)
  BY <1>1 DEF JobsHold, ProcessesThere, JobThere
<1>5. \A p : InJob(tab, p) => InJob(tab2, p)
  BY <1>1 DEF InJob, Holds
<1>6. ChildrenIn(tab2, kid, orph)
  BY <1>5 DEF JobsHold, ChildrenIn
<1> QED BY <1>1, <1>2, <1>3, <1>4, <1>6 DEF JobsHold

NewJob(n, i) == [Unused EXCEPT !.used = TRUE, !.state = "running", !.jobctl = jobctl,
                               !.psat = IF n > 1 THEN 0 ELSE i]

\* makejob takes slot i of a table that holds.
MakesIn(n, tab, list, i) ==
  /\ JobsHold(tab, list, kids, orphans)
  /\ i \in 1..Len(tab) /\ ~tab[i].used
  /\ makejob(n) = [tab |-> Put(tab, i, NewJob(n, i)), list |-> <<i>> \o list]

\* A slot that is unused, or was waited for, or a new one (makejob,
\* jobs.c:757-798).
LEMMA makejobIs ==
  ASSUME NEW n \in Nat, JobsHold(jobtab, joblist, kids, orphans)
  PROVE  \E tab, list, i : MakesIn(n, tab, list, i)
<1> DEFINE free == {i \in DOMAIN jobtab : Reusable(jobtab[i])}
           m == Min(free)
           Made(js, i) == [tab |-> Put(js.tab, i, NewJob(n, i)), list |-> <<i>> \o js.list]
<1>1. makejob(n) = IF free = {} THEN Made(growjobtab(Jobs), Len(jobtab) + 1)
                   ELSE IF jobtab[m].used THEN Made(freejob(Jobs, m), m)
                   ELSE Made(Jobs, m)
  BY DEF makejob, Put, NewJob
<1>2. Jobs = [tab |-> jobtab, list |-> joblist]
  BY DEF Jobs
<1>3. jobtab \in Seq(JobType) /\ DOMAIN jobtab = 1..Len(jobtab)
  BY DEF JobsHold
<1>4. CASE free = {}
  <2> DEFINE i == Len(jobtab) + 1
  <2>1. PICK tab2 : /\ growjobtab([tab |-> jobtab, list |-> joblist])
                         = [tab |-> tab2, list |-> joblist]
                    /\ JobsHold(tab2, joblist, kids, orphans)
                    /\ i \in 1..Len(tab2) /\ ~tab2[i].used
    BY GrownIs
  <2> HIDE DEF i, free
  <2>2. makejob(n) = Made(growjobtab(Jobs), i)
    BY <1>1, <1>4 DEF i
  <2> DEFINE grown == [tab |-> tab2, list |-> joblist]
  <2>3. makejob(n) = [tab |-> Put(tab2, i, NewJob(n, i)), list |-> <<i>> \o joblist]
    <3>1. growjobtab(Jobs) = grown
      BY <1>2, <2>1
    <3>2. grown.tab = tab2 /\ grown.list = joblist
      OBVIOUS
    <3> HIDE DEF grown
    <3>3. makejob(n) = Made(grown, i)
      BY <2>2, <3>1
    <3> QED BY <3>2, <3>3
  <2>4. MakesIn(n, tab2, joblist, i)
    BY <2>1, <2>3 DEF MakesIn
  <2> QED BY <2>4
<1>5. CASE free # {}
  <2>1. m \in free
    <3>1. free \in SUBSET Nat
      BY <1>3
    <3> HIDE DEF free
    <3>2. \E x \in free : \A y \in free : x <= y
      BY <1>5, <3>1, LeastElement
    <3> QED BY <3>2 DEF Min
  <2>2. m \in 1..Len(jobtab) /\ Reusable(jobtab[m])
    BY <1>3, <2>1
  <2> HIDE DEF m, free
  <2>3. CASE jobtab[m].used
    <3>1. m \in UsedIn(jobtab) /\ jobtab[m].state = "done"
      BY <2>2, <2>3 DEF Reusable, UsedIn
    <3>2. JobsHold(Freed(jobtab, m), Without(joblist, m), kids, orphans)
      BY <3>1, FreeHolds
    <3>3. freejob(Jobs, m) = [tab |-> Freed(jobtab, m), list |-> Without(joblist, m)]
      BY <1>2, freejobIs
    <3>4. /\ Len(Freed(jobtab, m)) = Len(jobtab)
          /\ UsedIn(Freed(jobtab, m)) = UsedIn(jobtab) \ {m}
      BY <1>3, <2>2, FreedIs
    <3> DEFINE tab2 == Freed(jobtab, m)
               list2 == Without(joblist, m)
    <3> HIDE DEF tab2, list2
    <3>5. m \in 1..Len(tab2) /\ ~tab2[m].used
      BY <2>2, <3>4 DEF UsedIn, tab2
    <3>6. makejob(n) = Made(freejob(Jobs, m), m)
      BY <1>1, <1>5, <2>3
    <3>7. makejob(n) = [tab |-> Put(tab2, m, NewJob(n, m)), list |-> <<m>> \o list2]
      BY <3>3, <3>6 DEF tab2, list2
    <3>8. MakesIn(n, tab2, list2, m)
      BY <3>2, <3>5, <3>7 DEF MakesIn, tab2, list2
    <3> QED BY <3>8
  <2>4. CASE ~jobtab[m].used
    <3>1. makejob(n) = Made(Jobs, m)
      BY <1>1, <1>5, <2>4
    <3>2. makejob(n) = [tab |-> Put(jobtab, m, NewJob(n, m)), list |-> <<m>> \o joblist]
      BY <1>2, <3>1
    <3>3. MakesIn(n, jobtab, joblist, m)
      BY <2>2, <2>4, <3>2 DEF MakesIn
    <3> QED BY <3>3
  <2> QED BY <2>3, <2>4
<1> QED BY <1>4, <1>5

-----------------------------------------------------------------------------
(* Forking: the pids are given out in order.                               *)

LEMMA PidsAre ==
  \E N \in Nat : Pids = 1..N
BY JobsAssumption, FS_CardinalityType

LEMMA NextPidIs ==
  ASSUME KidsRight(kids)
  PROVE  /\ NextPid \in Nat \ {0}
         /\ \A p \in Pids : kids[p].st # "none" <=> p < NextPid
<1>1. PICK c \in Nat : {p \in Pids : kids[p].st # "none"} = 1..c
  BY DEF KidsRight
<1>2. Cardinality(1..c) = c
  BY FS_Interval
<1>3. NextPid = c + 1
  BY <1>1, <1>2 DEF NextPid
<1>4. PICK N \in Nat : Pids = 1..N
  BY PidsAre
<1>5. ASSUME NEW p \in Pids PROVE kids[p].st # "none" <=> p < NextPid
  <2>1. kids[p].st # "none" <=> p \in 1..c
    BY <1>1
  <2> QED BY <1>3, <1>4, <2>1
<1> QED BY <1>3, <1>5

\* The pids that k forks give out.
Fresh(k) == NextPid..(NextPid + k - 1)

LEMMA ForkedIs ==
  ASSUME KidsRight(kids), NEW k \in Nat, NextPid + k - 1 \in Pids \cup {0}
  PROVE  /\ Fresh(k) \subseteq Pids /\ KidsRight(Forked(k))
         /\ \A p \in Fresh(k) : kids[p].st = "none" /\ Forked(k)[p].st = "run"
         /\ \A p \in Pids \ Fresh(k) : Forked(k)[p] = kids[p]
<1>1. NextPid \in Nat \ {0} /\ \A p \in Pids : kids[p].st # "none" <=> p < NextPid
  BY NextPidIs
<1>2. PICK N \in Nat : Pids = 1..N
  BY PidsAre
<1> DEFINE m == NextPid
<1> HIDE DEF m
<1>3. m \in Nat \ {0} /\ m + k - 1 \in 0..N /\ Fresh(k) = m..(m + k - 1)
  BY <1>1, <1>2 DEF m, Fresh
<1>4. Fresh(k) \subseteq Pids
  BY <1>2, <1>3
<1>5. kids \in [Pids -> KidType]
  BY DEF KidsRight
<1> DEFINE kid2 == Forked(k)
<1>6. kid2 = [p \in Pids |-> IF p \in Fresh(k) THEN [st |-> "run", news |-> FALSE] ELSE kids[p]]
  BY DEF Forked, Fresh
<1> HIDE DEF kid2
<1>7. \A p \in Fresh(k) : kid2[p] = [st |-> "run", news |-> FALSE]
  BY <1>4, <1>6
<1>8. \A p \in Pids \ Fresh(k) : kid2[p] = kids[p]
  BY <1>6
<1>9. \A p \in Fresh(k) : kids[p].st = "none"
  BY <1>1, <1>3, <1>4 DEF m
<1>10. KidsRight(kid2)
  <2>1. ASSUME NEW p \in Pids
        PROVE kid2[p] \in KidType /\ (kid2[p].news => kid2[p].st \in {"stop", "end"})
    <3>1. CASE p \in Fresh(k)
      <4> DEFINE child == [st |-> "run", news |-> FALSE]
      <4>1. child \in KidType /\ ~child.news
        BY DEF KidType
      <4>2. kid2[p] = child
        BY <1>7, <3>1
      <4> HIDE DEF child
      <4> QED BY <4>1, <4>2
    <3>2. CASE p \notin Fresh(k)
      BY <1>5, <1>8, <3>2 DEF KidsRight
    <3> QED BY <3>1, <3>2
  <2>2. kid2 \in [Pids -> KidType]
    BY <1>6, <2>1
  <2>3. {p \in Pids : kid2[p].st # "none"} = 1..(m + k - 1)
    <3>1. ASSUME NEW p \in Pids PROVE kid2[p].st # "none" <=> p \in 1..(m + k - 1)
      <4>1. p \in 1..N
        BY <1>2
      <4>2. CASE p \in Fresh(k)
        BY <1>3, <1>7, <4>1, <4>2
      <4>3. CASE p \notin Fresh(k)
        <5>1. kid2[p].st # "none" <=> p < m
          BY <1>1, <1>8, <4>3 DEF m
        <5> QED BY <1>3, <4>1, <4>3, <5>1
      <4> QED BY <4>2, <4>3
    <3>2. 1..(m + k - 1) \subseteq Pids
      BY <1>2, <1>3
    <3> QED BY <3>1, <3>2
  <2>4. m + k - 1 \in Nat
    BY <1>3
  <2> QED BY <2>1, <2>2, <2>3, <2>4 DEF KidsRight
<1> QED BY <1>4, <1>7, <1>8, <1>9, <1>10 DEF kid2

-----------------------------------------------------------------------------
(* Steps of the shell that begin or end a wait, and the list.              *)

\* set_curjob puts a job behind the stopped ones.
LEMMA BehindLists ==
  ASSUME NEW tab, NEW list, NEW S, Lists(list, S), NEW p \in S
  PROVE  Lists(Behind([tab |-> tab, list |-> list], p), S)
<1> DEFINE js == [tab |-> tab, list |-> list]
           rest == Without(list, p)
           ns == {k \in 0..Len(rest) :
                    k = Len(rest) \/ tab[rest[k + 1]].state # "stopped"}
           n == Min(ns)
<1>1. Behind(js, p) = Inserted(rest, n, p)
  BY DEF Behind, Inserted
<1>2. Lists(rest, S \ {p})
  BY WithoutLists
<1> HIDE DEF rest
<1>3. Len(rest) \in Nat
  BY <1>2 DEF Lists
<1>4. ns \in SUBSET Nat /\ Len(rest) \in ns
  BY <1>3
<1>5. n \in ns
  <2> HIDE DEF ns
  <2>1. \E x \in ns : \A y \in ns : x <= y
    BY <1>4, LeastElement
  <2> QED BY <2>1 DEF Min
<1>6. n \in 0..Len(rest)
  BY <1>5
<1> HIDE DEF n
<1>7. Lists(Inserted(rest, n, p), (S \ {p}) \cup {p})
  BY <1>2, <1>6, InsertedLists
<1>8. (S \ {p}) \cup {p} = S
  OBVIOUS
<1> QED BY <1>1, <1>7, <1>8

PCs == {"idle", "waitproc", "wait3", "check", "suspend", "unblocked", "return"}

\* dowait for a job, and for any child.
LEMMA dowaitRight ==
  ASSUME NEW js, NEW block \in {"block", "wait"}, UsedIn(js.tab) \subseteq Nat \ {0},
         NEW job \in UsedIn(js.tab), NEW then \in {"foreground", "wait"},
         dowait(js, block, job, then)
  PROVE  WaitRight(js.tab, jobpc', wait') /\ jobpc' \in PCs
<1> DEFINE b == IF job # NoJob /\ js.tab[job].state # "running" THEN "no" ELSE block
<1>1. /\ wait' = [block |-> b, job |-> job, rpid |-> TRUE, then |-> then]
      /\ jobpc' = IF b = "no" /\ ~gotsigchld THEN "return" ELSE "waitproc"
  BY DEF dowait
<1>2. job \in Nat /\ job # 0
  OBVIOUS
<1>3. b \in {"no", "block", "wait"} /\ (b = "no" => js.tab[job].state # "running")
  OBVIOUS
<1> HIDE DEF b
<1>4. wait' \in WaitType
  BY <1>1, <1>2, <1>3 DEF WaitType
<1>5. /\ wait'.job = job /\ wait'.block = b /\ wait'.then = then
      /\ jobpc' = "return" => b = "no"
  BY <1>1
<1>6. jobpc' \in PCs
  BY <1>1 DEF PCs
<1> QED BY <1>3, <1>4, <1>5, <1>6 DEF WaitRight

LEMMA dowaitAny ==
  ASSUME NEW js, NEW block \in {"no", "all"}, NEW then \in {"show", "wait all"}, NEW tab,
         dowait(js, block, NoJob, then)
  PROVE  WaitRight(tab, jobpc', wait') /\ jobpc' \in PCs
<1>1. /\ wait' = [block |-> block, job |-> NoJob, rpid |-> TRUE, then |-> then]
      /\ jobpc' = IF block = "no" /\ ~gotsigchld THEN "return" ELSE "waitproc"
  BY DEF dowait
<1>2. wait' \in WaitType
  BY <1>1 DEF WaitType, NoJob
<1>3. wait'.then = then
  BY <1>1
<1>4. jobpc' \in PCs
  BY <1>1 DEF PCs
<1> QED BY <1>2, <1>3, <1>4 DEF WaitRight

LEMMA IdleRight ==
  ASSUME NEW tab, NEW w \in WaitType
  PROVE  WaitRight(tab, "idle", w)
BY DEF WaitRight

LEMMA NoWaitTyped == NoWait \in WaitType
BY DEF NoWait, WaitType, NoJob

\* The used slots.
LEMMA UsedNat ==
  ASSUME NEW tab \in Seq(JobType)
  PROVE  UsedIn(tab) \subseteq Nat \ {0} /\ UsedIn(tab) \subseteq 1..Len(tab)
BY DEF UsedIn

-----------------------------------------------------------------------------
(* Commands that fork.                                                     *)

RunPs(n) == [k \in 1..n |-> [pid |-> NextPid + k - 1, status |-> "run"]]

RunJob(n, i) == [NewJob(n, i) EXCEPT !.ps = RunPs(n)]

LEMMA RunJobIs ==
  ASSUME NEW n \in Nat \ {0}, NEW i \in Nat, jobctl \in BOOLEAN, KidsRight(kids),
         NextPid + n - 1 \in Pids
  PROVE  /\ NewJob(n, i) \in JobType
         /\ RunJob(n, i) \in JobType /\ RunJob(n, i).used /\ RunJob(n, i).state = "running"
         /\ RunJob(n, i).psat = IF n > 1 THEN 0 ELSE i
         /\ RunJob(n, i).ps = RunPs(n) /\ Len(RunPs(n)) = n
         /\ \A k \in 1..n : RunPs(n)[k].pid = NextPid + k - 1 /\ RunPs(n)[k].status = "run"
<1>1. Unused \in JobType
  BY UnusedIsJob
<1>2. NewJob(n, i) \in JobType
  BY <1>1 DEF NewJob, JobType
<1>3. /\ NewJob(n, i).used /\ NewJob(n, i).state = "running"
      /\ NewJob(n, i).psat = IF n > 1 THEN 0 ELSE i
  BY <1>1 DEF NewJob, JobType
<1>4. NextPid \in Nat \ {0} /\ Fresh(n) \subseteq Pids
  BY NextPidIs, ForkedIs
<1>5. ASSUME NEW k \in 1..n PROVE [pid |-> NextPid + k - 1, status |-> "run"] \in PsType
  <2> DEFINE m == NextPid
  <2> HIDE DEF m
  <2>1. m + k - 1 \in m..(m + n - 1)
    BY <1>4 DEF m
  <2>2. m + k - 1 \in Pids
    BY <1>4, <2>1 DEF Fresh, m
  <2>3. [pid |-> m + k - 1, status |-> "run"] \in PsType
    BY <2>2 DEF PsType
  <2> QED BY <2>3 DEF m
<1>6. RunPs(n) \in Seq(PsType) /\ Len(RunPs(n)) = n
  BY <1>5 DEF RunPs
<1>7. \A k \in 1..n : RunPs(n)[k].pid = NextPid + k - 1 /\ RunPs(n)[k].status = "run"
  BY DEF RunPs
<1>8. /\ RunJob(n, i) \in JobType /\ RunJob(n, i).used /\ RunJob(n, i).state = "running"
      /\ RunJob(n, i).psat = IF n > 1 THEN 0 ELSE i
      /\ RunJob(n, i).ps = RunPs(n)
  BY <1>2, <1>3, <1>6 DEF RunJob, JobType
<1> QED BY <1>2, <1>6, <1>7, <1>8

\* A job that is forked holds with the others.
LEMMA RunHolds ==
  ASSUME NEW n \in Nat \ {0}, NEW tab, NEW list, NEW i, MakesIn(n, tab, list, i),
         jobctl \in BOOLEAN, KidsRight(kids), NextPid + n - 1 \in Pids,
         NEW list2, Lists(list2, UsedIn(tab) \cup {i})
  PROVE  JobsHold(Put(tab, i, RunJob(n, i)), list2, Forked(n), orphans)
<1> DEFINE j == RunJob(n, i)
           ps == RunPs(n)
<1>1. JobsHold(tab, list, kids, orphans) /\ i \in 1..Len(tab) /\ ~tab[i].used
  BY DEF MakesIn
<1>2. tab \in Seq(JobType) /\ ProcessesThere(tab, kids) /\ ChildrenIn(tab, kids, orphans)
  BY <1>1 DEF JobsHold
<1>3. i \in Nat /\ i \notin UsedIn(tab)
  BY <1>1 DEF UsedIn
<1>4. /\ j \in JobType /\ j.used /\ j.state = "running"
      /\ j.psat = IF n > 1 THEN 0 ELSE i
      /\ j.ps = ps /\ Len(ps) = n
      /\ \A k \in 1..n : ps[k].pid = NextPid + k - 1 /\ ps[k].status = "run"
  BY <1>3, RunJobIs
<1>5. NextPid \in Nat \ {0}
  BY NextPidIs
<1>6. /\ Fresh(n) \subseteq Pids
      /\ \A p \in Fresh(n) : kids[p].st = "none" /\ Forked(n)[p].st = "run"
      /\ \A p \in Pids \ Fresh(n) : Forked(n)[p] = kids[p]
  BY ForkedIs
<1> HIDE DEF j, ps
<1>7. JobRight(j, i)
  <2>1. 1 \in 1..Len(j.ps) /\ j.ps[1].status = "run"
    BY <1>4
  <2>2. HasStatus(j, "run")
    BY <2>1 DEF HasStatus
  <2> QED BY <1>4, <2>2 DEF JobRight
<1>8. PidsOnce(j)
  <2>1. ASSUME NEW q \in 1..n, NEW r \in 1..n, ps[q].pid = ps[r].pid PROVE q = r
    <3>1. NextPid + q - 1 = NextPid + r - 1
      BY <1>4, <2>1
    <3> QED BY <1>5, <3>1
  <2> QED BY <1>4, <2>1 DEF PidsOnce
<1>9. \A q \in 1..n : ps[q].pid \in Fresh(n)
  BY <1>4, <1>5 DEF Fresh
<1>10. JobThere(j, Forked(n))
  BY <1>4, <1>6, <1>9 DEF JobThere, ProcessThere
<1>11. ASSUME NEW l \in UsedIn(tab) \ {i} PROVE JobThere(tab[l], Forked(n)) /\ PidsDiffer(tab[l], j)
  <2>1. ASSUME NEW q \in 1..Len(tab[l].ps)
        PROVE  /\ ProcessThere(tab[l].ps[q], Forked(n))
               /\ tab[l].ps[q].pid \notin Fresh(n)
    <3>1. ProcessThere(tab[l].ps[q], kids)
      BY <1>2 DEF ProcessesThere, JobThere
    <3>2. tab[l].ps[q].pid \in Pids
      BY <1>2, JobTyped
    <3>3. tab[l].ps[q].pid \notin Fresh(n)
      BY <1>6, <3>1 DEF ProcessThere
    <3> QED BY <1>6, <3>1, <3>2, <3>3 DEF ProcessThere
  <2> QED BY <1>4, <1>9, <2>1 DEF JobThere, PidsDiffer
<1>12. ASSUME NEW c \in Pids, ChildOf(Forked(n), c)
       PROVE  c \in orphans \/ Holds(j, c) \/ \E l \in UsedIn(tab) \ {i} : Holds(tab[l], c)
  <2>1. CASE c \in Fresh(n)
    <3>1. c - NextPid + 1 \in 1..n /\ NextPid + (c - NextPid + 1) - 1 = c
      BY <1>5, <2>1 DEF Fresh
    <3>2. ps[c - NextPid + 1].pid = c /\ ps[c - NextPid + 1].status # "end"
      BY <1>4, <3>1
    <3>3. Holds(j, c)
      BY <1>4, <3>1, <3>2 DEF Holds
    <3> QED BY <3>3
  <2>2. CASE c \notin Fresh(n)
    <3>1. ChildOf(kids, c)
      BY <1>6, <1>12, <2>2 DEF ChildOf
    <3>2. c \in orphans \/ InJob(tab, c)
      BY <1>2, <3>1 DEF ChildrenIn
    <3> QED BY <1>3, <3>2 DEF InJob
  <2> QED BY <2>1, <2>2
<1>13. JobsHold(Put(tab, i, j), list2, Forked(n), orphans)
  BY <1>1, <1>4, <1>7, <1>8, <1>10, <1>11, <1>12, PutHolds
<1> QED BY <1>13 DEF j

\* The job made, given its processes, and given up.
MadeSo(made, n, tab, list, i) ==
  /\ made.list[1] = i
  /\ [made EXCEPT !.tab[i].ps = RunPs(n)]
       = [tab |-> Put(tab, i, RunJob(n, i)), list |-> <<i>> \o list]
  /\ freejob(made, i) = [tab |-> Freed(tab, i), list |-> Without(<<i>> \o list, i)]

LEMMA MadeIs ==
  ASSUME NEW n, NEW tab \in Seq(JobType), NEW list, NEW i \in 1..Len(tab),
         NEW made, made = [tab |-> Put(tab, i, NewJob(n, i)), list |-> <<i>> \o list]
  PROVE  MadeSo(made, n, tab, list, i)
<1>1. made.list[1] = i
  <2>1. made.list = <<i>> \o list
    OBVIOUS
  <2> QED BY <2>1
<1> DEFINE t == Put(tab, i, NewJob(n, i))
<1>2. t[i] = NewJob(n, i)
  BY DEF Put
<1>3. [t EXCEPT ![i].ps = RunPs(n)] = [t EXCEPT ![i] = RunJob(n, i)]
  BY <1>2 DEF RunJob
<1>4. [t EXCEPT ![i] = RunJob(n, i)] = Put(tab, i, RunJob(n, i))
  BY DEF Put
<1>5. Freed(t, i) = Freed(tab, i)
  BY DEF Put, Freed
<1>6. [made EXCEPT !.tab[i].ps = RunPs(n)]
        = [tab |-> [t EXCEPT ![i].ps = RunPs(n)], list |-> <<i>> \o list]
  <2> DEFINE l == <<i>> \o list
             ps == RunPs(n)
  <2>1. made = [tab |-> t, list |-> l]
    OBVIOUS
  <2> HIDE DEF t, l, ps
  <2>2. made.tab = t
    BY <2>1
  <2> DEFINE t2 == [t EXCEPT ![i].ps = ps]
  <2>3. [made EXCEPT !.tab[i].ps = ps] = [made EXCEPT !.tab = t2]
    BY <2>2
  <2> HIDE DEF t2
  <2>4. [made EXCEPT !.tab = t2] = [tab |-> t2, list |-> l]
    <3>1. [[tab |-> t, list |-> l] EXCEPT !.tab = t2] = [tab |-> t2, list |-> l]
      OBVIOUS
    <3> QED BY <2>1, <3>1, Zenon
  <2>5. [made EXCEPT !.tab[i].ps = ps] = [tab |-> t2, list |-> l]
    BY <2>3, <2>4
  <2> QED BY <2>5 DEF l, ps, t2
<1>7. freejob(made, i) = [tab |-> Freed(t, i), list |-> Without(<<i>> \o list, i)]
  BY freejobIs
<1> QED BY <1>1, <1>3, <1>4, <1>5, <1>6, <1>7 DEF MadeSo

-----------------------------------------------------------------------------
\* A child ends, stops or goes on.
LEMMA ChangesKeeps ==
  ASSUME JobsInv, NEW p \in Pids, NEW st \in {"run", "stop", "end"}, NEW news \in BOOLEAN,
         kids[p].st \in {"run", "stop"}, news => st \in {"stop", "end"},
         Changes(p, st, news)
  PROVE  JobsInv'
<1>1. /\ kids' = [kids EXCEPT ![p] = [st |-> st, news |-> news]]
      /\ UNCHANGED <<jobtab, joblist, orphans, jobctl, jobpc, wait>>
      /\ gotsigchld' \in BOOLEAN
  BY DEF Changes, Signalled, JobsInv
<1>2. kids \in [Pids -> KidType]
  BY DEF JobsInv, KidsRight
<1> DEFINE now == [st |-> st, news |-> news]
<1>3. now \in KidType /\ now.st = st /\ (now.news => news)
  BY DEF KidType
<1> HIDE DEF now
<1>4. /\ kids' \in [Pids -> KidType]
      /\ kids'[p] = now /\ \A c \in Pids : c # p => kids'[c] = kids[c]
  BY <1>1, <1>2, <1>3 DEF now
<1>5. \A c \in Pids : /\ kids'[c].st = "none" <=> kids[c].st = "none"
                      /\ kids'[c].st = "gone" <=> kids[c].st = "gone"
  BY <1>3, <1>4
<1>6. KidsRight(kids')
  <2>1. \A c \in Pids : kids'[c].news => kids'[c].st \in {"stop", "end"}
    BY <1>3, <1>4 DEF JobsInv, KidsRight
  <2>2. {c \in Pids : kids'[c].st # "none"} = {c \in Pids : kids[c].st # "none"}
    BY <1>5
  <2> QED BY <1>4, <2>1, <2>2 DEF JobsInv, KidsRight
<1>7. JobsHold(jobtab, joblist, kids', orphans)
  <2>1. JobsHold(jobtab, joblist, kids, orphans)
    BY DEF JobsInv
  <2> QED BY <1>5, <2>1, KidsChange
<1>8. JobsHold(jobtab', joblist', kids', orphans')
  BY <1>1, <1>7
<1>9. WaitRight(jobtab', jobpc', wait')
  BY <1>1 DEF JobsInv
<1> QED BY <1>1, <1>6, <1>8, <1>9 DEF JobsInv

LEMMA child_endsKeeps ==
  ASSUME JobsInv, NEW p \in Pids, child_ends(p) PROVE JobsInv'
<1>1. PICK news \in BOOLEAN : news = TRUE
  OBVIOUS
<1>2. Changes(p, "end", news) /\ kids[p].st \in {"run", "stop"}
  BY <1>1 DEF child_ends, Changes
<1> QED BY <1>2, ChangesKeeps

LEMMA child_stopsKeeps ==
  ASSUME JobsInv, NEW p \in Pids, child_stops(p) PROVE JobsInv'
<1>1. PICK news \in BOOLEAN : news = TRUE
  OBVIOUS
<1>2. Changes(p, "stop", news) /\ kids[p].st \in {"run", "stop"}
  BY <1>1 DEF child_stops, Changes
<1> QED BY <1>2, ChangesKeeps

LEMMA child_continuesKeeps ==
  ASSUME JobsInv, NEW p \in Pids, child_continues(p) PROVE JobsInv'
<1>1. PICK news \in BOOLEAN : news = FALSE
  OBVIOUS
<1>2. Changes(p, "run", news) /\ kids[p].st \in {"run", "stop"}
  BY <1>1 DEF child_continues, Changes
<1> QED BY <1>1, <1>2, ChangesKeeps

\* A command, in the foreground or not.
LEMMA runKeeps ==
  ASSUME JobsInv, NEW n \in Processes, NEW background \in BOOLEAN, run(n, background)
  PROVE  JobsInv'
<1>1. n \in Nat \ {0}
  BY JobsAssumption
<1>2. /\ JobsHold(jobtab, joblist, kids, orphans) /\ KidsRight(kids) /\ jobctl \in BOOLEAN
      /\ wait \in WaitType /\ gotsigchld \in BOOLEAN
  BY DEF JobsInv, WaitRight
<1>3. PICK tab, list, i : MakesIn(n, tab, list, i)
  BY <1>1, <1>2, makejobIs
<1>4. /\ JobsHold(tab, list, kids, orphans) /\ i \in 1..Len(tab) /\ tab \in Seq(JobType)
      /\ i \notin UsedIn(tab) /\ Lists(list, UsedIn(tab)) /\ i \in Nat
      /\ makejob(n) = [tab |-> Put(tab, i, NewJob(n, i)), list |-> <<i>> \o list]
  BY <1>3 DEF MakesIn, JobsHold, UsedIn
<1> DEFINE made == makejob(n)
           p == made.list[1]
           js == [made EXCEPT !.tab[p].ps = RunPs(n)]
           tab2 == Put(tab, i, RunJob(n, i))
           list2 == <<i>> \o list
           jobs2 == [tab |-> tab2, list |-> list2]
<1>5. /\ jobpc = "idle" /\ NextPid + n - 1 \in Pids /\ kids' = Forked(n)
      /\ UNCHANGED <<orphans, gotsigchld, jobctl>>
  BY DEF run
<1>6. IF background THEN /\ Become_jobs([js EXCEPT !.list = Behind(js, p)])
                         /\ UNCHANGED <<jobpc, wait>>
      ELSE Become_jobs(js) /\ dowait(js, "block", p, "foreground")
  BY DEF run, RunPs
<1>7. p = i /\ js = jobs2
  <2> HIDE DEF made
  <2>1. made = [tab |-> Put(tab, i, NewJob(n, i)), list |-> <<i>> \o list]
    BY <1>4 DEF made
  <2>2. MadeSo(made, n, tab, list, i)
    BY <1>4, <2>1, MadeIs
  <2>3. p = i
    BY <2>2 DEF MadeSo
  <2>4. [made EXCEPT !.tab[i].ps = RunPs(n)] = jobs2
    BY <2>2 DEF MadeSo
  <2> QED BY <2>3, <2>4
<1> HIDE DEF p, js
<1>8. IF background THEN /\ jobtab' = tab2 /\ joblist' = Behind(jobs2, i)
                         /\ UNCHANGED <<jobpc, wait>>
      ELSE /\ jobtab' = tab2 /\ joblist' = list2
           /\ dowait(jobs2, "block", i, "foreground")
  <2> HIDE DEF tab2, list2
  <2>1. [jobs2 EXCEPT !.list = Behind(jobs2, i)] = [tab |-> tab2, list |-> Behind(jobs2, i)]
    OBVIOUS
  <2>2. CASE background
    <3>1. Become_jobs([jobs2 EXCEPT !.list = Behind(jobs2, i)]) /\ UNCHANGED <<jobpc, wait>>
      BY <1>6, <1>7, <2>2
    <3> QED BY <2>1, <2>2, <3>1 DEF Become_jobs
  <2>3. CASE ~background
    <3>1. Become_jobs(jobs2) /\ dowait(jobs2, "block", i, "foreground")
      BY <1>6, <1>7, <2>3
    <3> QED BY <2>3, <3>1 DEF Become_jobs
  <2> QED BY <2>2, <2>3
<1>9. /\ tab2 \in Seq(JobType) /\ UsedIn(tab2) = UsedIn(tab) \cup {i}
      /\ RunJob(n, i) \in JobType /\ RunJob(n, i).used /\ tab2[i].state = "running"
  <2>1. RunJob(n, i) \in JobType /\ RunJob(n, i).used /\ RunJob(n, i).state = "running"
    BY <1>1, <1>2, <1>4, <1>5, RunJobIs
  <2> QED BY <1>4, <2>1, PutIs
<1>10. Lists(list2, UsedIn(tab) \cup {i}) /\ Lists(Behind(jobs2, i), UsedIn(tab) \cup {i})
  <2>1. Lists(list2, UsedIn(tab) \cup {i})
    BY <1>4, FirstLists
  <2>2. i \in UsedIn(tab) \cup {i}
    OBVIOUS
  <2> QED BY <2>1, <2>2, BehindLists
<1>11. Lists(joblist', UsedIn(tab) \cup {i}) /\ jobtab' = tab2
  BY <1>8, <1>10
<1>12. JobsHold(tab2, joblist', Forked(n), orphans)
  BY <1>1, <1>2, <1>3, <1>5, <1>11, RunHolds
<1>13. KidsRight(kids')
  BY <1>1, <1>2, <1>5, ForkedIs
<1> HIDE DEF tab2, list2
<1>14. WaitRight(jobtab', jobpc', wait') /\ jobpc' \in PCs
  <2>1. CASE background
    BY <1>2, <1>5, <1>8, <2>1, IdleRight DEF PCs
  <2>2. CASE ~background
    <3>1. jobs2.tab = tab2
      OBVIOUS
    <3>2. UsedIn(tab2) \subseteq Nat \ {0} /\ i \in UsedIn(tab2)
      BY <1>9, UsedNat
    <3>3. dowait(jobs2, "block", i, "foreground")
      BY <1>8, <2>2
    <3> HIDE DEF jobs2
    <3>4. WaitRight(jobs2.tab, jobpc', wait') /\ jobpc' \in PCs
      BY <3>1, <3>2, <3>3, dowaitRight
    <3> QED BY <1>11, <3>1, <3>4
  <2> QED BY <2>1, <2>2
<1>15. JobsHold(jobtab', joblist', kids', orphans')
  BY <1>5, <1>11, <1>12
<1> QED BY <1>2, <1>5, <1>13, <1>14, <1>15 DEF JobsInv, PCs

\* The processes whose job was given up stay.
LEMMA ForksHold ==
  ASSUME NEW tab, NEW list, JobsHold(tab, list, kids, orphans), KidsRight(kids),
         NEW k \in Nat, NextPid + k - 1 \in Pids \cup {0}
  PROVE  JobsHold(tab, list, Forked(k), orphans \cup Fresh(k))
<1>1. /\ \A p \in Fresh(k) : kids[p].st = "none"
      /\ \A p \in Pids \ Fresh(k) : Forked(k)[p] = kids[p]
  BY ForkedIs
<1>2. tab \in Seq(JobType) /\ ProcessesThere(tab, kids) /\ ChildrenIn(tab, kids, orphans)
  BY DEF JobsHold
<1>3. ASSUME NEW i \in UsedIn(tab), NEW q \in 1..Len(tab[i].ps)
      PROVE  ProcessThere(tab[i].ps[q], Forked(k))
  <2>1. tab[i].ps[q].pid \in Pids
    BY <1>2, JobTyped
  <2>2. ProcessThere(tab[i].ps[q], kids)
    BY <1>2 DEF ProcessesThere, JobThere
  <2> QED BY <1>1, <2>1, <2>2 DEF ProcessThere
<1>4. ProcessesThere(tab, Forked(k))
  BY <1>3 DEF ProcessesThere, JobThere
<1>5. ChildrenIn(tab, Forked(k), orphans \cup Fresh(k))
  BY <1>1, <1>2 DEF ChildrenIn, ChildOf
<1> QED BY <1>4, <1>5 DEF JobsHold

LEMMA fork_failsKeeps ==
  ASSUME JobsInv, NEW n \in Processes, NEW k \in 0..n - 1, fork_fails(n, k)
  PROVE  JobsInv'
<1>1. n \in Nat \ {0} /\ k \in Nat
  BY JobsAssumption
<1>2. /\ JobsHold(jobtab, joblist, kids, orphans) /\ KidsRight(kids) /\ jobctl \in BOOLEAN
      /\ wait \in WaitType /\ gotsigchld \in BOOLEAN
  BY DEF JobsInv, WaitRight
<1>3. PICK tab, list, i : MakesIn(n, tab, list, i)
  BY <1>1, <1>2, makejobIs
<1>4. /\ JobsHold(tab, list, kids, orphans) /\ i \in 1..Len(tab) /\ tab \in Seq(JobType)
      /\ i \notin UsedIn(tab) /\ Lists(list, UsedIn(tab)) /\ i \in Nat
      /\ makejob(n) = [tab |-> Put(tab, i, NewJob(n, i)), list |-> <<i>> \o list]
  BY <1>3 DEF MakesIn, JobsHold, UsedIn
<1> DEFINE made == makejob(n)
<1>5. /\ jobpc = "idle" /\ NextPid + k - 1 \in Pids \cup {0} /\ kids' = Forked(k)
      /\ orphans' = orphans \cup Fresh(k)
      /\ Become_jobs(freejob(made, made.list[1]))
      /\ UNCHANGED <<gotsigchld, jobctl, jobpc, wait>>
  BY DEF fork_fails, Fresh
<1> HIDE DEF made
<1>6. /\ made.list[1] = i
      /\ freejob(made, i) = [tab |-> Freed(tab, i), list |-> Without(<<i>> \o list, i)]
  <2>1. MadeSo(made, n, tab, list, i)
    BY <1>4, MadeIs DEF made
  <2> QED BY <2>1 DEF MadeSo
<1>7. Without(<<i>> \o list, i) = list
  BY <1>4, FirstGoes
<1>8. jobtab' = Freed(tab, i) /\ joblist' = list
  BY <1>5, <1>6, <1>7 DEF Become_jobs
<1> DEFINE tab2 == Freed(tab, i)
<1>9. /\ tab2 \in Seq(JobType) /\ UsedIn(tab2) = UsedIn(tab)
      /\ \A l \in UsedIn(tab2) : tab2[l] = tab[l]
  <2>1. /\ tab2 \in Seq(JobType) /\ UsedIn(tab2) = UsedIn(tab) \ {i}
        /\ \A l \in UsedIn(tab2) : tab2[l] = tab[l]
    BY <1>4, FreedIs
  <2> QED BY <1>4, <2>1
<1> HIDE DEF tab2
<1>10. JobsHold(tab2, list, kids, orphans)
  BY <1>4, <1>9, SubTableHolds
<1>11. JobsHold(tab2, list, Forked(k), orphans \cup Fresh(k))
  BY <1>1, <1>2, <1>5, <1>10, ForksHold
<1>12. JobsHold(jobtab', joblist', kids', orphans')
  BY <1>5, <1>8, <1>11 DEF tab2
<1>13. KidsRight(kids')
  BY <1>1, <1>2, <1>5, ForkedIs
<1>14. WaitRight(jobtab', jobpc', wait')
  BY <1>2, <1>5, IdleRight
<1> QED BY <1>2, <1>5, <1>12, <1>13, <1>14 DEF JobsInv

-----------------------------------------------------------------------------
(* All jobs of a list are given up, or shown, one after the other.         *)

FreedAll(js, list) == FoldLeft(freejob, js, list)

ShownAll(js, list) == FoldLeft(showjob, js, list)

JobTurn(op, js, p) == IF op = "free" THEN freejob(js, p) ELSE showjob(js, p)

\* What folding over the jobs at the places t has made of s, if f has what
\* folding over fewer has.
JobTurned(f, op, s, seq, t) ==
  IF t = {} THEN s ELSE JobTurn(op, f[t \ {Largest(t)}], seq[Largest(t)])

JobFoldAt(f, op, s, seq, n) == f = [t \in SUBSET (1..n) |-> JobTurned(f, op, s, seq, t)]

LEMMA JobTurnedExists ==
  ASSUME NEW op, NEW s, NEW seq, NEW n \in Nat
  PROVE  \E f : JobFoldAt(f, op, s, seq, n)
<1> DEFINE all == SUBSET (1..n)
           Upto(k) == \E f : \A t \in all : Cardinality(t) < k => f[t] = JobTurned(f, op, s, seq, t)
           Reached == {k \in Nat : Upto(k)}
<1>2. ASSUME NEW t \in all PROVE Cardinality(t) \in Nat /\ Cardinality(t) <= n
  <2>1. t \in SUBSET (1..n)
    OBVIOUS
  <2>2. Cardinality(t) \in 0..n
    BY <2>1, SmallerPlaces
  <2> QED BY <2>2
<1>3. 0 \in Reached
  <2>1. \A t \in all : ~(Cardinality(t) < 0)
    BY <1>2
  <2> QED BY <2>1
<1>4. ASSUME NEW k \in Reached PROVE k + 1 \in Reached
  <2>1. PICK f : \A t \in all : Cardinality(t) < k => f[t] = JobTurned(f, op, s, seq, t)
    OBVIOUS
  <2> DEFINE h == [t \in all |-> JobTurned(f, op, s, seq, t)]
  <2>2. ASSUME NEW t \in all, Cardinality(t) < k + 1
        PROVE  h[t] = JobTurned(h, op, s, seq, t)
    <3>1. CASE t = {}
      BY <3>1 DEF JobTurned
    <3>2. CASE t # {}
      <4> DEFINE i == Largest(t)
                 r == t \ {i}
      <4>0. t \in SUBSET (1..n)
        OBVIOUS
      <4>1. r \in all /\ Cardinality(r) = Cardinality(t) - 1 /\ Cardinality(t) \in Nat
        BY <1>2, <3>2, <4>0, SmallerPlaces
      <4>2. Cardinality(r) < k
        BY <2>2, <4>1
      <4>3. h[r] = f[r]
        BY <2>1, <4>1, <4>2
      <4>4. h[t] = JobTurn(op, f[r], seq[i])
        BY <3>2 DEF JobTurned
      <4> HIDE DEF h
      <4> QED BY <3>2, <4>3, <4>4 DEF JobTurned
    <3> QED BY <3>1, <3>2
  <2> HIDE DEF h
  <2>3. Upto(k + 1)
    BY <2>2
  <2> QED BY <2>3
<1>6. Upto(n + 1)
  <2>1. Reached = Nat
    <3>1. Reached \in SUBSET Nat
      OBVIOUS
    <3> HIDE DEF Reached
    <3> QED BY <1>3, <1>4, <3>1, AllNaturals
  <2>2. n + 1 \in Reached
    <3> HIDE DEF Reached
    <3> QED BY <2>1
  <2> QED BY <2>2
<1>7. PICK f : \A t \in all : Cardinality(t) < n + 1 => f[t] = JobTurned(f, op, s, seq, t)
  BY <1>6
<1> DEFINE h == [t \in all |-> f[t]]
<1>8. ASSUME NEW t \in all PROVE h[t] = JobTurned(h, op, s, seq, t)
  <2>1. Cardinality(t) < n + 1
    BY <1>2
  <2>2. h[t] = JobTurned(f, op, s, seq, t)
    BY <1>7, <2>1
  <2>3. CASE t = {}
    BY <2>2, <2>3 DEF JobTurned
  <2>4. CASE t # {}
    <3> DEFINE r == t \ {Largest(t)}
    <3>1. h[r] = f[r]
      OBVIOUS
    <3> HIDE DEF h
    <3> QED BY <2>2, <2>4, <3>1 DEF JobTurned
  <2> QED BY <2>3, <2>4
<1>9. h = [t \in all |-> h[t]]
  OBVIOUS
<1> HIDE DEF h
<1>10. h = [t \in all |-> JobTurned(h, op, s, seq, t)]
  BY <1>8, <1>9
<1> QED BY <1>10 DEF JobFoldAt

\* The same from one place to the next: g has the jobs after k of the n places.
JobSteps(g, op, s, seq, n, last) ==
  /\ g[0] = s /\ g[n] = last
  /\ \A k \in 1..n : g[k] = JobTurn(op, g[k - 1], seq[k])

LEMMA JobByJob ==
  ASSUME NEW op, NEW s, NEW seq, NEW n \in Nat,
         NEW f, JobFoldAt(f, op, s, seq, n)
  PROVE  \E g : JobSteps(g, op, s, seq, n, f[1..n])
<1> DEFINE F(t) == JobTurned(f, op, s, seq, t)
<1>1. \A t \in SUBSET (1..n) : f[t] = F(t)
  <2>1. f = [t \in SUBSET (1..n) |-> F(t)]
    BY DEF JobFoldAt
  <2> HIDE DEF F
  <2> QED BY <2>1
<1> DEFINE g == [k \in 0..n |-> f[1..k]]
<1>2. g[0] = s
  <2>1. 1..0 = {} /\ {} \in SUBSET (1..n)
    OBVIOUS
  <2>2. g[0] = f[{}]
    BY <2>1
  <2>3. f[{}] = F({})
    BY <1>1, <2>1
  <2> HIDE DEF g
  <2> QED BY <2>2, <2>3 DEF JobTurned
<1>3. ASSUME NEW k \in 1..n PROVE g[k] = JobTurn(op, g[k - 1], seq[k])
  <2> DEFINE t == 1..k
  <2>1. t \in SUBSET (1..n) /\ t # {} /\ k \in t
    OBVIOUS
  <2>2. Largest(t) = k
    <3>1. Largest(t) \in t /\ Largest(t) >= k
      BY <2>1, SmallerPlaces
    <3> QED BY <3>1
  <2>3. t \ {k} = 1..(k - 1)
    OBVIOUS
  <2>4. f[t] = JobTurn(op, f[1..(k - 1)], seq[k])
    <3>1. f[t] = F(t)
      BY <1>1, <2>1
    <3> HIDE DEF t
    <3> QED BY <2>1, <2>2, <2>3, <3>1 DEF JobTurned
  <2>5. g[k] = f[t] /\ g[k - 1] = f[1..(k - 1)]
    OBVIOUS
  <2> QED BY <2>4, <2>5
<1>4. g[n] = f[1..n]
  OBVIOUS
<1> HIDE DEF g
<1> QED BY <1>2, <1>3, <1>4 DEF JobSteps

\* g has the jobs after each that is given up, or shown.
FreesBy(g, js, list) ==
  /\ g[0] = js /\ g[Len(list)] = FreedAll(js, list)
  /\ \A k \in 1..Len(list) : g[k] = freejob(g[k - 1], list[k])

ShowsBy(g, js, list) ==
  /\ g[0] = js /\ g[Len(list)] = ShownAll(js, list)
  /\ \A k \in 1..Len(list) : g[k] = showjob(g[k - 1], list[k])

LEMMA FreedAllSteps ==
  ASSUME NEW js, NEW S, NEW list \in Seq(S)
  PROVE  \E g : FreesBy(g, js, list)
<1> DEFINE n == Len(list)
           D == DOMAIN list
           G(h) == [t \in SUBSET D |->
                     IF t = {} THEN js
                     ELSE freejob(h[t \ {CHOOSE x \in t : \A y \in t : x >= y}],
                                  list[CHOOSE x \in t : \A y \in t : x >= y])]
           f == CHOOSE h : h = G(h)
<1>1. n \in Nat /\ D = 1..n
  OBVIOUS
<1>2. \A h : JobFoldAt(h, "free", js, list, n) <=> h = G(h)
  BY <1>1 DEF JobFoldAt, JobTurned, JobTurn, Largest
<1>3. FreedAll(js, list) = f[D]
  BY DEF FreedAll, FoldLeft, MapThenFoldSet, Max
<1> HIDE DEF G
<1>4. \E h : h = G(h)
  BY <1>1, <1>2, JobTurnedExists
<1>5. f = G(f)
  BY <1>4
<1> HIDE DEF f
<1> HIDE DEF n, D
<1>6. JobFoldAt(f, "free", js, list, n)
  BY <1>2, <1>5
<1>7. PICK g : JobSteps(g, "free", js, list, n, f[1..n])
  BY <1>1, <1>6, JobByJob
<1>8. \A k \in 1..n : g[k] = freejob(g[k - 1], list[k])
  BY <1>7 DEF JobSteps, JobTurn
<1>9. g[0] = js /\ g[n] = f[1..n]
  BY <1>7 DEF JobSteps
<1> QED BY <1>1, <1>3, <1>8, <1>9 DEF n, FreesBy

LEMMA ShownAllSteps ==
  ASSUME NEW js, NEW S, NEW list \in Seq(S)
  PROVE  \E g : ShowsBy(g, js, list)
<1> DEFINE n == Len(list)
           D == DOMAIN list
           G(h) == [t \in SUBSET D |->
                     IF t = {} THEN js
                     ELSE showjob(h[t \ {CHOOSE x \in t : \A y \in t : x >= y}],
                                  list[CHOOSE x \in t : \A y \in t : x >= y])]
           f == CHOOSE h : h = G(h)
<1>1. n \in Nat /\ D = 1..n
  OBVIOUS
<1>2. \A h : JobFoldAt(h, "show", js, list, n) <=> h = G(h)
  BY <1>1 DEF JobFoldAt, JobTurned, JobTurn, Largest
<1>3. ShownAll(js, list) = f[D]
  BY DEF ShownAll, FoldLeft, MapThenFoldSet, Max
<1> HIDE DEF G
<1>4. \E h : h = G(h)
  BY <1>1, <1>2, JobTurnedExists
<1>5. f = G(f)
  BY <1>4
<1> HIDE DEF f
<1> HIDE DEF n, D
<1>6. JobFoldAt(f, "show", js, list, n)
  BY <1>2, <1>5
<1>7. PICK g : JobSteps(g, "show", js, list, n, f[1..n])
  BY <1>1, <1>6, JobByJob
<1>8. \A k \in 1..n : g[k] = showjob(g[k - 1], list[k])
  BY <1>7 DEF JobSteps, JobTurn
<1>9. g[0] = js /\ g[n] = f[1..n]
  BY <1>7 DEF JobSteps
<1> QED BY <1>1, <1>3, <1>8, <1>9 DEF n, ShowsBy

\* Among the first n + 1 numbers what holds of 0 and of each next one holds.
LEMMA Upto ==
  ASSUME NEW n \in Nat, NEW A, 0 \in A, \A k \in 1..n : k - 1 \in A => k \in A
  PROVE  \A k \in 0..n : k \in A
<1> DEFINE B == {k \in Nat : k > n \/ k \in A}
<1>1. B \in SUBSET Nat /\ 0 \in B
  OBVIOUS
<1>2. ASSUME NEW k \in B PROVE k + 1 \in B
  <2>1. k \in Nat /\ (k > n \/ k \in A)
    OBVIOUS
  <2>2. CASE k + 1 > n
    BY <2>1, <2>2
  <2>3. CASE k + 1 <= n
    <3>1. k + 1 \in 1..n /\ (k + 1) - 1 = k /\ k \in A
      BY <2>1, <2>3
    <3>2. k + 1 \in A
      BY <3>1
    <3> QED BY <2>1, <3>2
  <2> QED BY <2>1, <2>2, <2>3
<1> HIDE DEF B
<1>3. B = Nat
  BY <1>1, <1>2, AllNaturals
<1> QED BY <1>3 DEF B

\* The stages of giving all up: what is left is in use.
FreeStage(g, list, k) ==
  \E tab, left : /\ g[k] = [tab |-> tab, list |-> left]
                 /\ tab \in Seq(JobType) /\ Lists(left, UsedIn(tab))
                 /\ UsedIn(tab) = {list[m] : m \in (k + 1)..Len(list)}

LEMMA FreedAllIs ==
  ASSUME NEW tab \in Seq(JobType), NEW list, Lists(list, UsedIn(tab))
  PROVE  \E tab2 : /\ FreedAll([tab |-> tab, list |-> list], list) = [tab |-> tab2, list |-> <<>>]
                   /\ tab2 \in Seq(JobType) /\ UsedIn(tab2) = {}
<1> DEFINE n == Len(list)
           js == [tab |-> tab, list |-> list]
<1>1. /\ list \in Seq(UsedIn(tab)) /\ n \in Nat
      /\ \A k, l \in 1..n : list[k] = list[l] => k = l
      /\ \A i \in UsedIn(tab) : \E k \in 1..n : list[k] = i
      /\ \A k \in 1..n : list[k] \in UsedIn(tab)
  BY DEF Lists
<1>2. PICK g : FreesBy(g, js, list)
  BY <1>1, FreedAllSteps
<1>3. g[0] = js /\ g[n] = FreedAll(js, list)
      /\ \A k \in 1..n : g[k] = freejob(g[k - 1], list[k])
  BY <1>2 DEF FreesBy
<1> DEFINE A == {k \in 0..n : FreeStage(g, list, k)}
<1>4. 0 \in A
  <2>1. UsedIn(tab) = {list[m] : m \in (0 + 1)..Len(list)}
    BY <1>1
  <2>2. FreeStage(g, list, 0)
    BY <1>3, <2>1 DEF FreeStage
  <2> QED BY <1>1, <2>2
<1>5. ASSUME NEW k \in 1..n, k - 1 \in A PROVE k \in A
  <2>1. FreeStage(g, list, k - 1)
    BY <1>5
  <2>2. PICK t : \E left : /\ g[k - 1] = [tab |-> t, list |-> left]
                           /\ t \in Seq(JobType) /\ Lists(left, UsedIn(t))
                           /\ UsedIn(t) = {list[m] : m \in (k - 1 + 1)..Len(list)}
    BY <2>1 DEF FreeStage
  <2>3. PICK left : /\ g[k - 1] = [tab |-> t, list |-> left]
                    /\ t \in Seq(JobType) /\ Lists(left, UsedIn(t))
                    /\ UsedIn(t) = {list[m] : m \in (k - 1 + 1)..Len(list)}
    BY <2>2
  <2> DEFINE p == list[k]
  <2>4. p \in UsedIn(t)
    <3>1. k \in (k - 1 + 1)..Len(list)
      BY <1>1
    <3> QED BY <2>3, <3>1
  <2> HIDE DEF p
  <2>5. p \in 1..Len(t)
    BY <2>4 DEF UsedIn
  <2>6. g[k] = [tab |-> Freed(t, p), list |-> Without(left, p)]
    <3>1. g[k] = freejob(g[k - 1], p)
      BY <1>3 DEF p
    <3> QED BY <2>3, <3>1, freejobIs
  <2>7. Freed(t, p) \in Seq(JobType) /\ UsedIn(Freed(t, p)) = UsedIn(t) \ {p}
    BY <2>3, <2>5, FreedIs
  <2>8. Lists(Without(left, p), UsedIn(t) \ {p})
    BY <2>3, <2>4, WithoutLists
  <2>9. UsedIn(t) \ {p} = {list[m] : m \in (k + 1)..Len(list)}
    <3>1. k \in Nat /\ k >= 1 /\ k - 1 + 1 = k
      OBVIOUS
    <3>2. \A m \in k..n : m \in (k + 1)..n <=> m # k
      BY <1>1, <3>1
    <3>3. \A m \in k..n : m # k <=> list[m] # p
      BY <1>1, <3>1 DEF p
    <3>4. (k + 1)..n \subseteq k..n
      BY <1>1, <3>1
    <3>5. UsedIn(t) = {list[m] : m \in k..n}
      BY <2>3, <3>1
    <3> QED BY <3>2, <3>3, <3>4, <3>5
  <2>10. FreeStage(g, list, k)
    <3> DEFINE t2 == Freed(t, p)
               left2 == Without(left, p)
    <3> HIDE DEF t2, left2
    <3>1. /\ g[k] = [tab |-> t2, list |-> left2]
          /\ t2 \in Seq(JobType) /\ Lists(left2, UsedIn(t2))
          /\ UsedIn(t2) = {list[m] : m \in (k + 1)..Len(list)}
      BY <2>6, <2>7, <2>8, <2>9 DEF t2, left2
    <3> QED BY <3>1 DEF FreeStage
  <2> QED BY <2>10
<1> HIDE DEF A
<1>6. n \in A
  <2>1. \A k \in 1..n : k - 1 \in A => k \in A
    BY <1>5
  <2>2. \A k \in 0..n : k \in A
    BY <1>1, <1>4, <2>1, Upto
  <2> QED BY <1>1, <2>2
<1>7. FreeStage(g, list, n)
  BY <1>6 DEF A
<1>8. PICK t : \E left : /\ g[n] = [tab |-> t, list |-> left]
                         /\ t \in Seq(JobType) /\ Lists(left, UsedIn(t))
                         /\ UsedIn(t) = {list[m] : m \in (n + 1)..Len(list)}
  BY <1>7 DEF FreeStage
<1>9. UsedIn(t) = {}
  BY <1>1, <1>8
<1>10. PICK left : g[n] = [tab |-> t, list |-> left] /\ Lists(left, UsedIn(t))
  BY <1>8
<1>11. left = <<>>
  BY <1>9, <1>10 DEF Lists
<1> QED BY <1>3, <1>8, <1>9, <1>10, <1>11

-----------------------------------------------------------------------------
ShowStage(g, list, kid, orph, k) ==
  \E tab, left : /\ g[k] = [tab |-> tab, list |-> left]
                 /\ JobsHold(tab, left, kid, orph)
                 /\ \A m \in (k + 1)..Len(list) : list[m] \in UsedIn(tab)

LEMMA showjobHolds ==
  ASSUME NEW tab, NEW list, NEW kid, NEW orph, JobsHold(tab, list, kid, orph),
         NEW p \in UsedIn(tab)
  PROVE  \E tab2, list2 : /\ showjob([tab |-> tab, list |-> list], p)
                               = [tab |-> tab2, list |-> list2]
                          /\ JobsHold(tab2, list2, kid, orph)
                          /\ UsedIn(tab) \ {p} \subseteq UsedIn(tab2)
<1> DEFINE js == [tab |-> tab, list |-> list]
<1>1. showjob(js, p) = IF tab[p].state = "done" THEN freejob(js, p) ELSE js
  BY DEF showjob
<1>2. CASE tab[p].state = "done"
  <2> DEFINE tab2 == Freed(tab, p)
             list2 == Without(list, p)
  <2>1. freejob(js, p) = [tab |-> tab2, list |-> list2]
    BY freejobIs
  <2>2. JobsHold(tab2, list2, kid, orph)
    BY <1>2, FreeHolds
  <2>3. UsedIn(tab2) = UsedIn(tab) \ {p}
    <3>1. tab \in Seq(JobType) /\ p \in 1..Len(tab)
      BY DEF JobsHold, UsedIn
    <3> QED BY <3>1, FreedIs
  <2> HIDE DEF tab2, list2
  <2>4. showjob(js, p) = [tab |-> tab2, list |-> list2]
    BY <1>1, <1>2, <2>1
  <2>5. UsedIn(tab) \ {p} \subseteq UsedIn(tab2)
    BY <2>3
  <2> QED BY <2>2, <2>4, <2>5
<1>3. CASE tab[p].state # "done"
  BY <1>1, <1>3
<1> QED BY <1>2, <1>3

LEMMA ShownAllIs ==
  ASSUME NEW tab, NEW list, NEW kid, NEW orph, JobsHold(tab, list, kid, orph)
  PROVE  \E tab2, list2 : /\ ShownAll([tab |-> tab, list |-> list], list)
                               = [tab |-> tab2, list |-> list2]
                          /\ JobsHold(tab2, list2, kid, orph)
<1> DEFINE n == Len(list)
           js == [tab |-> tab, list |-> list]
<1>1. /\ list \in Seq(UsedIn(tab)) /\ n \in Nat
      /\ \A k, l \in 1..n : list[k] = list[l] => k = l
      /\ \A k \in 1..n : list[k] \in UsedIn(tab)
  BY DEF JobsHold, Lists
<1>2. PICK g : ShowsBy(g, js, list)
  BY <1>1, ShownAllSteps
<1>3. g[0] = js /\ g[n] = ShownAll(js, list)
      /\ \A k \in 1..n : g[k] = showjob(g[k - 1], list[k])
  BY <1>2 DEF ShowsBy
<1> DEFINE A == {k \in 0..n : ShowStage(g, list, kid, orph, k)}
<1>4. 0 \in A
  <2>1. ShowStage(g, list, kid, orph, 0)
    BY <1>1, <1>3 DEF ShowStage
  <2> QED BY <1>1, <2>1
<1>5. ASSUME NEW k \in 1..n, k - 1 \in A PROVE k \in A
  <2>1. ShowStage(g, list, kid, orph, k - 1)
    BY <1>5
  <2>2. PICK t : \E left : /\ g[k - 1] = [tab |-> t, list |-> left]
                           /\ JobsHold(t, left, kid, orph)
                           /\ \A m \in (k - 1 + 1)..Len(list) : list[m] \in UsedIn(t)
    BY <2>1 DEF ShowStage
  <2>3. PICK left : /\ g[k - 1] = [tab |-> t, list |-> left]
                    /\ JobsHold(t, left, kid, orph)
                    /\ \A m \in (k - 1 + 1)..Len(list) : list[m] \in UsedIn(t)
    BY <2>2
  <2> DEFINE p == list[k]
  <2>4. p \in UsedIn(t)
    <3>1. k \in (k - 1 + 1)..Len(list)
      BY <1>1
    <3> QED BY <2>3, <3>1
  <2>5. PICK t2 : \E left2 : /\ showjob([tab |-> t, list |-> left], p) = [tab |-> t2, list |-> left2]
                             /\ JobsHold(t2, left2, kid, orph)
                             /\ UsedIn(t) \ {p} \subseteq UsedIn(t2)
    <3> HIDE DEF p
    <3> QED BY <2>3, <2>4, showjobHolds
  <2>6. PICK left2 : /\ showjob([tab |-> t, list |-> left], p) = [tab |-> t2, list |-> left2]
                     /\ JobsHold(t2, left2, kid, orph)
                     /\ UsedIn(t) \ {p} \subseteq UsedIn(t2)
    BY <2>5
  <2>7. g[k] = [tab |-> t2, list |-> left2]
    <3>1. g[k] = showjob(g[k - 1], p)
      BY <1>3
    <3> HIDE DEF p
    <3> QED BY <2>3, <2>6, <3>1
  <2>8. \A m \in (k + 1)..Len(list) : list[m] \in UsedIn(t2)
    <3>1. ASSUME NEW m \in (k + 1)..n PROVE list[m] \in UsedIn(t2)
      <4>1. m \in (k - 1 + 1)..n /\ m # k /\ m \in 1..n
        BY <1>1
      <4>2. list[m] # p
        BY <1>1, <4>1
      <4> QED BY <2>3, <2>6, <4>1, <4>2
    <3> QED BY <3>1
  <2>9. ShowStage(g, list, kid, orph, k)
    BY <2>6, <2>7, <2>8 DEF ShowStage
  <2> QED BY <2>9
<1> HIDE DEF A
<1>6. n \in A
  <2>1. \A k \in 1..n : k - 1 \in A => k \in A
    BY <1>5
  <2>2. \A k \in 0..n : k \in A
    BY <1>1, <1>4, <2>1, Upto
  <2> QED BY <1>1, <2>2
<1>7. ShowStage(g, list, kid, orph, n)
  BY <1>6 DEF A
<1>8. PICK t : \E left : g[n] = [tab |-> t, list |-> left] /\ JobsHold(t, left, kid, orph)
  BY <1>7 DEF ShowStage
<1>9. PICK left : g[n] = [tab |-> t, list |-> left] /\ JobsHold(t, left, kid, orph)
  BY <1>8
<1> QED BY <1>3, <1>9

\* In the child of a fork nothing is left.
LEMMA EmptyHolds ==
  ASSUME NEW tab \in Seq(JobType), UsedIn(tab) = {},
         NEW kid, NEW orph, \A p \in Pids : ~ChildOf(kid, p)
  PROVE  JobsHold(tab, <<>>, kid, orph)
<1>1. Lists(<<>>, UsedIn(tab))
  BY DEF Lists
<1> QED BY <1>1 DEF JobsHold, TableRight, PidsApart, ProcessesThere, ChildrenIn

LEMMA forkchildKeeps ==
  ASSUME JobsInv, forkchild
  PROVE  JobsInv'
<1>2. /\ JobsHold(jobtab, joblist, kids, orphans) /\ KidsRight(kids) /\ jobctl \in BOOLEAN
      /\ wait \in WaitType /\ gotsigchld \in BOOLEAN
  BY DEF JobsInv, WaitRight
<1>3. PICK tab, list, i : MakesIn(1, tab, list, i)
  BY <1>2, makejobIs
<1>4. /\ JobsHold(tab, list, kids, orphans) /\ i \in 1..Len(tab) /\ tab \in Seq(JobType)
      /\ i \notin UsedIn(tab) /\ Lists(list, UsedIn(tab)) /\ i \in Nat
      /\ makejob(1) = [tab |-> Put(tab, i, NewJob(1, i)), list |-> <<i>> \o list]
  BY <1>3 DEF MakesIn, JobsHold, UsedIn
<1> DEFINE made == makejob(1)
<1>5. /\ jobpc = "idle"
      /\ Become_jobs(FreedAll(made, made.list))
      /\ kids' = [p \in Pids |-> IF p <= NextPid THEN [st |-> "gone", news |-> FALSE] ELSE kids[p]]
      /\ jobctl' = FALSE /\ UNCHANGED <<gotsigchld, jobpc, wait>>
  BY DEF forkchild, FreedAll
<1> DEFINE tab1 == Put(tab, i, NewJob(1, i))
           list1 == <<i>> \o list
<1>6. tab1 \in Seq(JobType) /\ UsedIn(tab1) = UsedIn(tab) \cup {i}
  <2>1. NewJob(1, i) \in JobType /\ NewJob(1, i).used
    BY <1>2, <1>4, UnusedIsJob DEF NewJob, JobType
  <2> QED BY <1>4, <2>1, PutIs
<1>7. Lists(list1, UsedIn(tab) \cup {i})
  BY <1>4, FirstLists
<1> HIDE DEF tab1, list1, made
<1>8. made = [tab |-> tab1, list |-> list1]
  BY <1>4 DEF made, tab1, list1
<1>9. PICK tab2 : /\ FreedAll([tab |-> tab1, list |-> list1], list1) = [tab |-> tab2, list |-> <<>>]
                  /\ tab2 \in Seq(JobType) /\ UsedIn(tab2) = {}
  BY <1>6, <1>7, FreedAllIs
<1>10. jobtab' = tab2 /\ joblist' = <<>>
  BY <1>5, <1>8, <1>9 DEF Become_jobs
<1> DEFINE gone == [st |-> "gone", news |-> FALSE]
<1>11. gone \in KidType /\ gone.st = "gone" /\ ~gone.news
  BY DEF KidType
<1> HIDE DEF gone
<1>12. /\ NextPid \in Nat \ {0} /\ \A p \in Pids : kids[p].st # "none" <=> p < NextPid
  BY <1>2, NextPidIs
<1>13. PICK N \in Nat : Pids = 1..N
  BY PidsAre
<1>14. kids \in [Pids -> KidType]
  BY <1>2 DEF KidsRight
<1>15. kids' = [p \in Pids |-> IF p <= NextPid THEN gone ELSE kids[p]]
  BY <1>5 DEF gone
<1>16. \A p \in Pids : /\ p <= NextPid => kids'[p] = gone
                       /\ ~(p <= NextPid) => kids'[p] = kids[p] /\ kids[p].st = "none"
  BY <1>12, <1>13, <1>15
<1>17. \A p \in Pids : ~ChildOf(kids', p)
  BY <1>11, <1>16 DEF ChildOf
<1>18. KidsRight(kids')
  <2>1. kids' \in [Pids -> KidType]
    BY <1>11, <1>14, <1>15
  <2>2. \A p \in Pids : kids'[p].news => kids'[p].st \in {"stop", "end"}
    BY <1>2, <1>11, <1>16 DEF KidsRight
  <2>3. \E c \in Nat : {p \in Pids : kids'[p].st # "none"} = 1..c
    <3>1. \A p \in Pids : kids'[p].st # "none" <=> p <= NextPid
      BY <1>11, <1>16
    <3>2. CASE NextPid <= N
      <4>1. {p \in Pids : kids'[p].st # "none"} = 1..NextPid
        BY <1>12, <1>13, <3>1, <3>2
      <4> QED BY <1>12, <4>1
    <3>3. CASE ~(NextPid <= N)
      <4>1. {p \in Pids : kids'[p].st # "none"} = 1..N
        BY <1>12, <1>13, <3>1, <3>3
      <4> QED BY <1>13, <4>1
    <3> QED BY <3>2, <3>3
  <2> QED BY <2>1, <2>2, <2>3 DEF KidsRight
<1>19. JobsHold(tab2, <<>>, kids', orphans')
  BY <1>9, <1>17, EmptyHolds
<1>20. JobsHold(jobtab', joblist', kids', orphans')
  BY <1>10, <1>19
<1>21. WaitRight(jobtab', jobpc', wait')
  BY <1>2, <1>5, IdleRight
<1> QED BY <1>2, <1>5, <1>18, <1>20, <1>21 DEF JobsInv

-----------------------------------------------------------------------------
(* A job changes and keeps its processes.                                  *)

SamePids(j, l) ==
  Len(j.ps) = Len(l.ps) /\ \A q \in 1..Len(l.ps) : j.ps[q].pid = l.ps[q].pid

LEMMA UpdateHolds ==
  ASSUME NEW tab, NEW list, NEW kid, NEW orph, JobsHold(tab, list, kid, orph),
         NEW p \in UsedIn(tab), NEW j \in JobType, j.used, JobRight(j, p), SamePids(j, tab[p]),
         NEW kid2, JobThere(j, kid2), \A i \in UsedIn(tab) \ {p} : JobThere(tab[i], kid2),
         NEW list2, Lists(list2, UsedIn(tab)),
         \A c \in Pids : ChildOf(kid2, c) =>
           ChildOf(kid, c) /\ (Holds(tab[p], c) => Holds(j, c))
  PROVE  JobsHold(Put(tab, p, j), list2, kid2, orph) /\ UsedIn(Put(tab, p, j)) = UsedIn(tab)
<1>1. tab \in Seq(JobType) /\ PidsApart(tab) /\ ChildrenIn(tab, kid, orph)
  BY DEF JobsHold
<1>2. p \in 1..Len(tab) /\ UsedIn(tab) \cup {p} = UsedIn(tab)
  BY DEF UsedIn
<1>3. PidsOnce(j)
  <2>1. PidsOnce(tab[p])
    BY <1>1 DEF PidsApart
  <2> QED BY <2>1 DEF PidsOnce, SamePids
<1>4. ASSUME NEW i \in UsedIn(tab) \ {p} PROVE JobThere(tab[i], kid2) /\ PidsDiffer(tab[i], j)
  <2>1. PidsDiffer(tab[i], tab[p])
    BY <1>1 DEF PidsApart
  <2>2. PidsDiffer(tab[i], j)
    BY <2>1 DEF PidsDiffer, SamePids
  <2> QED BY <2>2
<1>5. ASSUME NEW c \in Pids, ChildOf(kid2, c)
      PROVE  c \in orph \/ Holds(j, c) \/ \E i \in UsedIn(tab) \ {p} : Holds(tab[i], c)
  <2>1. c \in orph \/ InJob(tab, c)
    BY <1>1, <1>5 DEF ChildrenIn
  <2>2. CASE InJob(tab, c)
    <3>1. PICK i \in UsedIn(tab) : Holds(tab[i], c)
      BY <2>2 DEF InJob
    <3>2. CASE i = p
      BY <1>5, <3>1, <3>2
    <3>3. CASE i # p
      BY <3>1, <3>3
    <3> QED BY <3>2, <3>3
  <2> QED BY <2>1, <2>2
<1>6. Lists(list2, UsedIn(tab) \cup {p})
  BY <1>2
<1>7. JobsHold(Put(tab, p, j), list2, kid2, orph)
  BY <1>2, <1>3, <1>4, <1>5, <1>6, PutHolds
<1>8. UsedIn(Put(tab, p, j)) = UsedIn(tab)
  <2>1. UsedIn(Put(tab, p, j)) = UsedIn(tab) \cup {p}
    BY <1>1, <1>2, PutIs
  <2> QED BY <1>2, <2>1
<1> QED BY <1>7, <1>8

\* The facts about one job that holds.
LEMMA JobHolds ==
  ASSUME NEW tab, NEW list, NEW kid, NEW orph, JobsHold(tab, list, kid, orph),
         NEW i \in UsedIn(tab)
  PROVE  /\ tab \in Seq(JobType) /\ i \in 1..Len(tab) /\ tab[i] \in JobType /\ tab[i].used
         /\ JobRight(tab[i], i) /\ JobThere(tab[i], kid)
         /\ tab[i].ps \in Seq(PsType)
         /\ \A q \in 1..Len(tab[i].ps) : tab[i].ps[q] \in PsType
BY JobTyped DEF JobsHold, UsedIn, TableRight, ProcessesThere

Adrift(j) == [j EXCEPT !.state = "running", !.adrift = TRUE]

LEMMA fgcmd_failsKeeps ==
  ASSUME JobsInv, NEW i \in DOMAIN jobtab, fgcmd_fails(i)
  PROVE  JobsInv'
<1>1. /\ JobsHold(jobtab, joblist, kids, orphans) /\ KidsRight(kids) /\ jobctl \in BOOLEAN
      /\ wait \in WaitType /\ gotsigchld \in BOOLEAN
  BY DEF JobsInv, WaitRight
<1>2. jobtab \in Seq(JobType) /\ i \in UsedIn(jobtab)
  BY <1>1 DEF JobsHold, fgcmd_fails, UsedIn
<1> DEFINE j == Adrift(jobtab[i])
<1>3. /\ jobtab' = Put(jobtab, i, j)
      /\ jobpc = "idle" /\ jobtab[i].state # "done"
      /\ UNCHANGED <<joblist, kids, orphans, gotsigchld, jobctl, jobpc, wait>>
  <2>1. jobtab' = [jobtab EXCEPT ![i].state = "running", ![i].adrift = TRUE]
    BY DEF fgcmd_fails
  <2>2. [jobtab EXCEPT ![i].state = "running", ![i].adrift = TRUE] = Put(jobtab, i, j)
    BY <1>2 DEF Put, Adrift
  <2> QED BY <2>1, <2>2 DEF fgcmd_fails
<1>4. /\ jobtab[i] \in JobType /\ jobtab[i].used
      /\ JobRight(jobtab[i], i) /\ JobThere(jobtab[i], kids)
  BY <1>1, <1>2, JobHolds
<1>5. /\ j \in JobType /\ j.used /\ j.state = "running" /\ j.adrift
      /\ j.ps = jobtab[i].ps /\ j.psat = jobtab[i].psat
  BY <1>4 DEF JobType, Adrift
<1> HIDE DEF j
<1>6. JobRight(j, i)
  BY <1>3, <1>4, <1>5 DEF JobRight, HasStatus
<1>7. SamePids(j, jobtab[i]) /\ JobThere(j, kids)
  BY <1>4, <1>5 DEF SamePids, JobThere
<1>8. \A l \in UsedIn(jobtab) \ {i} : JobThere(jobtab[l], kids)
  BY <1>1 DEF JobsHold, ProcessesThere
<1>9. \A c \in Pids : Holds(jobtab[i], c) => Holds(j, c)
  BY <1>5 DEF Holds
<1>10. Lists(joblist, UsedIn(jobtab))
  BY <1>1 DEF JobsHold
<1>11. JobsHold(Put(jobtab, i, j), joblist, kids, orphans)
  BY <1>1, <1>2, <1>5, <1>6, <1>7, <1>8, <1>9, <1>10, UpdateHolds
<1>12. JobsHold(jobtab', joblist', kids', orphans')
  BY <1>3, <1>11
<1>13. WaitRight(jobtab', jobpc', wait')
  BY <1>1, <1>3, IdleRight
<1> QED BY <1>1, <1>3, <1>12, <1>13 DEF JobsInv

-----------------------------------------------------------------------------
Continued(ps) == [k \in DOMAIN ps |-> IF ps[k].status = "stop"
                                      THEN [ps[k] EXCEPT !.status = "run"] ELSE ps[k]]

Resumed(j) == [j EXCEPT !.state = "running", !.ps = Continued(j.ps)]

LEMMA ResumedIs ==
  ASSUME NEW j \in JobType
  PROVE  /\ Resumed(j) \in JobType /\ Resumed(j).used = j.used /\ Resumed(j).state = "running"
         /\ Resumed(j).psat = j.psat /\ SamePids(Resumed(j), j)
         /\ \A q \in 1..Len(j.ps) :
              Resumed(j).ps[q].status = IF j.ps[q].status = "stop" THEN "run" ELSE j.ps[q].status
<1> DEFINE ps == j.ps
           n == Len(ps)
           now == Continued(ps)
<1>1. ps \in Seq(PsType) /\ n \in Nat /\ DOMAIN ps = 1..n
  BY DEF JobType
<1> HIDE DEF ps
<1>2. ASSUME NEW q \in 1..n
      PROVE  /\ now[q] \in PsType /\ now[q].pid = ps[q].pid
             /\ now[q].status = IF ps[q].status = "stop" THEN "run" ELSE ps[q].status
  <2>1. ps[q] \in PsType
    BY <1>1
  <2>2. now[q] = IF ps[q].status = "stop" THEN [ps[q] EXCEPT !.status = "run"] ELSE ps[q]
    BY <1>1 DEF Continued
  <2> HIDE DEF now
  <2> QED BY <2>1, <2>2 DEF PsType
<1>3. now \in Seq(PsType) /\ Len(now) = n
  <2>1. now = [k \in 1..n |-> now[k]]
    BY <1>1 DEF Continued
  <2> HIDE DEF now, n
  <2>2. n \in Nat
    BY <1>1
  <2> QED BY <1>2, <2>1, <2>2
<1> HIDE DEF now, n
<1>4. /\ Resumed(j) \in JobType /\ Resumed(j).used = j.used /\ Resumed(j).state = "running"
      /\ Resumed(j).psat = j.psat /\ Resumed(j).ps = now
  <2>1. Resumed(j) = [j EXCEPT !.state = "running", !.ps = now]
    BY DEF Resumed, now, ps
  <2> QED BY <1>3, <2>1 DEF JobType
<1> QED BY <1>2, <1>3, <1>4 DEF SamePids, n, ps

\* What fg and bg make of job i: the table, the children.
fgRest(i, background) ==
  /\ jobpc = "idle" /\ jobtab[i].used
  /\ UNCHANGED <<orphans, gotsigchld, jobctl>>
  /\ joblist' = IF background THEN Behind(Jobs, i) ELSE joblist
  /\ \/ /\ jobtab[i].state = "done" /\ jobtab' = jobtab /\ kids' = kids
     \/ /\ jobtab[i].state # "done" /\ jobtab' = Put(jobtab, i, Resumed(jobtab[i]))
        /\ kids' = [p \in Pids |->
              IF /\ p \in {jobtab[i].ps[k].pid : k \in DOMAIN jobtab[i].ps}
                 /\ kids[p].st = "stop"
              THEN [st |-> "run", news |-> FALSE] ELSE kids[p]]
  /\ \/ background /\ UNCHANGED <<jobpc, wait>>
     \/ ~background /\ dowait([tab |-> jobtab', list |-> joblist'], "block", i, "foreground")

LEMMA fgcmdIs ==
  ASSUME JobsInv, NEW i \in DOMAIN jobtab, NEW background \in BOOLEAN, fgcmd(i, background)
  PROVE  fgRest(i, background)
<1>1. jobtab \in Seq(JobType) /\ i \in 1..Len(jobtab) /\ kids \in [Pids -> KidType]
  BY DEF JobsInv, JobsHold, KidsRight
<1> DEFINE listed == IF background THEN [Jobs EXCEPT !.list = Behind(Jobs, i)] ELSE Jobs
           pids   == {jobtab[i].ps[k].pid : k \in DOMAIN jobtab[i].ps}
           js     == [listed EXCEPT
                        !.tab[i].state = "running",
                        !.tab[i].ps = [k \in DOMAIN @ |-> IF @[k].status = "stop"
                                                          THEN [@[k] EXCEPT !.status = "run"] ELSE @[k]]]
           now    == IF jobtab[i].state = "done" THEN listed ELSE js
           list2  == IF background THEN Behind(Jobs, i) ELSE joblist
           tab2   == Put(jobtab, i, Resumed(jobtab[i]))
<1>2. /\ jobpc = "idle" /\ jobtab[i].used
      /\ UNCHANGED <<orphans, gotsigchld, jobctl>>
      /\ Become_jobs(now)
      /\ kids' = [p \in Pids |->
             IF jobtab[i].state # "done" /\ p \in pids /\ kids[p].st = "stop"
             THEN [st |-> "run", news |-> FALSE] ELSE kids[p]]
      /\ IF background THEN UNCHANGED <<jobpc, wait>>
         ELSE dowait(now, "block", i, "foreground")
  BY DEF fgcmd
<1>3. listed = [tab |-> jobtab, list |-> list2]
  <2> DEFINE l == Behind(Jobs, i)
  <2> HIDE DEF l
  <2>1. [Jobs EXCEPT !.list = l] = [tab |-> jobtab, list |-> l]
    BY DEF Jobs
  <2> QED BY <2>1 DEF l, Jobs
<1> HIDE DEF list2, listed
<1>4. js = [tab |-> tab2, list |-> list2]
  <2> DEFINE ps == jobtab[i].ps
             t1 == [jobtab EXCEPT ![i].state = "running"]
             t2 == [t1 EXCEPT ![i].ps = Continued(ps)]
  <2>1. listed.tab = jobtab /\ listed.list = list2
    BY <1>3
  <2>2. t1[i].ps = ps
    <3>1. jobtab[i] \in JobType
      BY <1>1
    <3>2. t1[i] = [jobtab[i] EXCEPT !.state = "running"]
      BY <1>1
    <3> HIDE DEF t1
    <3> QED BY <3>1, <3>2 DEF JobType
  <2>3. js = [listed EXCEPT !.tab = t2]
    BY <2>1, <2>2 DEF Continued
  <2>4. t2 = tab2
    BY <1>1 DEF Put, Resumed
  <2> HIDE DEF js, t2, tab2
  <2>5. [[tab |-> jobtab, list |-> list2] EXCEPT !.tab = t2] = [tab |-> t2, list |-> list2]
    OBVIOUS
  <2> QED BY <1>3, <2>3, <2>4, <2>5
<1> HIDE DEF js
<1>5. now = IF jobtab[i].state = "done" THEN [tab |-> jobtab, list |-> list2]
            ELSE [tab |-> tab2, list |-> list2]
  BY <1>3, <1>4
<1> HIDE DEF now, tab2
<1>6. now = [tab |-> jobtab', list |-> joblist'] /\ joblist' = list2
      /\ jobtab' = IF jobtab[i].state = "done" THEN jobtab ELSE tab2
  BY <1>2, <1>5 DEF Become_jobs
<1>7. \/ background /\ UNCHANGED <<jobpc, wait>>
      \/ ~background /\ dowait([tab |-> jobtab', list |-> joblist'], "block", i, "foreground")
  BY <1>2, <1>6
<1>8. CASE jobtab[i].state = "done"
  <2>1. kids' = kids
    BY <1>1, <1>2, <1>8
  <2> QED BY <1>2, <1>6, <1>7, <1>8, <2>1 DEF fgRest, list2
<1>9. CASE jobtab[i].state # "done"
  <2>1. kids' = [p \in Pids |-> IF p \in pids /\ kids[p].st = "stop"
                                THEN [st |-> "run", news |-> FALSE] ELSE kids[p]]
    BY <1>2, <1>9
  <2> QED BY <1>2, <1>6, <1>7, <1>9, <2>1 DEF fgRest, list2, tab2
<1> QED BY <1>8, <1>9

-----------------------------------------------------------------------------
\* The list is in another order.
LEMMA ListHolds ==
  ASSUME NEW tab, NEW list, NEW kid, NEW orph, JobsHold(tab, list, kid, orph),
         NEW list2, Lists(list2, UsedIn(tab))
  PROVE  JobsHold(tab, list2, kid, orph)
BY DEF JobsHold

LEMMA ResumedRight ==
  ASSUME NEW j \in JobType, NEW i, JobRight(j, i), j.state # "done"
  PROVE  JobRight(Resumed(j), i) /\ \A c : Holds(j, c) => Holds(Resumed(j), c)
<1> DEFINE r == Resumed(j)
<1>1. /\ r.state = "running" /\ r.psat = j.psat
      /\ Len(r.ps) = Len(j.ps) /\ \A q \in 1..Len(j.ps) : r.ps[q].pid = j.ps[q].pid
      /\ \A q \in 1..Len(j.ps) :
           r.ps[q].status = IF j.ps[q].status = "stop" THEN "run" ELSE j.ps[q].status
  BY ResumedIs DEF SamePids
<1> HIDE DEF r
<1>2. HasStatus(j, "run") \/ HasStatus(j, "stop")
  BY DEF JobRight
<1>3. PICK q \in 1..Len(j.ps) : j.ps[q].status \in {"run", "stop"}
  BY <1>2 DEF HasStatus
<1>4. HasStatus(r, "run")
  <2>1. q \in 1..Len(r.ps) /\ r.ps[q].status = "run"
    BY <1>1, <1>3
  <2> QED BY <2>1 DEF HasStatus
<1>5. JobRight(r, i)
  BY <1>1, <1>4 DEF JobRight
<1>6. \A c : Holds(j, c) => Holds(r, c)
  BY <1>1 DEF Holds
<1> QED BY <1>5, <1>6 DEF r

LEMMA fgcmdKeeps ==
  ASSUME JobsInv, NEW i \in DOMAIN jobtab, NEW background \in BOOLEAN, fgcmd(i, background)
  PROVE  JobsInv'
<1>1. /\ JobsHold(jobtab, joblist, kids, orphans) /\ KidsRight(kids) /\ jobctl \in BOOLEAN
      /\ wait \in WaitType /\ gotsigchld \in BOOLEAN
      /\ Lists(joblist, UsedIn(jobtab)) /\ jobtab \in Seq(JobType)
  BY DEF JobsInv, WaitRight, JobsHold
<1>2. fgRest(i, background)
  BY fgcmdIs
<1>3. i \in UsedIn(jobtab)
  BY <1>1, <1>2 DEF fgRest, UsedIn
<1>4. Lists(joblist', UsedIn(jobtab))
  <2>1. Lists(Behind([tab |-> jobtab, list |-> joblist], i), UsedIn(jobtab))
    BY <1>1, <1>3, BehindLists
  <2> QED BY <1>1, <1>2, <2>1 DEF fgRest, Jobs
<1>5. JobsHold(jobtab, joblist', kids, orphans)
  BY <1>1, <1>4, ListHolds
<1>6. JobsHold(jobtab', joblist', kids', orphans') /\ KidsRight(kids')
      /\ UsedIn(jobtab') = UsedIn(jobtab) /\ jobtab' \in Seq(JobType)
  <2>1. CASE jobtab[i].state = "done" /\ jobtab' = jobtab /\ kids' = kids
    BY <1>1, <1>2, <1>5, <2>1 DEF fgRest
  <2>2. CASE /\ jobtab[i].state # "done" /\ jobtab' = Put(jobtab, i, Resumed(jobtab[i]))
             /\ kids' = [p \in Pids |->
                   IF /\ p \in {jobtab[i].ps[k].pid : k \in DOMAIN jobtab[i].ps}
                      /\ kids[p].st = "stop"
                   THEN [st |-> "run", news |-> FALSE] ELSE kids[p]]
    <3> DEFINE j == Resumed(jobtab[i])
               runs == [st |-> "run", news |-> FALSE]
               mine == {jobtab[i].ps[k].pid : k \in DOMAIN jobtab[i].ps}
    <3>1. /\ jobtab[i] \in JobType /\ jobtab[i].used
          /\ JobRight(jobtab[i], i) /\ JobThere(jobtab[i], kids)
      BY <1>1, <1>3, JobHolds
    <3>2. runs \in KidType /\ runs.st = "run" /\ ~runs.news
      BY DEF KidType
    <3> HIDE DEF runs, mine
    <3>3. kids' = [p \in Pids |-> IF p \in mine /\ kids[p].st = "stop" THEN runs ELSE kids[p]]
      BY <2>2 DEF runs, mine
    <3>4. kids \in [Pids -> KidType]
      BY <1>1 DEF KidsRight
    <3>5. \A p \in Pids : kids'[p] = kids[p] \/ (kids'[p] = runs /\ kids[p].st = "stop")
      BY <3>3
    <3>6. \A p \in Pids : /\ kids'[p].st = "none" <=> kids[p].st = "none"
                          /\ kids'[p].st = "gone" <=> kids[p].st = "gone"
      BY <3>2, <3>5
    <3>7. KidsRight(kids')
      <4>1. kids' \in [Pids -> KidType]
        BY <3>2, <3>3, <3>4
      <4>2. \A c \in Pids : kids'[c].news => kids'[c].st \in {"stop", "end"}
        BY <1>1, <3>2, <3>5 DEF KidsRight
      <4>3. {c \in Pids : kids'[c].st # "none"} = {c \in Pids : kids[c].st # "none"}
        BY <3>6
      <4> QED BY <1>1, <4>1, <4>2, <4>3 DEF KidsRight
    <3>8. JobsHold(jobtab, joblist, kids', orphans)
      BY <1>1, <3>6, KidsChange
    <3>9. /\ j \in JobType /\ j.used = jobtab[i].used /\ SamePids(j, jobtab[i])
          /\ \A q \in 1..Len(jobtab[i].ps) :
               j.ps[q].status = IF jobtab[i].ps[q].status = "stop" THEN "run"
                                ELSE jobtab[i].ps[q].status
      BY <3>1, ResumedIs
    <3>10. JobRight(j, i) /\ \A c : Holds(jobtab[i], c) => Holds(j, c)
      BY <2>2, <3>1, ResumedRight
    <3> HIDE DEF j
    <3>11. JobThere(j, kids')
      <4>1. JobThere(jobtab[i], kids')
        BY <1>3, <3>8 DEF JobsHold, ProcessesThere
      <4>2. Len(j.ps) = Len(jobtab[i].ps)
        BY <3>9 DEF SamePids
      <4>3. ASSUME NEW q \in 1..Len(jobtab[i].ps) PROVE ProcessThere(j.ps[q], kids')
        <5>1. j.ps[q].pid = jobtab[i].ps[q].pid
          BY <3>9 DEF SamePids
        <5>2. ProcessThere(jobtab[i].ps[q], kids')
          BY <4>1 DEF JobThere
        <5>3. j.ps[q].status # "end" => jobtab[i].ps[q].status # "end"
          BY <3>9
        <5> QED BY <5>1, <5>2, <5>3 DEF ProcessThere
      <4> QED BY <4>2, <4>3 DEF JobThere
    <3>12. \A l \in UsedIn(jobtab) \ {i} : JobThere(jobtab[l], kids')
      BY <3>8 DEF JobsHold, ProcessesThere
    <3>13. JobsHold(Put(jobtab, i, j), joblist', kids', orphans)
            /\ UsedIn(Put(jobtab, i, j)) = UsedIn(jobtab)
      <4>1. j.used /\ j \in JobType /\ SamePids(j, jobtab[i])
        BY <3>1, <3>9
      <4>2. \A c \in Pids : ChildOf(kids', c) =>
              ChildOf(kids', c) /\ (Holds(jobtab[i], c) => Holds(j, c))
        BY <3>10
      <4> QED BY <1>3, <1>4, <3>8, <3>10, <3>11, <3>12, <4>1, <4>2, UpdateHolds
    <3>14. jobtab' = Put(jobtab, i, j) /\ orphans' = orphans
      BY <1>2, <2>2 DEF fgRest, j
    <3>15. JobsHold(jobtab', joblist', kids', orphans') /\ UsedIn(jobtab') = UsedIn(jobtab)
      BY <3>13, <3>14
    <3>16. jobtab' \in Seq(JobType)
      BY <3>13, <3>14 DEF JobsHold
    <3> QED BY <3>7, <3>15, <3>16
  <2> QED BY <1>2, <2>1, <2>2 DEF fgRest
<1>7. WaitRight(jobtab', jobpc', wait') /\ jobpc' \in PCs
  <2>1. CASE UNCHANGED <<jobpc, wait>>
    BY <1>1, <1>2, <2>1, IdleRight DEF fgRest, PCs
  <2>2. CASE dowait([tab |-> jobtab', list |-> joblist'], "block", i, "foreground")
    <3> DEFINE js == [tab |-> jobtab', list |-> joblist']
    <3>1. js.tab = jobtab'
      OBVIOUS
    <3>2. UsedIn(jobtab') \subseteq Nat \ {0} /\ i \in UsedIn(jobtab')
      BY <1>3, <1>6 DEF UsedIn
    <3>3. dowait(js, "block", i, "foreground")
      BY <2>2
    <3> HIDE DEF js
    <3>4. WaitRight(js.tab, jobpc', wait') /\ jobpc' \in PCs
      BY <3>1, <3>2, <3>3, dowaitRight
    <3> QED BY <3>1, <3>4
  <2> QED BY <1>2, <2>1, <2>2 DEF fgRest
<1> QED BY <1>1, <1>2, <1>6, <1>7 DEF JobsInv, fgRest, PCs

-----------------------------------------------------------------------------
(* A child is reported.                                                    *)

HasPid(j, pid) == \E q \in 1..Len(j.ps) : j.ps[q].pid = pid

NotedPs(ps, pid, status) ==
  [q \in DOMAIN ps |-> IF ps[q].pid = pid THEN [pid |-> pid, status |-> status] ELSE ps[q]]

NotedJob(j, pid, status) ==
  IF StateOf(NotedPs(j.ps, pid, status)) = "running"
  THEN [j EXCEPT !.ps = NotedPs(j.ps, pid, status)]
  ELSE [j EXCEPT !.ps = NotedPs(j.ps, pid, status),
                 !.state = StateOf(NotedPs(j.ps, pid, status))]

\* One process of j has another status.
NotedSo(j, out, pid, status) ==
  /\ out \in JobType /\ (out.used <=> j.used) /\ out.psat = j.psat /\ (out.adrift <=> j.adrift)
  /\ SamePids(out, j)
  /\ \A q \in 1..Len(j.ps) :
       out.ps[q].status = IF j.ps[q].pid = pid THEN status ELSE j.ps[q].status
  /\ out.state = "running" => j.state = "running"
  /\ out.state = "done" <=> ~HasStatus(out, "run") /\ ~HasStatus(out, "stop")
  /\ HasStatus(out, "run") => out.state = j.state
  /\ ~HasStatus(out, "run") => out.state # "running"

LEMMA StateOfIs ==
  ASSUME NEW j, j.ps \in Seq(PsType)
  PROVE  /\ StateOf(j.ps) \in {"running", "stopped", "done"}
         /\ StateOf(j.ps) = "running" <=> HasStatus(j, "run")
         /\ StateOf(j.ps) = "done" <=> ~HasStatus(j, "run") /\ ~HasStatus(j, "stop")
<1>1. DOMAIN j.ps = 1..Len(j.ps)
  OBVIOUS
<1>2. /\ HasStatus(j, "run") <=> \E k \in DOMAIN j.ps : j.ps[k].status = "run"
      /\ HasStatus(j, "stop") <=> \E k \in DOMAIN j.ps : j.ps[k].status = "stop"
  BY <1>1 DEF HasStatus
<1>3. StateOf(j.ps) = IF HasStatus(j, "run") THEN "running"
                      ELSE IF HasStatus(j, "stop") THEN "stopped" ELSE "done"
  BY <1>2 DEF StateOf
<1> QED BY <1>3

LEMMA NotedJobIs ==
  ASSUME NEW j \in JobType, j.state # "done", NEW pid \in Pids, NEW status \in {"stop", "end"}
  PROVE  NotedSo(j, NotedJob(j, pid, status), pid, status)
<1> DEFINE ps == j.ps
           n == Len(ps)
           note == NotedPs(ps, pid, status)
           put == [pid |-> pid, status |-> status]
           out == NotedJob(j, pid, status)
           now == StateOf(note)
<1>1. ps \in Seq(PsType) /\ n \in Nat /\ DOMAIN ps = 1..n
  BY DEF JobType
<1>2. put \in PsType /\ put.pid = pid /\ put.status = status
  BY DEF PsType
<1> HIDE DEF ps, put
<1>3. ASSUME NEW q \in 1..n
      PROVE  /\ note[q] \in PsType /\ note[q].pid = ps[q].pid
             /\ note[q].status = IF ps[q].pid = pid THEN status ELSE ps[q].status
  <2>1. ps[q] \in PsType
    BY <1>1
  <2>2. note[q] = IF ps[q].pid = pid THEN put ELSE ps[q]
    BY <1>1 DEF NotedPs, put
  <2> HIDE DEF note
  <2> QED BY <1>2, <2>1, <2>2
<1>4. note \in Seq(PsType) /\ Len(note) = n
  <2>1. note = [k \in 1..n |-> note[k]]
    BY <1>1 DEF NotedPs
  <2> HIDE DEF note, n
  <2>2. n \in Nat
    BY <1>1
  <2> QED BY <1>3, <2>1, <2>2
<1> HIDE DEF note, n
<1>5. out = IF now = "running" THEN [j EXCEPT !.ps = note]
            ELSE [j EXCEPT !.ps = note, !.state = now]
  BY DEF NotedJob, note, ps
<1> HIDE DEF out
<1>6. out.ps = note
  BY <1>5 DEF JobType
<1>7. /\ now \in {"running", "stopped", "done"}
      /\ now = "running" <=> HasStatus(out, "run")
      /\ now = "done" <=> ~HasStatus(out, "run") /\ ~HasStatus(out, "stop")
  BY <1>4, <1>6, StateOfIs
<1> HIDE DEF now
<1>8. /\ out \in JobType /\ (out.used <=> j.used) /\ out.psat = j.psat
      /\ (out.adrift <=> j.adrift)
      /\ out.state = IF now = "running" THEN j.state ELSE now
  <2>1. CASE now = "running"
    <3>1. out = [j EXCEPT !.ps = note]
      BY <1>5, <2>1
    <3> QED BY <1>4, <2>1, <3>1 DEF JobType
  <2>2. CASE now # "running"
    <3>1. out = [j EXCEPT !.ps = note, !.state = now]
      BY <1>5, <2>2
    <3> QED BY <1>4, <1>7, <2>2, <3>1 DEF JobType
  <2> QED BY <2>1, <2>2
<1>9. SamePids(out, j)
  BY <1>3, <1>4, <1>6 DEF SamePids, n, ps
<1>10. \A q \in 1..Len(j.ps) :
         out.ps[q].status = IF j.ps[q].pid = pid THEN status ELSE j.ps[q].status
  BY <1>3, <1>6 DEF n, ps
<1>11. NotedSo(j, out, pid, status)
  BY <1>7, <1>8, <1>9, <1>10 DEF NotedSo
<1> QED BY <1>11 DEF out

LEMMA NotedRight ==
  ASSUME NEW j \in JobType, NEW i, JobRight(j, i), j.state # "done",
         NEW pid \in Pids, NEW status \in {"stop", "end"},
         NEW out, NotedSo(j, out, pid, status)
  PROVE  JobRight(out, i)
<1>1. HasStatus(out, "run") => HasStatus(j, "run")
  <2>1. ASSUME NEW q \in 1..Len(out.ps), out.ps[q].status = "run"
        PROVE  q \in 1..Len(j.ps) /\ j.ps[q].status = "run"
    BY <2>1 DEF NotedSo, SamePids
  <2> QED BY <2>1 DEF HasStatus
<1>2. ~out.adrift => (out.state = "running" <=> HasStatus(out, "run"))
  BY <1>1 DEF NotedSo, JobRight
<1>3. Len(out.ps) = Len(j.ps) /\ out.psat = j.psat
  BY DEF NotedSo, SamePids
<1> QED BY <1>2, <1>3 DEF NotedSo, JobRight

\* No job takes note, or one that is not done and has the process.
NotedBy(tab, list, js, pid, status) ==
  \/ /\ js = [tab |-> tab, list |-> list]
     /\ \A i \in UsedIn(tab) : tab[i].state # "done" => ~HasPid(tab[i], pid)
  \/ \E p \in UsedIn(tab) : \E list2 :
       /\ Lists(list2, UsedIn(tab)) /\ tab[p].state # "done" /\ HasPid(tab[p], pid)
       /\ js = [tab |-> Put(tab, p, NotedJob(tab[p], pid, status)), list |-> list2]

LEMMA BothFields ==
  ASSUME NEW t, NEW l, NEW t2, NEW l2
  PROVE  [[tab |-> t, list |-> l] EXCEPT !.tab = t2, !.list = l2] = [tab |-> t2, list |-> l2]
<1> DEFINE a == [tab |-> t, list |-> l]
           b == [a EXCEPT !.tab = t2]
           c == [tab |-> t2, list |-> l]
<1>1. b = c
  OBVIOUS
<1>2. [c EXCEPT !.list = l2] = [tab |-> t2, list |-> l2]
  OBVIOUS
<1>3. [a EXCEPT !.tab = t2, !.list = l2] = [b EXCEPT !.list = l2]
  BY Zenon
<1> QED BY <1>1, <1>2, <1>3

LEMMA NotedIs ==
  ASSUME NEW tab \in Seq(JobType), NEW list, Lists(list, UsedIn(tab)),
         NEW pid \in Pids, NEW status \in {"stop", "end"}
  PROVE  NotedBy(tab, list, Noted([tab |-> tab, list |-> list], pid, status), pid, status)
<1> DEFINE js   == [tab |-> tab, list |-> list]
           mine == {k \in DOMAIN js.list :
                      /\ js.tab[js.list[k]].state # "done"
                      /\ \E q \in DOMAIN js.tab[js.list[k]].ps :
                           js.tab[js.list[k]].ps[q].pid = pid}
           p    == js.list[Min(mine)]
           j    == js.tab[p]
           ps   == NotedPs(j.ps, pid, status)
           now  == StateOf(ps)
           note == IF now = "running" THEN [j EXCEPT !.ps = ps]
                   ELSE [j EXCEPT !.ps = ps, !.state = now]
           list2 == IF now = "stopped" /\ j.state # "stopped"
                    THEN <<p>> \o Without(js.list, p) ELSE js.list
           out  == Noted(js, pid, status)
<1>0. js.tab = tab /\ js.list = list
  OBVIOUS
<1> HIDE DEF js
<1>1. out = IF mine = {} THEN js ELSE [js EXCEPT !.tab[p] = note, !.list = list2]
  BY DEF Noted, NotedPs
<1>2. /\ list \in Seq(UsedIn(tab)) /\ DOMAIN list = 1..Len(list) /\ Len(list) \in Nat
      /\ \A i \in UsedIn(tab) : \E k \in 1..Len(list) : list[k] = i
      /\ \A k \in 1..Len(list) : list[k] \in UsedIn(tab)
  BY DEF Lists
<1>3. note = NotedJob(j, pid, status)
  BY DEF NotedJob
<1>4. \A i \in UsedIn(tab) : DOMAIN tab[i].ps = 1..Len(tab[i].ps)
  BY JobTyped
<1>5. \A k \in 1..Len(list) : k \in mine <=>
        tab[list[k]].state # "done" /\ HasPid(tab[list[k]], pid)
  BY <1>0, <1>2, <1>4 DEF HasPid
<1>6. CASE mine = {}
  <2>1. out = [tab |-> tab, list |-> list]
    BY <1>1, <1>6 DEF js
  <2>2. \A i \in UsedIn(tab) : tab[i].state # "done" => ~HasPid(tab[i], pid)
    <3> HIDE DEF mine
    <3> QED BY <1>2, <1>5, <1>6
  <2> HIDE DEF mine, out
  <2>3. NotedBy(tab, list, out, pid, status)
    BY <2>1, <2>2 DEF NotedBy
  <2> QED BY <2>3 DEF out, js
<1>7. CASE mine # {}
  <2>1. Min(mine) \in mine
    <3>1. mine \in SUBSET Nat
      BY <1>0, <1>2
    <3> HIDE DEF mine
    <3>2. \E x \in mine : \A y \in mine : x <= y
      BY <1>7, <3>1, LeastElement
    <3> QED BY <3>2 DEF Min
  <2>2. Min(mine) \in 1..Len(list)
    BY <1>0, <1>2, <2>1
  <2> HIDE DEF mine
  <2>3. p \in UsedIn(tab) /\ tab[p].state # "done" /\ HasPid(tab[p], pid)
    BY <1>0, <1>2, <1>5, <2>1, <2>2
  <2> HIDE DEF p
  <2>4. Lists(list2, UsedIn(tab))
    <3>1. Lists(<<p>> \o Without(list, p), UsedIn(tab))
      <4>1. Lists(Without(list, p), UsedIn(tab) \ {p})
        BY <2>3, WithoutLists
      <4>2. Lists(<<p>> \o Without(list, p), (UsedIn(tab) \ {p}) \cup {p})
        BY <4>1, FirstLists
      <4>3. (UsedIn(tab) \ {p}) \cup {p} = UsedIn(tab)
        BY <2>3
      <4> QED BY <4>2, <4>3
    <3> QED BY <1>0, <3>1
  <2> HIDE DEF list2, note
  <2>5. out = [tab |-> Put(tab, p, note), list |-> list2]
    <3>1. out = [js EXCEPT !.tab[p] = note, !.list = list2]
      BY <1>1, <1>7
    <3> DEFINE t2 == Put(tab, p, note)
    <3>2. [js EXCEPT !.tab[p] = note, !.list = list2] = [js EXCEPT !.tab = t2, !.list = list2]
      BY <1>0 DEF Put
    <3> HIDE DEF t2, out
    <3>3. [js EXCEPT !.tab = t2, !.list = list2] = [tab |-> t2, list |-> list2]
      BY BothFields DEF js
    <3> QED BY <3>1, <3>2, <3>3 DEF t2
  <2>6. out = [tab |-> Put(tab, p, NotedJob(tab[p], pid, status)), list |-> list2]
    BY <1>0, <1>3, <2>5
  <2> HIDE DEF out
  <2>7. NotedBy(tab, list, out, pid, status)
    BY <2>3, <2>4, <2>6 DEF NotedBy
  <2> QED BY <2>7 DEF out, js
<1> QED BY <1>6, <1>7

-----------------------------------------------------------------------------
\* What is noted is what the kernel says of the child, which is reaped if it
\* has ended (waitone, jobs.c:1056-1131).
LEMMA NotedHolds ==
  ASSUME NEW tab, NEW list, NEW kid, NEW orph, JobsHold(tab, list, kid, orph),
         NEW pid \in Pids, NEW status \in {"stop", "end"}, kid[pid].st = status,
         NEW kid2, kid2[pid].st = (IF status = "stop" THEN "stop" ELSE "gone"),
         \A c \in Pids : c # pid => kid2[c] = kid[c],
         NEW js, NotedBy(tab, list, js, pid, status)
  PROVE  /\ JobsHold(js.tab, js.list, kid2, orph)
         /\ UsedIn(js.tab) = UsedIn(tab)
         /\ \A i \in UsedIn(tab) : js.tab[i].state = "running" => tab[i].state = "running"
<1>1. tab \in Seq(JobType) /\ PidsApart(tab) /\ ProcessesThere(tab, kid) /\ TableRight(tab)
      /\ Lists(list, UsedIn(tab)) /\ ChildrenIn(tab, kid, orph)
  BY DEF JobsHold
<1>2. ASSUME NEW i \in UsedIn(tab), tab[i].state = "done" \/ ~HasPid(tab[i], pid)
      PROVE  JobThere(tab[i], kid2)
  <2>1. /\ JobRight(tab[i], i) /\ JobThere(tab[i], kid)
        /\ \A q \in 1..Len(tab[i].ps) : tab[i].ps[q] \in PsType
    BY JobHolds
  <2>2. ASSUME NEW q \in 1..Len(tab[i].ps) PROVE ProcessThere(tab[i].ps[q], kid2)
    <3>1. ProcessThere(tab[i].ps[q], kid) /\ tab[i].ps[q] \in PsType
      BY <2>1 DEF JobThere
    <3>2. tab[i].ps[q].pid \in Pids /\ tab[i].ps[q].status \in {"run", "stop", "end"}
      BY <3>1 DEF PsType
    <3>3. CASE tab[i].ps[q].pid # pid
      BY <3>1, <3>2, <3>3 DEF ProcessThere
    <3>4. CASE tab[i].ps[q].pid = pid
      <4>1. HasPid(tab[i], pid)
        BY <3>4 DEF HasPid
      <4>2. tab[i].ps[q].status = "end"
        BY <1>2, <2>1, <3>2, <4>1 DEF JobRight, HasStatus
      <4> QED BY <3>4, <4>2 DEF ProcessThere
    <3> QED BY <3>3, <3>4
  <2> QED BY <2>2 DEF JobThere
<1>3. \A c \in Pids : ChildOf(kid2, c) => ChildOf(kid, c) /\ (c = pid => status = "stop")
  BY DEF ChildOf
<1>4. CASE /\ js = [tab |-> tab, list |-> list]
           /\ \A i \in UsedIn(tab) : tab[i].state # "done" => ~HasPid(tab[i], pid)
  <2>1. \A i \in UsedIn(tab) : JobThere(tab[i], kid2)
    BY <1>2, <1>4
  <2>2. JobsHold(tab, list, kid2, orph)
    BY <1>1, <1>3, <2>1 DEF JobsHold, ProcessesThere, ChildrenIn
  <2>3. js.tab = tab /\ js.list = list
    BY <1>4
  <2> QED BY <2>2, <2>3
<1>5. CASE \E p \in UsedIn(tab) : \E list2 :
             /\ Lists(list2, UsedIn(tab)) /\ tab[p].state # "done" /\ HasPid(tab[p], pid)
             /\ js = [tab |-> Put(tab, p, NotedJob(tab[p], pid, status)), list |-> list2]
  <2>1. PICK p \in UsedIn(tab) : \E list2 :
             /\ Lists(list2, UsedIn(tab)) /\ tab[p].state # "done" /\ HasPid(tab[p], pid)
             /\ js = [tab |-> Put(tab, p, NotedJob(tab[p], pid, status)), list |-> list2]
    BY <1>5
  <2>2. PICK list2 :
             /\ Lists(list2, UsedIn(tab)) /\ tab[p].state # "done" /\ HasPid(tab[p], pid)
             /\ js = [tab |-> Put(tab, p, NotedJob(tab[p], pid, status)), list |-> list2]
    BY <2>1
  <2> DEFINE j == tab[p]
             out == NotedJob(j, pid, status)
  <2>3. /\ j \in JobType /\ j.used /\ JobRight(j, p) /\ JobThere(j, kid) /\ p \in 1..Len(tab)
        /\ \A q \in 1..Len(j.ps) : j.ps[q] \in PsType
    BY JobHolds
  <2>4. NotedSo(j, out, pid, status)
    BY <2>2, <2>3, NotedJobIs
  <2>5. JobRight(out, p)
    BY <2>2, <2>3, <2>4, NotedRight
  <2> HIDE DEF out
  <2>6. out \in JobType /\ out.used /\ SamePids(out, j)
    BY <2>3, <2>4 DEF NotedSo
  <2>7. \A q \in 1..Len(j.ps) :
          /\ out.ps[q].pid = j.ps[q].pid
          /\ out.ps[q].status = IF j.ps[q].pid = pid THEN status ELSE j.ps[q].status
    BY <2>4 DEF NotedSo, SamePids
  <2>8. JobThere(out, kid2)
    <3>1. ASSUME NEW q \in 1..Len(j.ps) PROVE ProcessThere(out.ps[q], kid2)
      <4>1. ProcessThere(j.ps[q], kid) /\ j.ps[q].pid \in Pids
        BY <2>3 DEF JobThere, PsType
      <4>2. CASE j.ps[q].pid # pid
        BY <2>7, <4>1, <4>2 DEF ProcessThere
      <4>3. CASE j.ps[q].pid = pid
        BY <2>7, <4>3 DEF ProcessThere
      <4> QED BY <4>2, <4>3
    <3> QED BY <2>6, <3>1 DEF JobThere, SamePids
  <2>9. ASSUME NEW i \in UsedIn(tab) \ {p} PROVE JobThere(tab[i], kid2)
    <3>1. PidsDiffer(tab[i], j)
      BY <1>1 DEF PidsApart
    <3>2. ~HasPid(tab[i], pid)
      BY <2>2, <3>1 DEF PidsDiffer, HasPid
    <3> QED BY <1>2, <3>2
  <2>10. ASSUME NEW c \in Pids, ChildOf(kid2, c), Holds(j, c) PROVE Holds(out, c)
    <3>1. PICK q \in 1..Len(j.ps) : j.ps[q].pid = c /\ j.ps[q].status # "end"
      BY <2>10 DEF Holds
    <3>2. j.ps[q].status \in {"run", "stop", "end"}
      BY <2>3 DEF PsType
    <3>3. out.ps[q].pid = c /\ out.ps[q].status \in {"run", "stop"}
      BY <1>3, <2>7, <2>10, <3>1, <3>2
    <3>4. q \in 1..Len(out.ps)
      BY <2>6 DEF SamePids
    <3>5. HasStatus(out, "run") \/ HasStatus(out, "stop")
      BY <3>3, <3>4 DEF HasStatus
    <3>6. out.state # "done"
      BY <2>4, <3>5 DEF NotedSo
    <3> QED BY <3>3, <3>4, <3>6 DEF Holds
  <2>11. \A c \in Pids : ChildOf(kid2, c) =>
           ChildOf(kid, c) /\ (Holds(tab[p], c) => Holds(out, c))
    BY <1>3, <2>10
  <2>12. JobsHold(Put(tab, p, out), list2, kid2, orph) /\ UsedIn(Put(tab, p, out)) = UsedIn(tab)
    BY <2>2, <2>5, <2>6, <2>8, <2>9, <2>11, UpdateHolds
  <2>13. js.tab = Put(tab, p, out) /\ js.list = list2
    BY <2>2 DEF out
  <2>14. ASSUME NEW i \in UsedIn(tab), Put(tab, p, out)[i].state = "running"
         PROVE  tab[i].state = "running"
    <3>1. CASE i = p
      <4>1. Put(tab, p, out)[p] = out
        BY <2>3 DEF Put
      <4> QED BY <2>4, <2>14, <3>1, <4>1 DEF NotedSo
    <3>2. CASE i # p
      <4>1. i \in 1..Len(tab)
        BY DEF UsedIn
      <4>2. Put(tab, p, out)[i] = tab[i]
        BY <1>1, <3>2, <4>1 DEF Put
      <4> QED BY <2>14, <4>2
    <3> QED BY <3>1, <3>2
  <2> QED BY <2>12, <2>13, <2>14
<1> QED BY <1>4, <1>5 DEF NotedBy

LEMMA wait3_reportsKeeps ==
  ASSUME JobsInv, NEW p \in Pids, wait3_reports(p)
  PROVE  JobsInv'
<1>1. /\ JobsHold(jobtab, joblist, kids, orphans) /\ KidsRight(kids) /\ jobctl \in BOOLEAN
      /\ gotsigchld \in BOOLEAN /\ WaitRight(jobtab, jobpc, wait)
      /\ Lists(joblist, UsedIn(jobtab)) /\ jobtab \in Seq(JobType)
      /\ kids \in [Pids -> KidType]
  BY DEF JobsInv, JobsHold, KidsRight
<1> DEFINE status == kids[p].st
           js == Noted([tab |-> jobtab, list |-> joblist], p, status)
           now == [st |-> IF status = "stop" THEN "stop" ELSE "gone", news |-> FALSE]
<1>2. /\ jobpc = "wait3" /\ p \in Reportable
      /\ Become_jobs(js) /\ wait' = [wait EXCEPT !.block = BlocksAgain(wait.block, js)]
      /\ kids' = [kids EXCEPT ![p] = now]
      /\ jobpc' = "waitproc" /\ UNCHANGED <<orphans, gotsigchld, jobctl>>
  BY DEF wait3_reports, Jobs
<1>3. status \in {"stop", "end"}
  BY <1>1, <1>2 DEF Reportable, KidsRight
<1>4. NotedBy(jobtab, joblist, js, p, status)
  BY <1>1, <1>3, NotedIs
<1>5. now \in KidType /\ now.st = (IF status = "stop" THEN "stop" ELSE "gone") /\ ~now.news
  BY DEF KidType
<1> HIDE DEF js, now
<1>6. /\ kids' \in [Pids -> KidType] /\ kids'[p] = now
      /\ \A c \in Pids : c # p => kids'[c] = kids[c]
  BY <1>1, <1>2, <1>5
<1>7. KidsRight(kids')
  <2>1. \A c \in Pids : kids'[c].news => kids'[c].st \in {"stop", "end"}
    BY <1>1, <1>5, <1>6 DEF KidsRight
  <2>2. \A c \in Pids : kids'[c].st # "none" <=> kids[c].st # "none"
    BY <1>3, <1>5, <1>6
  <2>3. {c \in Pids : kids'[c].st # "none"} = {c \in Pids : kids[c].st # "none"}
    BY <2>2
  <2> QED BY <1>1, <1>6, <2>1, <2>3 DEF KidsRight
<1>8. /\ JobsHold(js.tab, js.list, kids', orphans)
      /\ UsedIn(js.tab) = UsedIn(jobtab)
      /\ \A i \in UsedIn(jobtab) : js.tab[i].state = "running" => jobtab[i].state = "running"
  <2>1. kids'[p].st = (IF status = "stop" THEN "stop" ELSE "gone")
    BY <1>5, <1>6
  <2>2. \A c \in Pids : c # p => kids'[c] = kids[c]
    BY <1>6
  <2> HIDE DEF status
  <2>3. kids[p].st = status
    BY DEF status
  <2> QED BY <1>1, <1>3, <1>4, <2>1, <2>2, <2>3, NotedHolds
<1>9. jobtab' = js.tab /\ joblist' = js.list
  BY <1>2 DEF Become_jobs
<1>10. JobsHold(jobtab', joblist', kids', orphans')
  BY <1>2, <1>8, <1>9
<1>11. WaitRight(jobtab', jobpc', wait')
  <2> DEFINE b == BlocksAgain(wait.block, js)
  <2>1. wait \in WaitType
    BY <1>1 DEF WaitRight
  <2>2. b = IF wait.block = "all" \/ (wait.job # NoJob /\ js.tab[wait.job].state # "running")
            THEN "no" ELSE wait.block
    BY DEF BlocksAgain
  <2> HIDE DEF b
  <2>3. wait' = [wait EXCEPT !.block = b]
    BY <1>2 DEF b
  <2>4. b \in {"no", "block", "wait", "all"}
    BY <2>1, <2>2 DEF WaitType
  <2>5. wait' \in WaitType /\ wait'.job = wait.job /\ wait'.block = b
        /\ wait'.then = wait.then /\ (wait'.rpid <=> wait.rpid)
    BY <2>1, <2>3, <2>4 DEF WaitType
  <2>6. ASSUME wait.then \in {"foreground", "wait"}
        PROVE  /\ wait.job \in UsedIn(js.tab) /\ b # "all"
               /\ wait.rpid /\ b = "no" => js.tab[wait.job].state # "running"
    <3>1. /\ wait.job \in UsedIn(jobtab) /\ wait.block # "all"
          /\ wait.rpid /\ wait.block = "no" => jobtab[wait.job].state # "running"
      BY <1>1, <1>2, <2>6 DEF WaitRight
    <3> QED BY <1>8, <2>2, <3>1
  <2>7. jobpc' = "waitproc"
    BY <1>2
  <2> QED BY <1>9, <2>5, <2>6, <2>7 DEF WaitRight
<1> QED BY <1>1, <1>2, <1>7, <1>10, <1>11 DEF JobsInv

-----------------------------------------------------------------------------
(* Waiting, and what follows it.                                           *)

LEMMA WaitingRight ==
  ASSUME NEW tab, NEW pc, NEW w, WaitRight(tab, pc, w), pc # "idle",
         NEW pc2, pc2 = "return" => w.block = "no" \/ pc = "return"
  PROVE  WaitRight(tab, pc2, w)
BY DEF WaitRight

LEMMA waitprocKeeps ==
  ASSUME JobsInv, waitproc
  PROVE  JobsInv'
<1>1. WaitRight(jobtab, jobpc, wait) /\ jobpc = "waitproc" /\ jobpc' = "wait3"
      /\ gotsigchld' = FALSE
      /\ UNCHANGED <<jobtab, joblist, kids, orphans, jobctl, wait>>
  BY DEF JobsInv, waitproc, Resets
<1>2. WaitRight(jobtab', jobpc', wait')
  BY <1>1, WaitingRight
<1> QED BY <1>1, <1>2 DEF JobsInv

LEMMA signalKeeps ==
  ASSUME JobsInv, signal
  PROVE  JobsInv'
<1>1. /\ gotsigchld' \in BOOLEAN
      /\ UNCHANGED <<jobtab, joblist, kids, orphans, jobctl, jobpc, wait>>
  BY DEF JobsInv, signal, Signalled
<1> QED BY <1>1 DEF JobsInv

\* With no child left every job in use is done.
LEMMA NoneRuns ==
  ASSUME NEW tab, NEW list, NEW kid, NEW orph, JobsHold(tab, list, kid, orph),
         \A c \in Pids : ~ChildOf(kid, c), NEW i \in UsedIn(tab)
  PROVE  tab[i].state # "running"
<1>1. /\ JobRight(tab[i], i) /\ JobThere(tab[i], kid)
      /\ \A q \in 1..Len(tab[i].ps) : tab[i].ps[q] \in PsType
  BY JobHolds
<1>2. ASSUME NEW q \in 1..Len(tab[i].ps) PROVE tab[i].ps[q].status = "end"
  <2>1. ProcessThere(tab[i].ps[q], kid) /\ tab[i].ps[q].pid \in Pids
    BY <1>1 DEF JobThere, PsType
  <2> QED BY <2>1 DEF ProcessThere, ChildOf
<1>3. tab[i].state = "done"
  BY <1>1, <1>2 DEF JobRight, HasStatus
<1> QED BY <1>3

LEMMA nothingKeeps ==
  ASSUME JobsInv, wait3_reports_nothing
  PROVE  JobsInv'
<1>1. /\ WaitRight(jobtab, jobpc, wait) /\ jobpc = "wait3"
      /\ jobpc' = IF Children = {} \/ wait.block = "no" THEN "return" ELSE "check"
      /\ UNCHANGED <<jobtab, joblist, kids, orphans, gotsigchld, jobctl, wait>>
      /\ JobsHold(jobtab, joblist, kids, orphans)
  BY DEF JobsInv, wait3_reports_nothing
<1>2. WaitRight(jobtab, jobpc', wait)
  <2>1. CASE Children = {}
    <3>1. \A c \in Pids : ~ChildOf(kids, c)
      BY <2>1 DEF Children, ChildOf
    <3>2. \A i \in UsedIn(jobtab) : jobtab[i].state # "running"
      BY <1>1, <3>1, NoneRuns
    <3> QED BY <1>1, <3>2 DEF WaitRight
  <2>2. CASE Children # {}
    <3>1. jobpc' = "return" => wait.block = "no"
      BY <1>1, <2>2
    <3>2. jobpc # "idle"
      BY <1>1
    <3> QED BY <1>1, <3>1, <3>2, WaitingRight
  <2> QED BY <2>1, <2>2
<1>3. WaitRight(jobtab', jobpc', wait')
  BY <1>1, <1>2
<1> QED BY <1>1, <1>3 DEF JobsInv

LEMMA check_signalsKeeps ==
  ASSUME JobsInv, check_signals
  PROVE  JobsInv'
<1>1. /\ WaitRight(jobtab, jobpc, wait) /\ jobpc = "check"
      /\ jobpc' \in {"unblocked", "suspend"} /\ gotsigchld' \in BOOLEAN
      /\ UNCHANGED <<jobtab, joblist, kids, orphans, jobctl, wait>>
  BY DEF JobsInv, check_signals, Unblocked
<1>2. WaitRight(jobtab', jobpc', wait')
  BY <1>1, WaitingRight
<1> QED BY <1>1, <1>2 DEF JobsInv

LEMMA sigsuspendKeeps ==
  ASSUME JobsInv, sigsuspend
  PROVE  JobsInv'
<1>1. /\ WaitRight(jobtab, jobpc, wait) /\ jobpc = "suspend"
      /\ jobpc' = "check" /\ gotsigchld' \in BOOLEAN
      /\ UNCHANGED <<jobtab, joblist, kids, orphans, jobctl, wait>>
  BY DEF JobsInv, sigsuspend, Unblocked
<1>2. WaitRight(jobtab', jobpc', wait')
  BY <1>1, WaitingRight
<1> QED BY <1>1, <1>2 DEF JobsInv

LEMMA waitproc_againKeeps ==
  ASSUME JobsInv, waitproc_again
  PROVE  JobsInv'
<1>1. /\ WaitRight(jobtab, jobpc, wait) /\ jobpc = "unblocked" /\ jobpc' = "waitproc"
      /\ wait' = IF gotsigchld THEN wait ELSE [wait EXCEPT !.rpid = FALSE, !.block = "no"]
      /\ UNCHANGED <<jobtab, joblist, kids, orphans, gotsigchld, jobctl>>
  BY DEF JobsInv, waitproc_again
<1>2. wait \in WaitType
  BY <1>1 DEF WaitRight
<1>3. WaitRight(jobtab, jobpc', wait')
  <2>1. CASE gotsigchld
    <3>1. WaitRight(jobtab, "waitproc", wait)
      BY <1>1, WaitingRight
    <3> QED BY <1>1, <2>1, <3>1
  <2>2. CASE ~gotsigchld
    <3>1. wait' = [wait EXCEPT !.rpid = FALSE, !.block = "no"]
      BY <1>1, <2>2
    <3>2. wait' \in WaitType /\ wait'.job = wait.job /\ wait'.then = wait.then
          /\ wait'.block = "no" /\ ~wait'.rpid
      BY <1>2, <3>1 DEF WaitType
    <3> QED BY <1>1, <3>2 DEF WaitRight
  <2> QED BY <2>1, <2>2
<1>4. WaitRight(jobtab', jobpc', wait')
  BY <1>1, <1>3
<1> QED BY <1>1, <1>4 DEF JobsInv

LEMMA setjobctlKeeps ==
  ASSUME JobsInv, NEW on \in BOOLEAN, setjobctl(on)
  PROVE  JobsInv'
<1>1. /\ jobctl' = on
      /\ UNCHANGED <<jobtab, joblist, kids, orphans, gotsigchld, jobpc, wait>>
  BY DEF setjobctl
<1> QED BY <1>1 DEF JobsInv

LEMMA showjobsKeeps ==
  ASSUME JobsInv, showjobs
  PROVE  JobsInv'
<1>1. /\ dowait(Jobs, "no", NoJob, "show")
      /\ UNCHANGED <<jobtab, joblist, kids, orphans, gotsigchld, jobctl>>
  BY DEF showjobs
<1>2. WaitRight(jobtab, jobpc', wait') /\ jobpc' \in PCs
  BY <1>1, dowaitAny
<1>3. WaitRight(jobtab', jobpc', wait')
  BY <1>1, <1>2
<1> QED BY <1>1, <1>2, <1>3 DEF JobsInv, PCs

LEMMA waitcmdKeeps ==
  ASSUME JobsInv, NEW i \in DOMAIN jobtab, waitcmd(i)
  PROVE  JobsInv'
<1>1. /\ dowait(Jobs, "wait", i, "wait") /\ jobtab[i].used
      /\ UNCHANGED <<jobtab, joblist, kids, orphans, gotsigchld, jobctl>>
  BY DEF waitcmd
<1>2. jobtab \in Seq(JobType)
  BY DEF JobsInv, JobsHold
<1>3. i \in UsedIn(jobtab) /\ UsedIn(jobtab) \subseteq Nat \ {0} /\ Jobs.tab = jobtab
  BY <1>1, <1>2 DEF UsedIn, Jobs
<1>4. WaitRight(Jobs.tab, jobpc', wait') /\ jobpc' \in PCs
  BY <1>1, <1>3, dowaitRight
<1>5. WaitRight(jobtab', jobpc', wait')
  BY <1>1, <1>3, <1>4
<1> QED BY <1>1, <1>4, <1>5 DEF JobsInv, PCs

LEMMA WaitedTyped ==
  ASSUME NEW j \in JobType, NEW w, w = [j EXCEPT !.waited = TRUE]
  PROVE  /\ w \in JobType /\ w.used = j.used /\ w.ps = j.ps /\ w.psat = j.psat
         /\ w.state = j.state /\ w.adrift = j.adrift
BY DEF JobType

LEMMA waitcmd_allKeeps ==
  ASSUME JobsInv, waitcmd_all
  PROVE  JobsInv'
<1>1. JobsHold(jobtab, joblist, kids, orphans) /\ jobtab \in Seq(JobType)
  BY DEF JobsInv, JobsHold
<1>2. PICK seen : jobtab' = [i \in DOMAIN jobtab |->
                        IF i \in seen THEN [jobtab[i] EXCEPT !.waited = TRUE] ELSE jobtab[i]]
  BY DEF waitcmd_all
<1>3. /\ dowait(Jobs, "all", NoJob, "wait all") \/ (jobpc' = "idle" /\ wait' = NoWait)
      /\ UNCHANGED <<joblist, kids, orphans, gotsigchld, jobctl>>
  BY DEF waitcmd_all
<1>4. ASSUME NEW i \in 1..Len(jobtab)
      PROVE  /\ jobtab'[i] \in JobType /\ jobtab'[i].used = jobtab[i].used
             /\ jobtab'[i].ps = jobtab[i].ps
             /\ jobtab'[i].psat = jobtab[i].psat /\ jobtab'[i].state = jobtab[i].state
             /\ jobtab'[i].adrift = jobtab[i].adrift
  <2>1. jobtab[i] \in JobType
    BY <1>1
  <2>2. i \in DOMAIN jobtab
    <3>1. DOMAIN jobtab = 1..Len(jobtab)
      BY <1>1
    <3> QED BY <3>1
  <2>3. jobtab'[i] = IF i \in seen THEN [jobtab[i] EXCEPT !.waited = TRUE] ELSE jobtab[i]
    BY <1>2, <2>2, Zenon
  <2>4. CASE i \in seen
    <3>1. jobtab'[i] = [jobtab[i] EXCEPT !.waited = TRUE]
      BY <2>3, <2>4
    <3> QED BY <2>1, <3>1, WaitedTyped
  <2>5. CASE i \notin seen
    <3>1. jobtab'[i] = jobtab[i]
      BY <2>3, <2>5
    <3> QED BY <2>1, <3>1
  <2> QED BY <2>4, <2>5
<1>5. jobtab' \in Seq(JobType) /\ Len(jobtab') = Len(jobtab)
  <2>1. DOMAIN jobtab = 1..Len(jobtab) /\ Len(jobtab) \in Nat
    BY <1>1
  <2>2. jobtab' = [i \in 1..Len(jobtab) |-> jobtab'[i]]
    BY <1>2, <2>1
  <2> QED BY <1>4, <2>1, <2>2
<1>6. JobsHold(jobtab', joblist, kids, orphans)
  BY <1>1, <1>4, <1>5, FlagsHold
<1>7. JobsHold(jobtab', joblist', kids', orphans')
  BY <1>3, <1>6
<1>8. WaitRight(jobtab', jobpc', wait') /\ jobpc' \in PCs
  <2>1. CASE dowait(Jobs, "all", NoJob, "wait all")
    BY <2>1, dowaitAny
  <2>2. CASE jobpc' = "idle" /\ wait' = NoWait
    <3>1. WaitRight(jobtab', "idle", NoWait)
      BY NoWaitTyped, IdleRight
    <3> QED BY <2>2, <3>1 DEF PCs
  <2> QED BY <1>3, <2>1, <2>2
<1> QED BY <1>3, <1>7, <1>8 DEF JobsInv, PCs

LEMMA dowait_returnsKeeps ==
  ASSUME JobsInv, dowait_returns
  PROVE  JobsInv'
<1>1. /\ JobsHold(jobtab, joblist, kids, orphans) /\ jobtab \in Seq(JobType)
      /\ Jobs = [tab |-> jobtab, list |-> joblist]
      /\ WaitRight(jobtab, jobpc, wait) /\ jobpc = "return"
  BY DEF JobsInv, JobsHold, Jobs, dowait_returns
<1>2. /\ jobpc' = "idle" /\ wait' = NoWait
      /\ UNCHANGED <<kids, orphans, gotsigchld, jobctl>>
      /\ Become_jobs(CASE wait.then = "foreground" ->
                        IF jobtab[wait.job].state = "done" THEN freejob(Jobs, wait.job) ELSE Jobs
                       [] wait.then = "show" -> ShownAll(Jobs, joblist)
                       [] wait.then = "wait" /\ wait.rpid ->
                            [Jobs EXCEPT !.tab[wait.job].waited = TRUE]
                       [] OTHER -> Jobs)
  BY DEF dowait_returns, ShownAll
<1>3. ASSUME Become_jobs(Jobs) PROVE JobsHold(jobtab', joblist', kids, orphans)
  BY <1>1, <1>3 DEF Become_jobs
<1>4. JobsHold(jobtab', joblist', kids, orphans)
  <2>1. CASE wait.then = "foreground"
    <3>1. wait.job \in UsedIn(jobtab)
      BY <1>1, <2>1 DEF WaitRight
    <3>2. CASE jobtab[wait.job].state = "done"
      <4>1. Become_jobs(freejob(Jobs, wait.job))
        BY <1>2, <2>1, <3>2
      <4>2. freejob(Jobs, wait.job)
              = [tab |-> Freed(jobtab, wait.job), list |-> Without(joblist, wait.job)]
        BY <1>1, freejobIs
      <4>3. jobtab' = Freed(jobtab, wait.job) /\ joblist' = Without(joblist, wait.job)
        BY <4>1, <4>2 DEF Become_jobs
      <4> QED BY <1>1, <3>1, <3>2, <4>3, FreeHolds
    <3>3. CASE jobtab[wait.job].state # "done"
      BY <1>2, <1>3, <2>1, <3>3
    <3> QED BY <3>2, <3>3
  <2>2. CASE wait.then = "show"
    <3>1. Become_jobs(ShownAll(Jobs, joblist))
      BY <1>2, <2>2
    <3>2. PICK tab2 : \E list2 :
             /\ ShownAll([tab |-> jobtab, list |-> joblist], joblist)
                  = [tab |-> tab2, list |-> list2]
             /\ JobsHold(tab2, list2, kids, orphans)
      BY <1>1, ShownAllIs
    <3>3. PICK list2 :
             /\ ShownAll([tab |-> jobtab, list |-> joblist], joblist)
                  = [tab |-> tab2, list |-> list2]
             /\ JobsHold(tab2, list2, kids, orphans)
      BY <3>2
    <3>4. jobtab' = tab2 /\ joblist' = list2
      BY <1>1, <3>1, <3>3 DEF Become_jobs
    <3> QED BY <3>3, <3>4
  <2>3. CASE wait.then = "wait" /\ wait.rpid
    <3> DEFINE i == wait.job
               w == [jobtab[i] EXCEPT !.waited = TRUE]
    <3>1. i \in UsedIn(jobtab)
      BY <1>1, <2>3 DEF WaitRight
    <3>2. i \in 1..Len(jobtab) /\ jobtab[i] \in JobType
      BY <1>1, <3>1 DEF UsedIn
    <3>3. /\ w \in JobType /\ w.used = jobtab[i].used /\ w.ps = jobtab[i].ps
          /\ w.psat = jobtab[i].psat
          /\ w.state = jobtab[i].state /\ w.adrift = jobtab[i].adrift
      BY <3>2, WaitedTyped
    <3>4. Become_jobs([Jobs EXCEPT !.tab[i].waited = TRUE])
      BY <1>2, <2>3
    <3> HIDE DEF i
    <3> DEFINE t2 == Put(jobtab, i, w)
    <3>5. jobtab' = t2 /\ joblist' = joblist
      <4>1. Jobs.tab = jobtab /\ Jobs.list = joblist
        BY DEF Jobs
      <4>2. [Jobs EXCEPT !.tab[i].waited = TRUE] = [Jobs EXCEPT !.tab = t2]
        BY <4>1 DEF Put
      <4> HIDE DEF t2
      <4>3. [Jobs EXCEPT !.tab = t2] = [tab |-> t2, list |-> joblist]
        BY DEF Jobs
      <4> QED BY <3>4, <4>2, <4>3 DEF Become_jobs
    <3> HIDE DEF w
    <3>6. t2 \in Seq(JobType) /\ Len(t2) = Len(jobtab)
      BY <1>1, <3>2, <3>3, ExceptSeq DEF Put
    <3>7. \A l \in 1..Len(jobtab) : t2[l] = IF l = i THEN w ELSE jobtab[l]
      BY <1>1 DEF Put
    <3> HIDE DEF t2
    <3>8. \A l \in 1..Len(jobtab) :
            /\ t2[l].used = jobtab[l].used /\ t2[l].ps = jobtab[l].ps
            /\ t2[l].psat = jobtab[l].psat /\ t2[l].state = jobtab[l].state
            /\ t2[l].adrift = jobtab[l].adrift
      BY <3>3, <3>7
    <3>9. JobsHold(t2, joblist, kids, orphans)
      BY <1>1, <3>6, <3>8, FlagsHold
    <3> QED BY <3>5, <3>9
  <2>4. CASE ~(wait.then = "foreground") /\ ~(wait.then = "show")
             /\ ~(wait.then = "wait" /\ wait.rpid)
    BY <1>2, <1>3, <2>4
  <2> QED BY <2>1, <2>2, <2>3, <2>4
<1>5. JobsHold(jobtab', joblist', kids', orphans')
  BY <1>2, <1>4
<1>6. WaitRight(jobtab', jobpc', wait')
  BY <1>2, NoWaitTyped, IdleRight
<1> QED BY <1>2, <1>5, <1>6 DEF JobsInv

-----------------------------------------------------------------------------
LEMMA JobsInitHolds == JobsInit => JobsInv
<1> SUFFICES ASSUME JobsInit PROVE JobsInv
  OBVIOUS
<1> DEFINE none == [st |-> "none", news |-> FALSE]
<1>1. none \in KidType /\ none.st = "none" /\ ~none.news
  BY DEF KidType
<1> HIDE DEF none
<1>2. kids = [p \in Pids |-> none]
  BY DEF JobsInit, none
<1>3. KidsRight(kids)
  <2>1. kids \in [Pids -> KidType] /\ \A p \in Pids : kids[p] = none
    BY <1>1, <1>2
  <2>2. {p \in Pids : kids[p].st # "none"} = 1..0
    BY <1>1, <2>1
  <2> QED BY <1>1, <2>1, <2>2 DEF KidsRight
<1>4. \A p \in Pids : ~ChildOf(kids, p)
  BY <1>1, <1>2 DEF ChildOf
<1>5. jobtab = <<>> /\ joblist = <<>>
  BY DEF JobsInit
<1>6. jobtab \in Seq(JobType) /\ UsedIn(jobtab) = {}
  BY <1>5 DEF UsedIn
<1>7. JobsHold(jobtab, joblist, kids, orphans)
  BY <1>4, <1>5, <1>6, EmptyHolds
<1>8. WaitRight(jobtab, jobpc, wait)
  BY NoWaitTyped, IdleRight DEF JobsInit
<1> QED BY <1>3, <1>7, <1>8 DEF JobsInit, JobsInv

LEMMA JobsNextKeeps ==
  ASSUME JobsInv, JobsNext
  PROVE  JobsInv'
<1>1. CASE \E p \in Pids : child_ends(p) \/ child_stops(p) \/ child_continues(p)
  BY <1>1, child_endsKeeps, child_stopsKeeps, child_continuesKeeps
<1>2. CASE signal
  BY <1>2, signalKeeps
<1>3. CASE Waiting
  <2>1. CASE \E p \in Pids : wait3_reports(p)
    BY <2>1, wait3_reportsKeeps
  <2>2. CASE waitproc \/ wait3_reports_nothing \/ check_signals \/ sigsuspend \/ waitproc_again
    BY <2>2, waitprocKeeps, nothingKeeps, check_signalsKeeps, sigsuspendKeeps,
       waitproc_againKeeps
  <2>3. CASE dowait_returns \/ waitcmd_all
    BY <2>3, dowait_returnsKeeps, waitcmd_allKeeps
  <2> QED BY <1>3, <2>1, <2>2, <2>3 DEF Waiting
<1>4. CASE \E n \in Processes, bg \in BOOLEAN : run(n, bg)
  BY <1>4, runKeeps
<1>5. CASE \E n \in Processes : \E k \in 0..n - 1 : fork_fails(n, k)
  BY <1>5, fork_failsKeeps
<1>6. CASE forkchild
  BY <1>6, forkchildKeeps
<1>7. CASE \E i \in DOMAIN jobtab, bg \in BOOLEAN : fgcmd(i, bg)
  BY <1>7, fgcmdKeeps
<1>8. CASE \E on \in BOOLEAN : setjobctl(on)
  BY <1>8, setjobctlKeeps
<1>9. CASE \E i \in DOMAIN jobtab : fgcmd_fails(i)
  BY <1>9, fgcmd_failsKeeps
<1>10. CASE showjobs
  BY <1>10, showjobsKeeps
<1>11. CASE \E i \in DOMAIN jobtab : waitcmd(i)
  BY <1>11, waitcmdKeeps
<1>12. CASE jobpc = "idle" /\ waitcmd_all
  BY <1>12, waitcmd_allKeeps
<1> QED BY <1>1, <1>2, <1>3, <1>4, <1>5, <1>6, <1>7, <1>8, <1>9, <1>10, <1>11, <1>12 DEF JobsNext

LEMMA JobsInvSound == JobsInv => JobsSound
<1> SUFFICES ASSUME JobsInv PROVE JobsSound
  OBVIOUS
<1>1. /\ JobsHold(jobtab, joblist, kids, orphans) /\ jobtab \in Seq(JobType)
      /\ Lists(joblist, UsedIn(jobtab)) /\ ChildrenIn(jobtab, kids, orphans)
      /\ WaitRight(jobtab, jobpc, wait)
  BY DEF JobsInv, JobsHold
<1>2. /\ DOMAIN jobtab = 1..Len(jobtab)
      /\ joblist \in Seq(UsedIn(jobtab)) /\ DOMAIN joblist = 1..Len(joblist)
      /\ \A k \in 1..Len(joblist) : joblist[k] \in UsedIn(jobtab)
  BY <1>1 DEF Lists
<1>3. JobListExact
  <2>1. ToSet(joblist) = {i : i \in {i \in DOMAIN jobtab : jobtab[i].used}}
    <3>1. {i : i \in {i \in DOMAIN jobtab : jobtab[i].used}} = UsedIn(jobtab)
      BY <1>2 DEF UsedIn
    <3>2. ToSet(joblist) = UsedIn(jobtab)
      BY <1>1, <1>2 DEF ToSet, Lists
    <3> QED BY <3>1, <3>2
  <2>2. \A k, l \in DOMAIN joblist : joblist[k] = joblist[l] => k = l
    BY <1>1, <1>2 DEF Lists
  <2>3. ASSUME NEW i \in DOMAIN jobtab, jobtab[i].used
        PROVE  jobtab[i].psat = IF Len(jobtab[i].ps) = 1 THEN i ELSE 0
    <3>1. i \in UsedIn(jobtab)
      BY <1>2, <2>3 DEF UsedIn
    <3>2. JobRight(jobtab[i], i)
      BY <1>1, <3>1, JobHolds
    <3> QED BY <3>2 DEF JobRight
  <2> QED BY <2>1, <2>2, <2>3 DEF JobListExact
<1>4. JobStateAgrees
  <2>1. ASSUME NEW i \in DOMAIN jobtab, jobtab[i].used, ~jobtab[i].adrift
        PROVE  LET statuses == {jobtab[i].ps[q].status : q \in DOMAIN jobtab[i].ps}
               IN  /\ jobtab[i].state = "running" <=> "run" \in statuses
                   /\ jobtab[i].state = "done" <=> statuses \subseteq {"end"}
    <3> DEFINE statuses == {jobtab[i].ps[q].status : q \in DOMAIN jobtab[i].ps}
    <3>1. i \in UsedIn(jobtab)
      BY <1>2, <2>1 DEF UsedIn
    <3>2. /\ JobRight(jobtab[i], i) /\ jobtab[i].ps \in Seq(PsType)
          /\ \A q \in 1..Len(jobtab[i].ps) : jobtab[i].ps[q] \in PsType
      BY <1>1, <3>1, JobHolds
    <3>3. \A q \in 1..Len(jobtab[i].ps) : jobtab[i].ps[q].status \in {"run", "stop", "end"}
      BY <3>2 DEF PsType
    <3>4. DOMAIN jobtab[i].ps = 1..Len(jobtab[i].ps)
      BY <3>2
    <3>5. /\ "run" \in statuses <=> HasStatus(jobtab[i], "run")
          /\ "stop" \in statuses <=> HasStatus(jobtab[i], "stop")
          /\ statuses \subseteq {"run", "stop", "end"}
      BY <3>3, <3>4 DEF HasStatus
    <3> HIDE DEF statuses
    <3>6. statuses \subseteq {"end"} <=> "run" \notin statuses /\ "stop" \notin statuses
      BY <3>5
    <3>7. /\ jobtab[i].state = "running" <=> "run" \in statuses
          /\ jobtab[i].state = "done" <=> statuses \subseteq {"end"}
      BY <2>1, <3>2, <3>5, <3>6 DEF JobRight
    <3> QED BY <3>7 DEF statuses
  <2> QED BY <2>1 DEF JobStateAgrees
<1>5. NoChildForgotten
  <2>1. ASSUME NEW p \in Children \ orphans
        PROVE  \E i \in DOMAIN jobtab :
                 /\ jobtab[i].used /\ jobtab[i].state # "done"
                 /\ \E q \in DOMAIN jobtab[i].ps :
                      jobtab[i].ps[q].pid = p /\ jobtab[i].ps[q].status # "end"
    <3>1. p \in Pids /\ ChildOf(kids, p) /\ p \notin orphans
      BY <2>1 DEF Children, ChildOf
    <3>2. PICK i \in UsedIn(jobtab) : Holds(jobtab[i], p)
      BY <1>1, <3>1 DEF ChildrenIn, InJob
    <3>3. DOMAIN jobtab[i].ps = 1..Len(jobtab[i].ps) /\ i \in DOMAIN jobtab /\ jobtab[i].used
      BY <1>1, <1>2, JobHolds
    <3> QED BY <3>2, <3>3 DEF Holds
  <2> QED BY <2>1 DEF NoChildForgotten
<1>6. WaitedForJob
  BY <1>1 DEF WaitRight, WaitedForJob
<1> QED BY <1>3, <1>4, <1>5, <1>6 DEF JobsSound

-----------------------------------------------------------------------------
\* Where the shell reads from (Input).

(* Sequences of whatever they hold. *)

IsSeq(s) == s \in Seq(ToSet(s))

LEMMA IsSeqs ==
  ASSUME NEW S, NEW s \in Seq(S)
  PROVE  IsSeq(s) /\ ToSet(s) = {s[k] : k \in 1..Len(s)} /\ Len(s) \in Nat
<1>1. DOMAIN s = 1..Len(s) /\ Len(s) \in Nat
  OBVIOUS
<1>2. ToSet(s) = {s[k] : k \in 1..Len(s)}
  BY <1>1 DEF ToSet
<1>3. s \in Seq(ToSet(s))
  BY <1>1, <1>2, IsASeq DEF IsSeq
<1> QED BY <1>1, <1>2, <1>3 DEF IsSeq

LEMMA EmptyIs == IsSeq(<<>>) /\ ToSet(<<>>) = {} /\ Len(<<>>) = 0
<1>1. DOMAIN <<>> = {} /\ Len(<<>>) = 0
  OBVIOUS
<1>2. \A S : <<>> \in Seq(S)
  OBVIOUS
<1> QED BY <1>1, <1>2 DEF IsSeq, ToSet

LEMMA ReplacedIs ==
  ASSUME NEW s, IsSeq(s), NEW x, Len(s) >= 1
  PROVE  LET g == [s EXCEPT ![Len(s)] = x]
         IN /\ IsSeq(g) /\ Len(g) = Len(s) /\ g[Len(s)] = x
            /\ \A k \in 1..(Len(s) - 1) : g[k] = s[k]
<1> DEFINE S == ToSet(s) \cup {x}
           g == [s EXCEPT ![Len(s)] = x]
<1>1. s \in Seq(S) /\ x \in S /\ Len(s) \in Nat
  <2>1. s \in Seq(ToSet(s))
    BY DEF IsSeq
  <2>2. \A k \in 1..Len(s) : s[k] \in S
    BY <2>1
  <2> HIDE DEF S
  <2>3. s \in Seq(S)
    BY <2>1, <2>2
  <2> QED BY <2>1, <2>3 DEF S
<1> HIDE DEF S
<1>2. g \in Seq(S) /\ Len(g) = Len(s) /\ g[Len(s)] = x /\ \A k \in 1..(Len(s) - 1) : g[k] = s[k]
  BY <1>1
<1>3. IsSeq(g)
  BY <1>2, IsSeqs
<1> QED BY <1>2, <1>3

LEMMA AppendedIs ==
  ASSUME NEW s, IsSeq(s), NEW x
  PROVE  /\ IsSeq(Append(s, x)) /\ Len(Append(s, x)) = Len(s) + 1 /\ Len(s) \in Nat
         /\ Append(s, x)[Len(s) + 1] = x /\ \A k \in 1..Len(s) : Append(s, x)[k] = s[k]
<1> DEFINE S == ToSet(s) \cup {x}
<1>1. s \in Seq(S) /\ x \in S /\ Len(s) \in Nat
  <2>1. s \in Seq(ToSet(s))
    BY DEF IsSeq
  <2>2. \A k \in 1..Len(s) : s[k] \in S
    BY <2>1
  <2> HIDE DEF S
  <2>3. s \in Seq(S)
    BY <2>1, <2>2
  <2> QED BY <2>1, <2>3 DEF S
<1> HIDE DEF S
<1>2. /\ Append(s, x) \in Seq(S) /\ Len(Append(s, x)) = Len(s) + 1
      /\ Append(s, x)[Len(s) + 1] = x /\ \A k \in 1..Len(s) : Append(s, x)[k] = s[k]
  BY <1>1, AppendProperties
<1> QED BY <1>1, <1>2, IsSeqs

LEMMA FrontIs ==
  ASSUME NEW s, IsSeq(s), s # <<>>
  PROVE  /\ IsSeq(Front(s)) /\ Len(Front(s)) = Len(s) - 1 /\ Len(s) \in Nat \ {0}
         /\ Last(s) = s[Len(s)] /\ \A k \in 1..(Len(s) - 1) : Front(s)[k] = s[k]
<1> DEFINE S == ToSet(s)
<1>1. s \in Seq(S)
  BY DEF IsSeq
<1> HIDE DEF S
<1>2. Len(s) \in Nat \ {0}
  BY <1>1
<1>3. /\ Front(s) \in Seq(S) /\ Len(Front(s)) = Len(s) - 1
      /\ \A k \in 1..(Len(s) - 1) : Front(s)[k] = s[k]
  <2> DEFINE n == Len(s) - 1
  <2>1. n \in Nat /\ n <= Len(s) /\ Front(s) = SubSeq(s, 1, n)
    BY <1>2 DEF Front
  <2> HIDE DEF n
  <2>2. SubSeq(s, 1, n) \in Seq(S) /\ SubSeq(s, 1, n) = [k \in 1..n |-> s[k]]
    BY <1>1, <2>1
  <2>3. Len(SubSeq(s, 1, n)) = n
    BY <1>1, <2>1
  <2> QED BY <2>1, <2>2, <2>3 DEF n
<1>4. Last(s) = s[Len(s)]
  BY DEF Last
<1> QED BY <1>2, <1>3, <1>4, IsSeqs

LEMMA TailIs ==
  ASSUME NEW s, IsSeq(s), s # <<>>
  PROVE  /\ IsSeq(Tail(s)) /\ Len(Tail(s)) = Len(s) - 1 /\ Len(s) \in Nat \ {0}
         /\ Head(s) = s[1] /\ \A k \in 1..(Len(s) - 1) : Tail(s)[k] = s[k + 1]
<1> DEFINE S == ToSet(s)
<1>1. s \in Seq(S)
  BY DEF IsSeq
<1> HIDE DEF S
<1>2. Len(s) \in Nat \ {0}
  BY <1>1
<1>3. /\ Tail(s) \in Seq(S) /\ Len(Tail(s)) = Len(s) - 1
      /\ \A k \in 1..(Len(s) - 1) : Tail(s)[k] = s[k + 1]
  BY <1>1, <1>2
<1>4. Head(s) = s[1]
  OBVIOUS
<1> QED BY <1>2, <1>3, <1>4, IsSeqs

LEMMA HeadedIs ==
  ASSUME NEW s, IsSeq(s), NEW x
  PROVE  IsSeq(<<x>> \o s) /\ ToSet(<<x>> \o s) = {x} \cup ToSet(s)
<1> DEFINE S == ToSet(s) \cup {x}
           g == <<x>> \o s
<1>1. s \in Seq(S) /\ x \in S /\ Len(s) \in Nat /\ \A k \in 1..Len(s) : s[k] \in ToSet(s)
  <2>1. s \in Seq(ToSet(s))
    BY DEF IsSeq
  <2>2. \A k \in 1..Len(s) : s[k] \in S /\ s[k] \in ToSet(s)
    BY <2>1
  <2> HIDE DEF S
  <2>3. s \in Seq(S)
    BY <2>1, <2>2
  <2> QED BY <2>1, <2>2, <2>3 DEF S
<1> HIDE DEF S
<1>2. <<x>> \in Seq(S)
  BY <1>1
<1>3. /\ g \in Seq(S) /\ Len(g) = Len(s) + 1 /\ g[1] = x
      /\ \A k \in 1..Len(s) : g[k + 1] = s[k]
  <2>1. g \in Seq(S) /\ Len(g) = Len(<<x>>) + Len(s)
    BY <1>1, <1>2, ConcatProperties
  <2>2. Len(<<x>>) = 1 /\ <<x>>[1] = x
    OBVIOUS
  <2>3. \A k \in 1..(Len(<<x>>) + Len(s)) :
          g[k] = IF k <= Len(<<x>>) THEN <<x>>[k] ELSE s[k - Len(<<x>>)]
    BY <1>1, <1>2, ConcatProperties
  <2> HIDE DEF g
  <2>4. g[1] = x
    BY <1>1, <2>2, <2>3
  <2>5. ASSUME NEW k \in 1..Len(s) PROVE g[k + 1] = s[k]
    <3>1. k + 1 \in 1..(1 + Len(s)) /\ ~(k + 1 <= 1) /\ (k + 1) - 1 = k
      BY <1>1
    <3> QED BY <2>2, <2>3, <3>1
  <2> QED BY <1>1, <2>1, <2>2, <2>4, <2>5
<1> HIDE DEF g
<1>4. ToSet(g) = {g[k] : k \in 1..Len(g)} /\ IsSeq(g)
  BY <1>3, IsSeqs
<1>5. ToSet(s) = {s[k] : k \in 1..Len(s)}
  BY <1>1, IsSeqs
<1>6. ToSet(g) \subseteq {x} \cup ToSet(s)
  <2>1. SUFFICES ASSUME NEW k \in 1..Len(g) PROVE g[k] \in {x} \cup ToSet(s)
    BY <1>4
  <2>2. CASE k = 1
    BY <1>3, <2>2
  <2>3. CASE k # 1
    <3>1. k - 1 \in 1..Len(s) /\ (k - 1) + 1 = k
      BY <1>1, <1>3, <2>3
    <3> QED BY <1>1, <1>3, <3>1
  <2> QED BY <2>2, <2>3
<1>7. x \in ToSet(g)
  <2>1. 1 \in 1..Len(g)
    BY <1>1, <1>3
  <2> QED BY <1>3, <1>4, <2>1
<1>8. ASSUME NEW k \in 1..Len(s) PROVE s[k] \in ToSet(g)
  <2>1. k + 1 \in 1..Len(g)
    BY <1>1, <1>3
  <2> QED BY <1>3, <1>4, <2>1
<1> QED BY <1>4, <1>5, <1>6, <1>7, <1>8 DEF g

-----------------------------------------------------------------------------
(* How reading stands in a text, and what the parser may give back. *)

ContextOf(len, pos, unget, lastc, back, spfree) ==
  [len |-> len, pos |-> pos, unget |-> unget, lastc |-> lastc, back |-> back, spfree |-> spfree]

FileOf(ctx, strs, last) == [ctx |-> ctx, strs |-> strs, last |-> last]

\* The character is of the l-th text or of one above it.
Above(x, l) == x[2] \in Nat /\ x[2] >= l

ContextShape(c) ==
  /\ c = ContextOf(c.len, c.pos, c.unget, c.lastc, c.back, c.spfree)
  /\ c.len \in Nat /\ c.pos \in Nat /\ c.pos <= c.len /\ c.unget \in 0..2 /\ IsSeq(c.spfree)

\* What was given back is what lastc has.
UngotRight(c, l) ==
  /\ c.unget = 0 => c.back = <<>>
  /\ c.unget = 1 => c.back = <<c.lastc[1]>> /\ Above(c.lastc[1], l)
  /\ c.unget = 2 => /\ c.back = <<c.lastc[2], c.lastc[1]>>
                    /\ Above(c.lastc[1], l) /\ Above(c.lastc[2], l)

ContextRight(c, l) == ContextShape(c) /\ UngotRight(c, l)

\* A text was pushed where one character was given back or there is another.
TextRight(sp, l) ==
  /\ sp = [ap |-> sp.ap, string |-> sp.string, ctx |-> sp.ctx]
  /\ ContextRight(sp.ctx, l)
  /\ sp.ctx.unget = 1 \/ (sp.ctx.unget = 0 /\ sp.ctx.pos < sp.ctx.len)

\* What the parser read last is what lastc has, as far as it may be given back.
LastRight(last, c, l) ==
  /\ IsSeq(last) /\ Len(last) \in 0..2
  /\ Len(last) >= 1 => Above(last[1], l)
  /\ Len(last) = 2 => Above(last[2], l)
  /\ c.unget = 0 /\ Len(last) >= 1 => last[1] = c.lastc[1]
  /\ c.unget = 0 /\ Len(last) = 2 /\ last[1][2] = l /\ last[2][2] = l => last[2] = c.lastc[2]
  /\ c.unget = 1 /\ Len(last) >= 1 /\ last[1][2] = l /\ c.lastc[1][2] = l => last[1] = c.lastc[2]

TextsRight(strs) == IsSeq(strs) /\ \A i \in 1..Len(strs) : TextRight(strs[i], i - 1)

FileRight(f) ==
  /\ f = FileOf(f.ctx, f.strs, f.last)
  /\ TextsRight(f.strs)
  /\ ContextRight(f.ctx, Len(f.strs))
  /\ LastRight(f.last, f.ctx, Len(f.strs))

LEMMA ContextFields ==
  ASSUME NEW len, NEW pos, NEW unget, NEW lastc, NEW back, NEW spfree, NEW c,
         c = ContextOf(len, pos, unget, lastc, back, spfree)
  PROVE  /\ c.len = len /\ c.pos = pos /\ c.unget = unget /\ c.lastc = lastc
         /\ c.back = back /\ c.spfree = spfree
BY DEF ContextOf

LEMMA FileFields ==
  ASSUME NEW c, NEW strs, NEW last, NEW f, f = FileOf(c, strs, last)
  PROVE  f.ctx = c /\ f.strs = strs /\ f.last = last
BY DEF FileOf

\* Records of which several fields change.
GivesBack(d, u, y) == [d EXCEPT !.unget = u, !.back = y]
Forgets(d, p, u, y) == [d EXCEPT !.pos = p, !.unget = u, !.back = y]
Below(f, d, x) == [f EXCEPT !.ctx = d, !.strs = x]
Reads(f, d, x) == [f EXCEPT !.ctx = d, !.last = x]

LEMMA ContextChanged ==
  ASSUME NEW d, NEW p, NEW u, NEW y, NEW len, NEW pos, NEW unget, NEW lastc, NEW back,
         NEW spfree, d = ContextOf(len, pos, unget, lastc, back, spfree)
  PROVE  /\ GivesBack(d, u, y) = ContextOf(len, pos, u, lastc, y, spfree)
         /\ Forgets(d, p, u, y) = ContextOf(len, p, u, lastc, y, spfree)
<1>1. ASSUME NEW e, NEW q, e = ContextOf(len, q, unget, lastc, back, spfree)
      PROVE  GivesBack(e, u, y) = ContextOf(len, q, u, lastc, y, spfree)
  <2> DEFINE g == [e EXCEPT !.unget = u]
  <2>1. g = ContextOf(len, q, u, lastc, back, spfree)
    BY <1>1 DEF ContextOf
  <2> HIDE DEF g
  <2>2. [g EXCEPT !.back = y] = ContextOf(len, q, u, lastc, y, spfree)
    BY <2>1 DEF ContextOf
  <2>3. GivesBack(e, u, y) = [g EXCEPT !.back = y]
    BY Zenon DEF g, GivesBack
  <2> QED BY <2>2, <2>3
<1> DEFINE h == [d EXCEPT !.pos = p]
<1>2. h = ContextOf(len, p, unget, lastc, back, spfree)
  BY DEF ContextOf
<1> HIDE DEF h
<1>3. GivesBack(h, u, y) = ContextOf(len, p, u, lastc, y, spfree)
  BY <1>1, <1>2
<1>4. Forgets(d, p, u, y) = GivesBack(h, u, y)
  BY Zenon DEF h, GivesBack, Forgets
<1> QED BY <1>1, <1>3, <1>4

LEMMA FileChanged ==
  ASSUME NEW f, NEW c, NEW strs, NEW last, f = FileOf(c, strs, last), NEW d, NEW x
  PROVE  /\ Below(f, d, x) = FileOf(d, x, last)
         /\ Reads(f, d, x) = FileOf(d, strs, x)
<1> DEFINE g == [f EXCEPT !.ctx = d]
<1>1. g = FileOf(d, strs, last)
  BY DEF FileOf
<1> HIDE DEF g
<1>3. [g EXCEPT !.strs = x] = FileOf(d, x, last) /\ [g EXCEPT !.last = x] = FileOf(d, strs, x)
  BY <1>1 DEF FileOf
<1>4. Below(f, d, x) = [g EXCEPT !.strs = x]
  BY Zenon DEF g, Below
<1>5. Reads(f, d, x) = [g EXCEPT !.last = x]
  BY Zenon DEF g, Reads
<1> QED BY <1>3, <1>4, <1>5

\* What reading does to a file, field by field.
LEMMA UngotIs ==
  ASSUME NEW f, NEW c, NEW strs, NEW last, f = FileOf(c, strs, last),
         NEW len, NEW pos, NEW unget, NEW lastc, NEW back, NEW spfree,
         c = ContextOf(len, pos, unget, lastc, back, spfree)
  PROVE  /\ Ungot(f).file = FileOf(ContextOf(len, pos, unget - 1, lastc, Tail(back), spfree), strs, last)
         /\ Ungot(f).c = lastc[unget]
<1> DEFINE u == unget - 1
           y == Tail(back)
           d == GivesBack(f.ctx, f.ctx.unget - 1, Tail(f.ctx.back))
<1>1. f.ctx = c /\ c.unget = unget /\ c.lastc = lastc /\ c.back = back
  BY ContextFields, FileFields
<1>2. d = GivesBack(c, u, y)
  BY <1>1
<1>3. Ungot(f).file = [f EXCEPT !.ctx = d]
  <2> DEFINE g == [f EXCEPT !.ctx = d]
             x == f.ctx.lastc[f.ctx.unget]
  <2>1. Ungot(f) = [file |-> g, c |-> x]
    BY Zenon DEF Ungot, GivesBack
  <2> HIDE DEF g, x
  <2>2. Ungot(f).file = g
    BY <2>1
  <2> QED BY <2>2 DEF g
<1>4. Ungot(f).c = lastc[unget]
  BY <1>1 DEF Ungot
<1> HIDE DEF u, y, d
<1>5. d = ContextOf(len, pos, u, lastc, y, spfree)
  BY <1>2, ContextChanged
<1>6. [f EXCEPT !.ctx = d] = FileOf(d, strs, last)
  BY DEF FileOf
<1> QED BY <1>3, <1>4, <1>5, <1>6 DEF u, y

LEMMA EntersIs ==
  ASSUME NEW f, NEW c, NEW strs, NEW last, f = FileOf(c, strs, last), NEW x,
         NEW len, NEW pos, NEW unget, NEW lastc, NEW back, NEW spfree,
         c = ContextOf(len, pos, unget, lastc, back, spfree)
  PROVE  /\ Enters(f, x).file
              = FileOf(ContextOf(len, pos, unget, <<x, lastc[1]>>, back, spfree), strs, last)
         /\ Enters(f, x).c = x
<1>2. [f EXCEPT !.ctx.lastc = Shifted(@, x)]
        = FileOf(ContextOf(len, pos, unget, <<x, lastc[1]>>, back, spfree), strs, last)
  BY DEF FileOf, ContextOf, Shifted
<1> QED BY <1>2 DEF Enters

LEMMA NextCharIs ==
  ASSUME NEW f, NEW c, NEW strs, NEW last, f = FileOf(c, strs, last),
         NEW len, NEW pos, NEW unget, NEW lastc, NEW back, NEW spfree,
         c = ContextOf(len, pos, unget, lastc, back, spfree),
         NEW x, x = <<Len(parsefiles), Len(strs), pos + 1>>
  PROVE  /\ NextChar(f).file
              = FileOf(ContextOf(len, pos + 1, unget, <<x, lastc[1]>>, back, spfree), strs, last)
         /\ NextChar(f).c = x
<1> DEFINE g == [f EXCEPT !.ctx.pos = @ + 1]
<1>1. CharAt(f, f.ctx.pos + 1) = x
  BY ContextFields, FileFields DEF CharAt
<1>2. g = FileOf(ContextOf(len, pos + 1, unget, lastc, back, spfree), strs, last)
  BY DEF FileOf, ContextOf
<1> HIDE DEF g
<1>3. /\ Enters(g, x).file
           = FileOf(ContextOf(len, pos + 1, unget, <<x, lastc[1]>>, back, spfree), strs, last)
      /\ Enters(g, x).c = x
  BY <1>2, EntersIs
<1>4. NextChar(f) = Enters(g, x)
  BY <1>1 DEF NextChar, g
<1> QED BY <1>3, <1>4

LEMMA popstringIs ==
  ASSUME NEW f, NEW c, NEW strs, NEW last, f = FileOf(c, strs, last),
         NEW d, Last(strs).ctx = d,
         NEW len, NEW pos, NEW unget, NEW lastc, NEW back, NEW spfree,
         d = ContextOf(len, pos, unget, lastc, back, spfree)
  PROVE  popstring(f)
           = FileOf(ContextOf(len, pos, unget, lastc, back, <<Last(strs)>> \o spfree),
                    Front(strs), last)
<1>1. f.strs = strs
  BY FileFields
<1>2. ContextBefore(f) = ContextOf(len, pos, unget, lastc, back, <<Last(strs)>> \o spfree)
  <2>1. d.spfree = spfree
    BY ContextFields
  <2>2. \A z : [d EXCEPT !.spfree = z] = ContextOf(len, pos, unget, lastc, back, z)
    BY DEF ContextOf
  <2>3. [d EXCEPT !.spfree = <<Last(strs)>> \o d.spfree]
          = ContextOf(len, pos, unget, lastc, back, <<Last(strs)>> \o d.spfree)
    BY <2>2
  <2>4. ContextBefore(f) = [d EXCEPT !.spfree = <<Last(strs)>> \o d.spfree]
    BY <1>1 DEF ContextBefore
  <2> QED BY <2>1, <2>3, <2>4
<1>3. popstring(f) = FileOf(ContextBefore(f), Front(strs), last)
  <2> DEFINE b == ContextBefore(f)
  <2>1. popstring(f) = Below(f, b, Front(f.strs))
    BY DEF popstring, Below
  <2>2. popstring(f) = Below(f, b, Front(strs))
    BY <1>1, <2>1
  <2> DEFINE z == Front(strs)
  <2> HIDE DEF b, z
  <2>3. Below(f, b, z) = FileOf(b, z, last)
    BY FileChanged
  <2> QED BY <2>2, <2>3 DEF b, z
<1> QED BY <1>2, <1>3

LEMMA RecentIs ==
  ASSUME NEW last, IsSeq(last), NEW x
  PROVE  LET r == Recent(x, last)
         IN /\ IsSeq(r) /\ r[1] = x
            /\ Len(last) \in Nat /\ (Len(last) = 0 => Len(r) = 1)
            /\ Len(last) >= 1 => Len(r) = 2 /\ r[2] = last[1]
            /\ Len(r) \in 1..2 /\ Head(r) = x
<1> DEFINE r == Recent(x, last)
<1>1. Len(last) \in Nat /\ (Len(last) = 0 <=> last = <<>>)
  <2> DEFINE S == ToSet(last)
  <2>1. last \in Seq(S)
    BY DEF IsSeq
  <2> HIDE DEF S
  <2> QED BY <2>1
<1>2. CASE last = <<>>
  <2>1. r = <<x>>
    BY <1>2 DEF Recent
  <2> HIDE DEF r
  <2>2. r \in Seq({x}) /\ Len(r) = 1 /\ r[1] = x
    BY <2>1
  <2>3. IsSeq(r) /\ Head(r) = x
    BY <2>2, IsSeqs
  <2> QED BY <1>1, <1>2, <2>2, <2>3 DEF r
<1>3. CASE last # <<>>
  <2> DEFINE y == last[1]
  <2>1. r = <<x, y>>
    BY <1>3 DEF Recent
  <2> HIDE DEF r, y
  <2>2. r \in Seq({x, y}) /\ Len(r) = 2 /\ r[1] = x /\ r[2] = y
    BY <2>1
  <2>3. IsSeq(r) /\ Head(r) = x
    BY <2>2, IsSeqs
  <2> QED BY <1>1, <1>3, <2>2, <2>3 DEF r, y
<1> QED BY <1>2, <1>3

-----------------------------------------------------------------------------
(* Reading a character, and giving one back. *)

LEMMA OneBack ==
  ASSUME NEW x
  PROVE  /\ Tail(<<x>>) = <<>> /\ Head(<<x>>) = x /\ <<x>> \o <<>> = <<x>>
<1>1. <<x>> \in Seq({x}) /\ <<>> \in Seq({x})
  OBVIOUS
<1>2. Tail(<<x>>) = <<>>
  <2>1. Len(<<x>>) = 1
    OBVIOUS
  <2>2. Tail(<<x>>) \in Seq({x}) /\ Len(Tail(<<x>>)) = 0
    BY <1>1, <2>1
  <2> QED BY <2>2
<1>3. <<x>> \o <<>> = <<x>>
  BY <1>1
<1> QED BY <1>2, <1>3

LEMMA TwoBack ==
  ASSUME NEW x, NEW y
  PROVE  /\ Tail(<<x, y>>) = <<y>> /\ Head(<<x, y>>) = x /\ <<x>> \o <<y>> = <<x, y>>
<1>1. <<x, y>> \in Seq({x, y}) /\ <<x>> \in Seq({x, y}) /\ <<y>> \in Seq({x, y})
  OBVIOUS
<1>2. Tail(<<x, y>>) = <<y>>
  <2> DEFINE t == Tail(<<x, y>>)
  <2>1. Len(<<x, y>>) = 2 /\ <<x, y>>[2] = y
    OBVIOUS
  <2>2. t \in Seq({x, y}) /\ Len(t) = 1 /\ t[1] = y
    BY <1>1, <2>1
  <2>3. Len(<<y>>) = 1 /\ <<y>>[1] = y
    OBVIOUS
  <2> HIDE DEF t
  <2>4. t = <<y>>
    BY <1>1, <2>2, <2>3, SeqEqual
  <2> QED BY <2>4 DEF t
<1>3. <<x>> \o <<y>> = <<x, y>>
  <2> DEFINE s == <<x>> \o <<y>>
  <2>1. s \in Seq({x, y}) /\ Len(s) = 2 /\ s[1] = x /\ s[2] = y
    BY <1>1
  <2>2. Len(<<x, y>>) = 2 /\ <<x, y>>[1] = x /\ <<x, y>>[2] = y
    OBVIOUS
  <2> HIDE DEF s
  <2>3. \A k \in 1..2 : k = 1 \/ k = 2
    OBVIOUS
  <2>4. s = <<x, y>>
    BY <1>1, <2>1, <2>2, <2>3, SeqEqual
  <2> QED BY <2>4 DEF s
<1> QED BY <1>2, <1>3

\* A file as its fields are.
LEMMA FileIs ==
  ASSUME NEW f, FileRight(f)
  PROVE  LET c == f.ctx
         IN /\ c = ContextOf(c.len, c.pos, c.unget, c.lastc, c.back, c.spfree)
            /\ f = FileOf(c, f.strs, f.last)
            /\ Len(f.strs) \in Nat /\ IsSeq(f.strs) /\ IsSeq(f.last) /\ IsSeq(c.spfree)
            /\ f.strs = <<>> <=> Len(f.strs) = 0
            /\ f.last = <<>> <=> Len(f.last) = 0
<1>1. ASSUME NEW s, IsSeq(s) PROVE Len(s) \in Nat /\ (s = <<>> <=> Len(s) = 0)
  <2> DEFINE S == ToSet(s)
  <2>1. s \in Seq(S)
    BY <1>1 DEF IsSeq
  <2> HIDE DEF S
  <2> QED BY <2>1
<1>2. IsSeq(f.strs) /\ IsSeq(f.last) /\ IsSeq(f.ctx.spfree)
  BY DEF FileRight, TextsRight, LastRight, ContextRight, ContextShape
<1> QED BY <1>1, <1>2 DEF FileRight, ContextRight, ContextShape

\* x comes first and is what lastc has.
LEMMA ReadKeepsLast ==
  ASSUME NEW last, NEW c, NEW l \in Nat, LastRight(last, c, l), NEW x, Above(x, l), NEW d,
         \/ d.unget = 0 /\ d.lastc[1] = x
            /\ (Len(last) >= 1 /\ last[1][2] = l /\ x[2] = l => d.lastc[2] = last[1])
         \/ d.unget = 1 /\ d.lastc[2] = x
  PROVE  LastRight(Recent(x, last), d, l)
<1> DEFINE r == Recent(x, last)
<1>1. /\ IsSeq(r) /\ r[1] = x /\ Len(last) \in Nat /\ (Len(last) = 0 => Len(r) = 1)
      /\ Len(last) >= 1 => Len(r) = 2 /\ r[2] = last[1]
      /\ Len(r) \in 1..2
  BY RecentIs DEF LastRight
<1> HIDE DEF r
<1>2. Len(r) = 2 => Len(last) >= 1 /\ r[2] = last[1] /\ Above(r[2], l)
  BY <1>1 DEF LastRight
<1>3. Len(r) \in 0..2
  BY <1>1
<1> QED BY <1>1, <1>2, <1>3 DEF LastRight, r

LEMMA ReadBelowKeepsLast ==
  ASSUME NEW last, NEW c, NEW l \in Nat \ {0}, LastRight(last, c, l), NEW x, Above(x, l - 1),
         NEW d, d.unget = 0, d.lastc[1] = x
  PROVE  LastRight(Recent(x, last), d, l - 1)
<1> DEFINE r == Recent(x, last)
<1>1. /\ IsSeq(r) /\ r[1] = x /\ Len(last) \in Nat /\ (Len(last) = 0 => Len(r) = 1)
      /\ Len(last) >= 1 => Len(r) = 2 /\ r[2] = last[1]
      /\ Len(r) \in 1..2
  BY RecentIs DEF LastRight
<1> HIDE DEF r
<1>2. Len(r) = 2 => r[2] = last[1] /\ Above(r[2], l)
  BY <1>1 DEF LastRight
<1>3. Len(r) \in 0..2
  BY <1>1
<1>4. \A y : Above(y, l) => Above(y, l - 1) /\ y[2] # l - 1
  BY DEF Above
<1> QED BY <1>1, <1>2, <1>3, <1>4 DEF LastRight, r

\* Of what was given back.
LEMMA UngotKeeps ==
  ASSUME NEW f, FileRight(f), f.ctx.unget # 0, NEW g,
         g = Recorded(Ungot(DoneFreed(f)))
  PROVE  /\ FileRight(g) /\ Head(g.last) = Head(f.ctx.back)
         /\ g.strs = f.strs /\ g.ctx.spfree = <<>>
<1> DEFINE c == f.ctx
           x == c.lastc[c.unget]
           y == Tail(c.back)
           d == ContextOf(c.len, c.pos, c.unget - 1, c.lastc, y, <<>>)
           h == DoneFreed(f)
           q == Ungot(h)
           l == Len(f.strs)
<1>1. /\ c = ContextOf(c.len, c.pos, c.unget, c.lastc, c.back, c.spfree)
      /\ f = FileOf(c, f.strs, f.last) /\ l \in Nat
  BY FileIs
<1>2. h = FileOf(ContextOf(c.len, c.pos, c.unget, c.lastc, c.back, <<>>), f.strs, f.last)
  <2> HIDE DEF c
  <2>1. f.ctx = c
    BY DEF c
  <2> QED BY <1>1, <2>1 DEF FileOf, ContextOf, DoneFreed
<1>3. g = [q.file EXCEPT !.last = Recent(q.c, q.file.last)]
  BY DEF Recorded
<1> HIDE DEF h
<1>4. q.file = FileOf(d, f.strs, f.last) /\ q.c = x
  BY <1>2, UngotIs
<1> HIDE DEF d, x, q
<1>5. g = FileOf(d, f.strs, Recent(x, f.last))
  <2>1. q.file.last = f.last
    BY <1>4, FileFields
  <2> DEFINE z == Recent(x, f.last)
  <2>2. g = [q.file EXCEPT !.last = z]
    BY <1>3, <1>4, <2>1
  <2> HIDE DEF z
  <2>3. [q.file EXCEPT !.last = z] = FileOf(d, f.strs, z)
    BY <1>4 DEF FileOf
  <2> QED BY <2>2, <2>3 DEF z
<1>6. /\ d.len = c.len /\ d.pos = c.pos /\ d.unget = c.unget - 1 /\ d.lastc = c.lastc
      /\ d.back = y /\ d.spfree = <<>>
      /\ d = ContextOf(d.len, d.pos, d.unget, d.lastc, d.back, d.spfree)
  BY DEF d, ContextOf
<1>7. ContextShape(c) /\ UngotRight(c, l) /\ LastRight(f.last, c, l) /\ TextsRight(f.strs)
  BY DEF FileRight, ContextRight
<1> HIDE DEF c, y, l
<1>8. c.unget \in {1, 2}
  BY <1>7 DEF ContextShape, c
<1>9. ASSUME c.unget = 1
      PROVE  UngotRight(d, l) /\ LastRight(Recent(x, f.last), d, l) /\ Head(c.back) = x
  <2>1. x = c.lastc[1] /\ Above(x, l) /\ c.back = <<x>>
    BY <1>7, <1>9 DEF UngotRight, x
  <2>2. y = <<>> /\ Head(c.back) = x
    BY <2>1, OneBack DEF y
  <2>3. UngotRight(d, l)
    BY <1>6, <1>9, <2>2 DEF UngotRight
  <2>4. LastRight(Recent(x, f.last), d, l)
    <3>1. Len(f.last) >= 1 /\ f.last[1][2] = l /\ x[2] = l => d.lastc[2] = f.last[1]
      BY <1>6, <1>7, <1>9, <2>1 DEF LastRight
    <3>2. d.unget = 0 /\ d.lastc[1] = x
      BY <1>6, <1>9, <2>1
    <3> QED BY <1>1, <1>7, <2>1, <3>1, <3>2, ReadKeepsLast
  <2> QED BY <2>2, <2>3, <2>4
<1>10. ASSUME c.unget = 2
       PROVE  UngotRight(d, l) /\ LastRight(Recent(x, f.last), d, l) /\ Head(c.back) = x
  <2>1. x = c.lastc[2] /\ Above(x, l) /\ Above(c.lastc[1], l) /\ c.back = <<x, c.lastc[1]>>
    BY <1>7, <1>10 DEF UngotRight, x
  <2>2. y = <<c.lastc[1]>> /\ Head(c.back) = x
    BY <2>1, TwoBack DEF y
  <2>3. UngotRight(d, l)
    BY <1>6, <1>10, <2>1, <2>2 DEF UngotRight
  <2>4. LastRight(Recent(x, f.last), d, l)
    <3>1. d.unget = 1 /\ d.lastc[2] = x
      BY <1>6, <1>10, <2>1
    <3> QED BY <1>1, <1>7, <2>1, <3>1, ReadKeepsLast
  <2> QED BY <2>2, <2>3, <2>4
<1>11. UngotRight(d, l) /\ LastRight(Recent(x, f.last), d, l) /\ Head(c.back) = x
  BY <1>8, <1>9, <1>10
<1>12. ContextShape(d)
  <2>1. d.unget \in 0..2
    BY <1>6, <1>8
  <2> QED BY <1>6, <1>7, <2>1, EmptyIs DEF ContextShape
<1>13. g.ctx = d /\ g.strs = f.strs /\ g.last = Recent(x, f.last)
  <2> DEFINE z == Recent(x, f.last)
  <2>1. g = FileOf(d, f.strs, z)
    BY <1>5
  <2> HIDE DEF z
  <2>2. g.ctx = d /\ g.strs = f.strs /\ g.last = z
    BY <2>1 DEF FileOf
  <2> QED BY <2>2 DEF z
<1>14. FileRight(g)
  BY <1>5, <1>7, <1>11, <1>12, <1>13 DEF FileRight, ContextRight, l
<1>15. Head(g.last) = x
  BY <1>7, <1>13, RecentIs DEF LastRight
<1> QED BY <1>6, <1>11, <1>13, <1>14, <1>15 DEF c

LEMMA ReadIs ==
  ASSUME NEW q, NEW d, NEW strs, NEW last, NEW x, q.file = FileOf(d, strs, last), q.c = x,
         NEW g, g = Recorded(q)
  PROVE  /\ g = FileOf(d, strs, Recent(x, last))
         /\ g.ctx = d /\ g.strs = strs /\ g.last = Recent(x, last)
<1> DEFINE z == Recent(x, last)
<1>1. q.file.last = last
  BY FileFields
<1>2. g = [q.file EXCEPT !.last = z]
  BY <1>1 DEF Recorded
<1> HIDE DEF z
<1>3. [q.file EXCEPT !.last = z] = FileOf(d, strs, z)
  BY DEF FileOf
<1>4. g = FileOf(d, strs, z)
  BY <1>2, <1>3
<1>5. g.ctx = d /\ g.strs = strs /\ g.last = z
  BY <1>4 DEF FileOf
<1> QED BY <1>4, <1>5 DEF z

LEMMA FileMade ==
  ASSUME NEW g, NEW d, NEW strs, NEW last, g = FileOf(d, strs, last),
         ContextRight(d, Len(strs)), TextsRight(strs), LastRight(last, d, Len(strs))
  PROVE  FileRight(g)
<1>1. g.ctx = d /\ g.strs = strs /\ g.last = last
  BY FileFields
<1> QED BY <1>1 DEF FileRight

\* The texts done are freed first.
LEMMA WithoutDone ==
  ASSUME NEW f, FileRight(f), NEW c, c = f.ctx
  PROVE  DoneFreed(f)
           = FileOf(ContextOf(c.len, c.pos, c.unget, c.lastc, c.back, <<>>), f.strs, f.last)
<1>1. /\ c = ContextOf(c.len, c.pos, c.unget, c.lastc, c.back, c.spfree)
      /\ f = FileOf(c, f.strs, f.last)
  BY FileIs
<1> QED BY <1>1 DEF FileOf, ContextOf, DoneFreed

\* A context in which x was read and nothing is given back.
LEMMA ContextMade ==
  ASSUME NEW len \in Nat, NEW pos \in Nat, pos <= len, NEW x, NEW y, NEW spfree, IsSeq(spfree),
         NEW l, NEW d, d = ContextOf(len, pos, 0, <<x, y>>, <<>>, spfree)
  PROVE  /\ ContextRight(d, l) /\ d.unget = 0 /\ d.lastc[1] = x /\ d.lastc[2] = y
         /\ d.spfree = spfree
<1>1. /\ d.len = len /\ d.pos = pos /\ d.unget = 0 /\ d.lastc = <<x, y>> /\ d.back = <<>>
      /\ d.spfree = spfree
  BY ContextFields
<1>2. d = ContextOf(d.len, d.pos, d.unget, d.lastc, d.back, d.spfree)
  BY <1>1
<1>3. d.unget \in 0..2
  BY <1>1
<1>4. ContextShape(d)
  BY <1>1, <1>2, <1>3 DEF ContextShape
<1>5. UngotRight(d, l)
  BY <1>1 DEF UngotRight
<1> QED BY <1>1, <1>4, <1>5 DEF ContextRight

\* Of the innermost text, or nothing of a file at its end.
LEMMA NextKeeps ==
  ASSUME NEW f, FileRight(f), f.ctx.unget = 0, NEW g, NEW atend \in BOOLEAN,
         IF atend THEN f.strs = <<>> ELSE f.ctx.pos < f.ctx.len,
         g = Recorded(IF atend THEN Enters(DoneFreed(f), PEOF) ELSE NextChar(DoneFreed(f)))
  PROVE  FileRight(g) /\ g.strs = f.strs /\ g.ctx.spfree = <<>>
<1> DEFINE c == f.ctx
           l == Len(f.strs)
           h == DoneFreed(f)
           q == IF atend THEN Enters(h, PEOF) ELSE NextChar(h)
           x == IF atend THEN PEOF ELSE <<Len(parsefiles), l, c.pos + 1>>
           p == IF atend THEN c.pos ELSE c.pos + 1
           y == c.lastc[1]
           d == ContextOf(c.len, p, 0, <<x, y>>, <<>>, <<>>)
<1>1. /\ l \in Nat /\ (f.strs = <<>> => l = 0) /\ ContextShape(c) /\ UngotRight(c, l)
      /\ LastRight(f.last, c, l) /\ TextsRight(f.strs)
  BY FileIs DEF FileRight, ContextRight
<1>2. c.unget = 0 /\ c.back = <<>>
  BY <1>1 DEF UngotRight
<1>3. h = FileOf(ContextOf(c.len, c.pos, 0, c.lastc, <<>>, <<>>), f.strs, f.last)
  BY <1>2, WithoutDone
<1>4. Above(x, l) /\ (atend => x = PEOF) /\ (~atend => x = <<Len(parsefiles), l, c.pos + 1>>)
  BY <1>1 DEF Above, PEOF
<1>5. g = Recorded(q)
  OBVIOUS
<1> HIDE DEF h
<1>6. q.file = FileOf(d, f.strs, f.last) /\ q.c = x
  <2> DEFINE len == c.len
             pos == c.pos
             lastc == c.lastc
             e == ContextOf(len, pos, 0, lastc, <<>>, <<>>)
  <2>1. h = FileOf(e, f.strs, f.last) /\ y = lastc[1]
    BY <1>3
  <2>2. d = ContextOf(len, p, 0, <<x, y>>, <<>>, <<>>)
    OBVIOUS
  <2>3. /\ atend => q = Enters(h, PEOF) /\ p = pos
        /\ ~atend => q = NextChar(h) /\ p = pos + 1 /\ x = <<Len(parsefiles), Len(f.strs), pos + 1>>
    BY <1>4
  <2> HIDE DEF len, pos, lastc, c, q, x, p, y, l, d
  <2> DEFINE none == <<>>
  <2>6. e = ContextOf(len, pos, 0, lastc, none, none)
    OBVIOUS
  <2>7. d = ContextOf(len, p, 0, <<x, y>>, none, none)
    BY <2>2
  <2> HIDE DEF e, none
  <2>4. CASE atend
    <3>1. /\ Enters(h, PEOF).file
               = FileOf(ContextOf(len, pos, 0, <<PEOF, lastc[1]>>, none, none), f.strs, f.last)
          /\ Enters(h, PEOF).c = PEOF
      BY <2>1, <2>6, EntersIs
    <3> QED BY <1>4, <2>1, <2>7, <2>3, <2>4, <3>1
  <2>5. CASE ~atend
    <3>1. x = <<Len(parsefiles), Len(f.strs), pos + 1>>
      BY <2>3, <2>5
    <3>2. /\ NextChar(h).file
               = FileOf(ContextOf(len, pos + 1, 0, <<x, lastc[1]>>, none, none), f.strs, f.last)
          /\ NextChar(h).c = x
      BY <2>1, <2>6, <3>1, NextCharIs
    <3> QED BY <2>1, <2>7, <2>3, <2>5, <3>2
  <2> QED BY <2>4, <2>5
<1>7. /\ p \in Nat /\ p <= c.len /\ c.len \in Nat
  BY <1>1 DEF ContextShape
<1> HIDE DEF c, q, x, p, y, l
<1>8. /\ ContextRight(d, l) /\ d.unget = 0 /\ d.lastc[1] = x /\ d.lastc[2] = y
      /\ d.spfree = <<>>
  <2> DEFINE len == c.len
  <2>1. d = ContextOf(len, p, 0, <<x, y>>, <<>>, <<>>) /\ len \in Nat /\ p \in Nat /\ p <= len
    BY <1>7
  <2> DEFINE none == <<>>
  <2>2. IsSeq(none) /\ d = ContextOf(len, p, 0, <<x, y>>, <<>>, none)
    BY <2>1, EmptyIs
  <2> HIDE DEF len, d, none
  <2>3. ASSUME NEW e, e = ContextOf(len, p, 0, <<x, y>>, <<>>, none)
        PROVE  /\ ContextRight(e, l) /\ e.unget = 0 /\ e.lastc[1] = x /\ e.lastc[2] = y
               /\ e.spfree = none
    BY <2>1, <2>2, <2>3, ContextMade
  <2> QED BY <2>2, <2>3 DEF none
<1> HIDE DEF d
<1>9. g = FileOf(d, f.strs, Recent(x, f.last)) /\ g.ctx = d /\ g.strs = f.strs
  BY <1>5, <1>6, ReadIs
<1>10. LastRight(Recent(x, f.last), d, l)
  <2>1. Len(f.last) >= 1 => f.last[1] = y
    BY <1>1, <1>2 DEF LastRight, y
  <2> QED BY <1>1, <1>4, <1>8, <2>1, ReadKeepsLast
<1>11. FileRight(g)
  BY <1>1, <1>8, <1>9, <1>10, FileMade DEF l
<1> QED BY <1>8, <1>9, <1>11

\* Of the text below, when the innermost is done.
LEMMA PopKeeps ==
  ASSUME NEW f, FileRight(f), TextDone(f), NEW g,
         LET h == popstring(DoneFreed(f))
             q == IF h.ctx.unget > 0 THEN Ungot(h) ELSE NextChar(h)
         IN g = Recorded(Enters(q.file, q.c))
  PROVE  /\ FileRight(g) /\ g.strs = Front(f.strs)
         /\ g.ctx.spfree = <<Last(f.strs)>> \o Last(f.strs).ctx.spfree
         /\ Last(f.strs).ctx.unget > 0 => Head(g.last) = Head(Last(f.strs).ctx.back)
<1> DEFINE sp == Last(f.strs)
           b == sp.ctx
           l == Len(f.strs)
           done == <<sp>> \o b.spfree
           below == Front(f.strs)
           h == popstring(DoneFreed(f))
           q == IF h.ctx.unget > 0 THEN Ungot(h) ELSE NextChar(h)
           r == Enters(q.file, q.c)
           x == IF b.unget = 1 THEN b.lastc[1] ELSE <<Len(parsefiles), l - 1, b.pos + 1>>
           p == IF b.unget = 1 THEN b.pos ELSE b.pos + 1
           d == ContextOf(b.len, p, 0, <<x, x>>, <<>>, done)
<1>1. /\ IsSeq(f.strs) /\ f.strs # <<>> /\ LastRight(f.last, f.ctx, l)
      /\ TextsRight(f.strs)
  BY DEF FileRight, TextsRight, TextDone
<1>2. /\ IsSeq(below) /\ Len(below) = l - 1 /\ l \in Nat \ {0} /\ sp = f.strs[l]
      /\ \A k \in 1..(l - 1) : below[k] = f.strs[k]
  BY <1>1, FrontIs
<1>3. TextRight(sp, l - 1) /\ TextsRight(below)
  <2>1. \A k \in 1..l : TextRight(f.strs[k], k - 1)
    BY <1>1 DEF TextsRight
  <2>2. l \in 1..l
    BY <1>2
  <2>3. TextRight(sp, l - 1)
    BY <1>2, <2>1, <2>2
  <2> HIDE DEF below, l, sp
  <2>4. ASSUME NEW k \in 1..(l - 1) PROVE TextRight(below[k], k - 1)
    <3>1. k \in 1..l
      BY <1>2
    <3> QED BY <1>2, <2>1, <3>1
  <2> QED BY <1>2, <2>3, <2>4 DEF TextsRight
<1>4. /\ ContextShape(b) /\ UngotRight(b, l - 1)
      /\ b.unget = 1 \/ (b.unget = 0 /\ b.pos < b.len)
  BY <1>3 DEF TextRight, ContextRight
<1>5. /\ b.unget = 1 => b.back = <<b.lastc[1]>> /\ Above(b.lastc[1], l - 1)
      /\ b.unget = 0 => b.back = <<>>
  BY <1>4 DEF UngotRight
<1>6. IsSeq(done)
  BY <1>4, HeadedIs DEF ContextShape
<1>7. h = FileOf(ContextOf(b.len, b.pos, b.unget, b.lastc, b.back, done), below, f.last)
  <2> DEFINE e == DoneFreed(f)
             c == f.ctx
  <2>1. e = FileOf(ContextOf(c.len, c.pos, c.unget, c.lastc, c.back, <<>>), f.strs, f.last)
    BY WithoutDone
  <2>2. b = ContextOf(b.len, b.pos, b.unget, b.lastc, b.back, b.spfree)
    BY <1>4 DEF ContextShape
  <2> HIDE DEF e, c, b
  <2>3. Last(f.strs).ctx = b
    BY DEF b
  <2>4. popstring(e)
          = FileOf(ContextOf(b.len, b.pos, b.unget, b.lastc, b.back, <<Last(f.strs)>> \o b.spfree),
                   Front(f.strs), f.last)
    BY <2>1, <2>2, <2>3, popstringIs
  <2> QED BY <2>4 DEF e
<1>8. g = Recorded(r)
  OBVIOUS
<1>9. h.ctx.unget = b.unget
  <2> HIDE DEF b, h, done, below
  <2> QED BY <1>7, ContextFields, FileFields
<1> HIDE DEF h
<1>10. /\ q.file = FileOf(ContextOf(b.len, p, 0, IF b.unget = 1 THEN b.lastc ELSE <<x, b.lastc[1]>>,
                                    <<>>, done), below, f.last)
       /\ q.c = x /\ (b.unget = 1 => x = b.lastc[1])
  <2>1. CASE b.unget = 1
    <3>1. q = Ungot(h)
      BY <1>9, <2>1
    <3> DEFINE back == b.back
               lastc == b.lastc
               len == b.len
               pos == b.pos
    <3>2. h = FileOf(ContextOf(len, pos, 1, lastc, back, done), below, f.last)
      BY <1>7, <2>1
    <3>3. Tail(back) = <<>> /\ p = pos /\ x = lastc[1]
      BY <1>5, <2>1, OneBack
    <3> HIDE DEF back, lastc, len, pos, b, p, x, q, done, below
    <3>4. /\ Ungot(h).file = FileOf(ContextOf(len, pos, 1 - 1, lastc, Tail(back), done), below, f.last)
          /\ Ungot(h).c = lastc[1]
      BY <3>2, UngotIs
    <3>5. 1 - 1 = 0
      OBVIOUS
    <3>6. q.file = FileOf(ContextOf(len, p, 0, lastc, <<>>, done), below, f.last) /\ q.c = x
      BY <3>1, <3>3, <3>4, <3>5
    <3> QED BY <2>1, <3>3, <3>6 DEF len, lastc
  <2>2. CASE b.unget = 0
    <3>1. q = NextChar(h)
      BY <1>9, <2>2
    <3> DEFINE lastc == b.lastc
               len == b.len
               pos == b.pos
               z == <<Len(parsefiles), Len(below), pos + 1>>
    <3>2. h = FileOf(ContextOf(len, pos, 0, lastc, <<>>, done), below, f.last)
      BY <1>5, <1>7, <2>2
    <3>3. p = pos + 1 /\ x = z
      BY <1>2, <2>2
    <3> HIDE DEF lastc, len, pos, b, p, x, q, done, below
    <3>4. x = <<Len(parsefiles), Len(below), pos + 1>>
      BY <3>3
    <3>6. /\ NextChar(h).file
               = FileOf(ContextOf(len, pos + 1, 0, <<x, lastc[1]>>, <<>>, done), below, f.last)
          /\ NextChar(h).c = x
      <4> DEFINE e == ContextOf(len, pos, 0, lastc, <<>>, done)
      <4>1. h = FileOf(e, below, f.last)
        BY <3>2
      <4> QED BY <3>4, <4>1, NextCharIs
    <3>5. /\ q.file = FileOf(ContextOf(len, p, 0, <<x, lastc[1]>>, <<>>, done), below, f.last)
          /\ q.c = x
      BY <3>1, <3>3, <3>6
    <3> QED BY <2>2, <3>5 DEF len, lastc
  <2> QED BY <1>4, <2>1, <2>2
<1>11. /\ p \in Nat /\ p <= b.len /\ b.len \in Nat /\ Above(x, l - 1)
       /\ b.unget > 0 => x = Head(b.back)
  <2>1. p \in Nat /\ p <= b.len /\ b.len \in Nat
    BY <1>4 DEF ContextShape
  <2>2. Above(x, l - 1)
    <3>1. CASE b.unget = 1
      BY <1>5, <3>1
    <3>2. CASE b.unget = 0
      <4>1. x = <<Len(parsefiles), l - 1, b.pos + 1>>
        BY <3>2
      <4>2. l - 1 \in Nat
        BY <1>2
      <4> QED BY <4>1, <4>2 DEF Above
    <3> QED BY <1>4, <3>1, <3>2
  <2>3. b.unget > 0 => x = Head(b.back)
    <3>1. SUFFICES ASSUME b.unget > 0 PROVE x = Head(b.back)
      OBVIOUS
    <3>2. b.unget = 1
      BY <1>4, <3>1
    <3> QED BY <1>5, <1>10, <3>2, OneBack
  <2> QED BY <2>1, <2>2, <2>3
<1> DEFINE u == IF b.unget = 1 THEN b.lastc ELSE <<x, b.lastc[1]>>
<1>12. u[1] = x
  BY <1>10
<1> HIDE DEF q, x, p, l, done, below, u, b, sp
<1>13. r.file = FileOf(d, below, f.last) /\ r.c = x
  <2> DEFINE i == q.file
             len == b.len
  <2>1. i = FileOf(ContextOf(len, p, 0, u, <<>>, done), below, f.last) /\ q.c = x
    BY <1>10 DEF u
  <2>2. r = Enters(i, x)
    BY <2>1
  <2> HIDE DEF i, r, len, d
  <2>3. /\ Enters(i, x).file
             = FileOf(ContextOf(len, p, 0, <<x, u[1]>>, <<>>, done), below, f.last)
        /\ Enters(i, x).c = x
    BY <2>1, EntersIs
  <2> QED BY <1>12, <2>2, <2>3 DEF d, len
<1>14. /\ ContextRight(d, l - 1) /\ d.unget = 0 /\ d.lastc[1] = x /\ d.spfree = done
  <2> DEFINE len == b.len
  <2>1. d = ContextOf(len, p, 0, <<x, x>>, <<>>, done) /\ len \in Nat /\ p \in Nat /\ p <= len
    BY <1>11
  <2> HIDE DEF len, d
  <2> QED BY <1>6, <2>1, ContextMade
<1> HIDE DEF d, r
<1>15. /\ g = FileOf(d, below, Recent(x, f.last)) /\ g.ctx = d /\ g.strs = below
       /\ g.last = Recent(x, f.last)
  BY <1>8, <1>13, ReadIs
<1>16. LastRight(Recent(x, f.last), d, l - 1)
  BY <1>1, <1>2, <1>11, <1>14, ReadBelowKeepsLast
<1>17. FileRight(g)
  <2>1. Len(below) = l - 1
    BY <1>2
  <2> QED BY <1>3, <1>14, <1>15, <1>16, <2>1, FileMade
<1>18. Head(g.last) = x
  BY <1>1, <1>15, RecentIs DEF LastRight
<1> QED BY <1>11, <1>14, <1>15, <1>17, <1>18 DEF done, below, b, sp

\* Reading, whichever way it goes: what it does to the texts, and what is read.
LEMMA ReadKeeps ==
  ASSUME NEW f, FileRight(f), NEW g, g = Recorded(Got(DoneFreed(f)))
  PROVE  /\ FileRight(g)
         /\ ~TextDone(f) => g.strs = f.strs /\ g.ctx.spfree = <<>>
         /\ TextDone(f) => /\ g.strs = Front(f.strs)
                           /\ g.ctx.spfree = <<Last(f.strs)>> \o Last(f.strs).ctx.spfree
         /\ ReadNext(f).unget > 0 => Head(g.last) = Head(ReadNext(f).back)
<1> DEFINE c == f.ctx
           h == DoneFreed(f)
           below == popstring(h)
           q == IF below.ctx.unget > 0 THEN Ungot(below) ELSE NextChar(below)
<1>1. ContextShape(c)
  BY DEF FileRight, ContextRight
<1>2. c.unget \in 0..2 /\ c.pos \in Nat /\ c.len \in Nat /\ c.pos <= c.len
  BY <1>1 DEF ContextShape
<1>3. h.ctx.unget = c.unget /\ h.ctx.pos = c.pos /\ h.ctx.len = c.len /\ h.strs = f.strs
  <2> DEFINE d == ContextOf(c.len, c.pos, c.unget, c.lastc, c.back, <<>>)
  <2>1. h = FileOf(d, f.strs, f.last)
    BY WithoutDone
  <2>2. d.unget = c.unget /\ d.pos = c.pos /\ d.len = c.len
    BY DEF ContextOf
  <2> HIDE DEF d, h
  <2>3. h.ctx = d /\ h.strs = f.strs
    BY <2>1, FileFields
  <2> QED BY <2>2, <2>3
<1>4. TextDone(h) <=> TextDone(f)
  BY <1>3 DEF TextDone
<1>5. Got(h) = CASE c.unget > 0 -> Ungot(h)
                 [] c.unget = 0 /\ c.pos < c.len -> NextChar(h)
                 [] TextDone(f) -> Enters(q.file, q.c)
                 [] OTHER -> Enters(h, PEOF)
  BY <1>3, <1>4 DEF Got
<1> HIDE DEF h, below, q
<1>6. CASE c.unget > 0
  <2>1. g = Recorded(Ungot(h)) /\ c.unget # 0
    <3>1. ~(c.unget = 0 /\ c.pos < c.len) /\ ~TextDone(f)
      BY <1>2, <1>6 DEF TextDone
    <3>2. Got(h) = Ungot(h)
      BY <1>5, <1>6, <3>1
    <3> QED BY <1>2, <1>6, <3>2 DEF h
  <2>2. ~TextDone(f) /\ ReadNext(f) = c
    BY <1>2, <1>6 DEF TextDone, ReadNext
  <2>3. FileRight(g) /\ Head(g.last) = Head(c.back) /\ g.strs = f.strs /\ g.ctx.spfree = <<>>
    BY <2>1, UngotKeeps DEF h
  <2> QED BY <2>2, <2>3
<1>7. CASE c.unget = 0 /\ c.pos < c.len
  <2> DEFINE atend == FALSE
  <2>1. ~(c.unget > 0) /\ ~TextDone(f)
    BY <1>2, <1>7 DEF TextDone
  <2>2. Got(h) = NextChar(h)
    BY <1>5, <1>7, <2>1
  <2>3. g = Recorded(IF atend THEN Enters(DoneFreed(f), PEOF) ELSE NextChar(DoneFreed(f)))
    BY <2>2 DEF h
  <2>4. atend \in BOOLEAN /\ IF atend THEN f.strs = <<>> ELSE f.ctx.pos < f.ctx.len
    BY <1>7
  <2>5. f.ctx.unget = 0
    BY <1>7
  <2>6. FileRight(g) /\ g.strs = f.strs /\ g.ctx.spfree = <<>>
    <3> HIDE DEF atend
    <3> QED BY <2>3, <2>4, <2>5, NextKeeps
  <2>7. ReadNext(f) = c
    BY <2>1 DEF ReadNext
  <2> QED BY <1>7, <2>1, <2>6, <2>7
<1>8. CASE TextDone(f)
  <2>1. ~(c.unget > 0) /\ ~(c.unget = 0 /\ c.pos < c.len)
    BY <1>2, <1>8 DEF TextDone
  <2>2. Got(h) = Enters(q.file, q.c)
    BY <1>5, <1>8, <2>1
  <2>3. LET e == popstring(DoneFreed(f))
            r == IF e.ctx.unget > 0 THEN Ungot(e) ELSE NextChar(e)
        IN g = Recorded(Enters(r.file, r.c))
    BY <2>2 DEF h, q, below
  <2>4. ReadNext(f) = Last(f.strs).ctx
    BY <1>8 DEF ReadNext
  <2> QED BY <1>8, <2>3, <2>4, PopKeeps
<1>9. CASE c.unget = 0 /\ ~(c.pos < c.len) /\ ~TextDone(f)
  <2> DEFINE atend == TRUE
  <2>1. Got(h) = Enters(h, PEOF)
    BY <1>2, <1>5, <1>9
  <2>2. c.pos = c.len
    BY <1>2, <1>9
  <2>3. f.strs = <<>>
    BY <1>9, <2>2 DEF TextDone
  <2>4. g = Recorded(IF atend THEN Enters(DoneFreed(f), PEOF) ELSE NextChar(DoneFreed(f)))
    BY <2>1 DEF h
  <2>5. atend \in BOOLEAN /\ IF atend THEN f.strs = <<>> ELSE f.ctx.pos < f.ctx.len
    BY <2>3
  <2>6. f.ctx.unget = 0
    BY <1>9
  <2>7. FileRight(g) /\ g.strs = f.strs /\ g.ctx.spfree = <<>>
    <3> HIDE DEF atend
    <3> QED BY <2>4, <2>5, <2>6, NextKeeps
  <2>8. ReadNext(f) = c
    BY <1>9 DEF ReadNext
  <2> QED BY <1>9, <2>7, <2>8
<1> QED BY <1>2, <1>6, <1>7, <1>8, <1>9

\* Giving one back: what becomes of the context, and of the file.
LEMMA GivenBack ==
  ASSUME NEW l \in Nat, NEW c, ContextShape(c), UngotRight(c, l),
         NEW last, LastRight(last, c, l), NEW x, Len(last) >= 1, x = last[1], c.unget < 2,
         c.unget = 1 => x[2] = l /\ c.back[1][2] = l,
         NEW t, IsSeq(t), Len(t) = Len(last) - 1, Len(t) >= 1 => t[1] = last[2],
         NEW d, d.len = c.len, d.pos = c.pos, d.unget = c.unget + 1, d.lastc = c.lastc,
         d.back = <<x>> \o c.back, d.spfree = c.spfree,
         d = ContextOf(d.len, d.pos, d.unget, d.lastc, d.back, d.spfree)
  PROVE  ContextRight(d, l) /\ LastRight(t, d, l)
<1>1. Len(last) \in {1, 2} /\ Above(x, l) /\ (Len(last) = 2 => Above(last[2], l))
  BY DEF LastRight
<1>2. c.unget \in {0, 1} /\ c.len \in Nat /\ c.pos \in Nat /\ c.pos <= c.len /\ IsSeq(c.spfree)
  BY DEF ContextShape
<1>3. d.unget \in 0..2
  BY <1>2
<1>4. ContextShape(d)
  BY <1>2, <1>3 DEF ContextShape
<1>5. Len(t) \in 0..1 /\ (Len(t) = 1 => t[1] = last[2] /\ Above(t[1], l))
  BY <1>1
<1>6. CASE c.unget = 0
  <2>1. x = c.lastc[1] /\ d.unget = 1
    BY <1>6 DEF LastRight
  <2>2. d.back = <<x>>
    BY <1>6, OneBack DEF UngotRight
  <2>3. UngotRight(d, l)
    <3>1. d.back = <<d.lastc[1]>> /\ Above(d.lastc[1], l)
      BY <1>1, <2>1, <2>2
    <3>2. d.unget # 0 /\ d.unget # 2
      BY <2>1
    <3> QED BY <3>1, <3>2 DEF UngotRight
  <2>4. Len(t) >= 1 /\ t[1][2] = l /\ d.lastc[1][2] = l => t[1] = d.lastc[2]
    <3>1. SUFFICES ASSUME Len(t) >= 1, t[1][2] = l, d.lastc[1][2] = l PROVE t[1] = d.lastc[2]
      OBVIOUS
    <3>2. Len(last) = 2 /\ last[1][2] = l /\ last[2][2] = l
      BY <1>1, <1>5, <2>1, <3>1
    <3>3. last[2] = c.lastc[2]
      BY <1>6, <3>2 DEF LastRight
    <3> QED BY <3>1, <3>3
  <2> QED BY <1>4, <1>5, <2>1, <2>3, <2>4 DEF LastRight, ContextRight
<1>7. CASE c.unget = 1
  <2>1. c.back = <<c.lastc[1]>> /\ Above(c.lastc[1], l)
    BY <1>7 DEF UngotRight
  <2>2. x[2] = l /\ c.lastc[1][2] = l
    BY <1>7, <2>1
  <2>3. x = c.lastc[2]
    BY <1>7, <2>2 DEF LastRight
  <2>4. d.back = <<c.lastc[2], c.lastc[1]>> /\ d.unget = 2
    BY <1>7, <2>1, <2>3, TwoBack
  <2>5. UngotRight(d, l)
    <3>1. /\ d.back = <<d.lastc[2], d.lastc[1]>>
          /\ Above(d.lastc[1], l) /\ Above(d.lastc[2], l)
      BY <1>1, <2>1, <2>3, <2>4
    <3>2. d.unget # 0 /\ d.unget # 1
      BY <2>4
    <3> QED BY <3>1, <3>2 DEF UngotRight
  <2> QED BY <1>4, <1>5, <2>4, <2>5 DEF LastRight, ContextRight
<1> QED BY <1>2, <1>6, <1>7

LEMMA pungetcKeeps ==
  ASSUME NEW f, FileRight(f), f.last # <<>>, f.ctx.unget < 2,
         f.ctx.unget = 1 =>
           Head(f.last)[2] = Len(f.strs) /\ f.ctx.back[1][2] = Len(f.strs),
         NEW g, g = Reads(f, GivesBack(f.ctx, f.ctx.unget + 1, <<Head(f.last)>> \o f.ctx.back),
                          Tail(f.last))
  PROVE  FileRight(g) /\ g.strs = f.strs /\ g.ctx.spfree = f.ctx.spfree
<1>1. PICK c : c = f.ctx
  OBVIOUS
<1>2. PICK l : l = Len(f.strs)
  OBVIOUS
<1>3. PICK x : x = Head(f.last)
  OBVIOUS
<1>4. PICK t : t = Tail(f.last)
  OBVIOUS
<1>5. PICK y : y = <<x>> \o c.back
  OBVIOUS
<1>6. PICK v : v = c.unget + 1
  OBVIOUS
<1>7. PICK d : d = GivesBack(c, v, y)
  OBVIOUS
<1>8. /\ c = ContextOf(c.len, c.pos, c.unget, c.lastc, c.back, c.spfree)
      /\ f = FileOf(c, f.strs, f.last) /\ l \in Nat
  BY <1>1, <1>2, FileIs
<1>9. g = Reads(f, d, t)
  BY <1>1, <1>3, <1>4, <1>5, <1>6, <1>7
<1>10. g = FileOf(d, f.strs, t)
  BY <1>8, <1>9, FileChanged
<1>11. d = ContextOf(c.len, c.pos, v, c.lastc, y, c.spfree)
  <2>1. \A p : /\ GivesBack(c, v, y) = ContextOf(c.len, c.pos, v, c.lastc, y, c.spfree)
               /\ Forgets(c, p, v, y) = ContextOf(c.len, p, v, c.lastc, y, c.spfree)
    BY <1>8, ContextChanged
  <2> QED BY <1>7, <2>1
<1>12. /\ d.len = c.len /\ d.pos = c.pos /\ d.unget = v /\ d.lastc = c.lastc
       /\ d.back = y /\ d.spfree = c.spfree
  BY <1>11, ContextFields
<1>13. d = ContextOf(d.len, d.pos, d.unget, d.lastc, d.back, d.spfree)
  BY <1>11, <1>12
<1>14. ContextShape(c) /\ UngotRight(c, l) /\ LastRight(f.last, c, l) /\ TextsRight(f.strs)
  BY <1>1, <1>2 DEF FileRight, ContextRight
<1>15. /\ IsSeq(t) /\ Len(t) = Len(f.last) - 1 /\ Len(f.last) \in Nat \ {0} /\ x = f.last[1]
       /\ Len(t) >= 1 => t[1] = f.last[2]
  <2>1. IsSeq(f.last)
    BY <1>14 DEF LastRight
  <2>2. /\ IsSeq(t) /\ Len(t) = Len(f.last) - 1 /\ Len(f.last) \in Nat \ {0} /\ x = f.last[1]
        /\ \A k \in 1..(Len(f.last) - 1) : t[k] = f.last[k + 1]
    BY <1>3, <1>4, <2>1, TailIs
  <2> QED BY <2>2
<1>16. c.unget < 2 /\ (c.unget = 1 => x[2] = l /\ c.back[1][2] = l)
  BY <1>1, <1>2, <1>3
<1>17. Len(f.last) >= 1
  BY <1>15
<1>18. ContextRight(d, l) /\ LastRight(t, d, l)
  BY <1>5, <1>6, <1>8, <1>12, <1>13, <1>14, <1>15, <1>16, <1>17, GivenBack
<1>19. FileRight(g)
  BY <1>2, <1>10, <1>14, <1>18, FileMade
<1> QED BY <1>1, <1>10, <1>12, <1>19, FileFields

\* A new context with what was read before.
LEMMA ContextNew ==
  ASSUME NEW len \in Nat, NEW lastc, NEW l
  PROVE  ContextRight(Context(len, lastc), l) /\ Context(len, lastc).spfree = <<>>
<1> DEFINE d == Context(len, lastc)
<1>1. d = ContextOf(len, 0, 0, lastc, <<>>, <<>>)
  BY DEF Context, ContextOf
<1> HIDE DEF d
<1>2. /\ d.len = len /\ d.pos = 0 /\ d.unget = 0 /\ d.back = <<>> /\ d.spfree = <<>>
      /\ d.lastc = lastc
  BY <1>1, ContextFields
<1>3. d = ContextOf(d.len, d.pos, d.unget, d.lastc, d.back, d.spfree)
  BY <1>1, <1>2
<1> QED BY <1>2, <1>3, EmptyIs DEF d, ContextRight, ContextShape, UngotRight

LEMMA NothingRead == ASSUME NEW c, NEW l PROVE LastRight(<<>>, c, l)
<1>1. IsSeq(<<>>) /\ Len(<<>>) = 0
  BY EmptyIs
<1> QED BY <1>1 DEF LastRight

LEMMA NewFileIs == FileRight(NewFile) /\ NewFile.strs = <<>> /\ NewFile.ctx.spfree = <<>>
<1> DEFINE d == Context(LineLength, <<PEOF, PEOF>>)
<1>1. LineLength \in Nat
  BY InputAssumption
<1>2. ContextRight(d, 0) /\ d.spfree = <<>>
  BY <1>1, ContextNew
<1> HIDE DEF d
<1>3. NewFile = FileOf(d, <<>>, <<>>)
  BY DEF NewFile, FileOf, d
<1>4. TextsRight(<<>>) /\ Len(<<>>) = 0
  BY EmptyIs DEF TextsRight
<1>5. FileRight(NewFile)
  BY <1>2, <1>3, <1>4, NothingRead, FileMade
<1> QED BY <1>2, <1>3, <1>5, FileFields

LEMMA pushstringKeeps ==
  ASSUME NEW f, FileRight(f), f.ctx.unget = 1 \/ (f.ctx.unget = 0 /\ f.ctx.pos < f.ctx.len),
         NEW len \in Nat, NEW ap, NEW string, NEW sp,
         sp = [ap |-> ap, string |-> string, ctx |-> f.ctx],
         NEW g, g = FileOf(Context(len, f.ctx.lastc), Append(f.strs, sp), <<>>)
  PROVE  FileRight(g) /\ g.strs = Append(f.strs, sp) /\ g.ctx.spfree = <<>>
<1> DEFINE d == Context(len, f.ctx.lastc)
           strs == Append(f.strs, sp)
           l == Len(f.strs)
<1>1. ContextRight(d, Len(strs)) /\ d.spfree = <<>>
  BY ContextNew
<1>2. /\ IsSeq(f.strs) /\ (\A k \in 1..l : TextRight(f.strs[k], k - 1)) /\ ContextRight(f.ctx, l)
  BY DEF FileRight, TextsRight
<1>3. /\ IsSeq(strs) /\ Len(strs) = l + 1 /\ l \in Nat /\ strs[l + 1] = sp
      /\ \A k \in 1..l : strs[k] = f.strs[k]
  BY <1>2, AppendedIs
<1>4. sp.ap = ap /\ sp.string = string /\ sp.ctx = f.ctx
  OBVIOUS
<1>5. sp = [ap |-> sp.ap, string |-> sp.string, ctx |-> sp.ctx]
  BY <1>4
<1>6. TextRight(sp, l)
  BY <1>2, <1>4, <1>5 DEF TextRight
<1> HIDE DEF d, strs, l
<1>7. ASSUME NEW k \in 1..Len(strs) PROVE TextRight(strs[k], k - 1)
  <2>1. CASE k \in 1..l
    BY <1>2, <1>3, <2>1
  <2>2. CASE k = l + 1
    <3>1. k - 1 = l
      BY <1>3, <2>2
    <3> QED BY <1>3, <1>6, <2>2, <3>1
  <2> QED BY <1>3, <2>1, <2>2
<1>8. TextsRight(strs)
  BY <1>3, <1>7 DEF TextsRight
<1>9. g = FileOf(d, strs, <<>>)
  BY DEF d, strs
<1>10. FileRight(g)
  BY <1>1, <1>8, <1>9, NothingRead, FileMade
<1>11. g.ctx = d /\ g.strs = strs
  BY <1>9, FileFields
<1> QED BY <1>1, <1>10, <1>11 DEF strs

\* A file of which nothing was read last, and one whose line is forgotten.
LEMMA ForgetsKeeps ==
  ASSUME NEW f, FileRight(f), NEW g
  PROVE  /\ g = [f EXCEPT !.last = <<>>] =>
              FileRight(g) /\ g.strs = f.strs /\ g.ctx = f.ctx
         /\ g = Reads(f, Forgets(f.ctx, f.ctx.len, 0, <<>>), <<>>) =>
              FileRight(g) /\ g.strs = f.strs /\ g.ctx.spfree = f.ctx.spfree
<1> DEFINE c == f.ctx
           l == Len(f.strs)
           d == ContextOf(c.len, c.len, 0, c.lastc, <<>>, c.spfree)
<1>1. /\ c = ContextOf(c.len, c.pos, c.unget, c.lastc, c.back, c.spfree)
      /\ f = FileOf(c, f.strs, f.last) /\ l \in Nat
  BY FileIs
<1>2. ContextRight(c, l) /\ ContextShape(c) /\ TextsRight(f.strs)
  BY DEF FileRight, ContextRight
<1>3. ASSUME g = [f EXCEPT !.last = <<>>]
      PROVE  FileRight(g) /\ g.strs = f.strs /\ g.ctx = f.ctx
  <2> DEFINE none == <<>>
  <2>1. g = FileOf(c, f.strs, none)
    <3> HIDE DEF c, none
    <3>1. [f EXCEPT !.last = none] = FileOf(c, f.strs, none)
      BY <1>1 DEF FileOf
    <3>2. g = [f EXCEPT !.last = none]
      BY <1>3 DEF none
    <3> QED BY <3>1, <3>2
  <2>2. FileRight(g)
    BY <1>2, <2>1, NothingRead, FileMade
  <2> QED BY <2>1, <2>2, FileFields
<1>4. ASSUME g = Reads(f, Forgets(f.ctx, f.ctx.len, 0, <<>>), <<>>)
      PROVE  FileRight(g) /\ g.strs = f.strs /\ g.ctx.spfree = f.ctx.spfree
  <2> DEFINE none == <<>>
             len == c.len
             pos == c.pos
             u == c.unget
             lastc == c.lastc
             back == c.back
             spfree == c.spfree
             b == Forgets(c, len, 0, none)
  <2>1. /\ c = ContextOf(len, pos, u, lastc, back, spfree)
        /\ d = ContextOf(len, len, 0, lastc, none, spfree) /\ g = Reads(f, b, none)
        /\ b = Forgets(c, len, 0, none) /\ f = FileOf(c, f.strs, f.last)
    BY <1>1, <1>4
  <2>2. len \in Nat /\ IsSeq(spfree)
    BY <1>2 DEF ContextShape
  <2> HIDE DEF len, pos, u, lastc, back, spfree, c, b, d, none
  <2>3. b = d
    BY <2>1, ContextChanged
  <2>4. g = FileOf(d, f.strs, none)
    BY <2>1, <2>3, FileChanged
  <2>5. /\ d.len = len /\ d.pos = len /\ d.unget = 0 /\ d.back = none /\ d.spfree = spfree
        /\ d.lastc = lastc
    BY <2>1, ContextFields
  <2>6. d = ContextOf(d.len, d.pos, d.unget, d.lastc, d.back, d.spfree)
    BY <2>1, <2>5
  <2>7. ContextRight(d, l)
    BY <2>2, <2>5, <2>6 DEF ContextRight, ContextShape, UngotRight, none
  <2>8. FileRight(g)
    <3>1. LastRight(none, d, l)
      BY NothingRead DEF none
    <3> QED BY <1>2, <2>4, <2>7, <3>1, FileMade
  <2> QED BY <2>4, <2>5, <2>8, FileFields DEF spfree, c
<1> QED BY <1>3, <1>4

-----------------------------------------------------------------------------
(* Who uses which alias. *)

\* The texts of a file, level by level: the i-th text with those done before
\* it, and in the end those done in the innermost.
TextsAt(f, i) ==
  IF i = Len(f.strs) + 1 THEN ToSet(f.ctx.spfree)
  ELSE {f.strs[i]} \cup ToSet(f.strs[i].ctx.spfree)

UsesAt(f, i) == Users(TextsAt(f, i))

FileUses(f) == Users(AllTexts(f))

\* The texts that are values of aliases.
ReadIn(f) == {sp \in ToSet(f.strs) : sp.ap # NoName}

\* No alias is used twice.
UsesApart(f) ==
  \A i, j \in 1..(Len(f.strs) + 1) : i # j => UsesAt(f, i) \cap UsesAt(f, j) = {}

\* The first n files are right, and no two of them use the same alias.
FilesHold(fs, n) ==
  /\ \A k \in 1..n : FileRight(fs[k]) /\ UsesApart(fs[k])
  /\ \A k, m \in 1..n : k # m => FileUses(fs[k]) \cap FileUses(fs[m]) = {}

UsesTo(fs, n) == UNION {FileUses(fs[k]) : k \in 1..n}
ReadsTo(fs, n) == UNION {ReadIn(fs[k]) : k \in 1..n}

AliasType == [val : Nat, inuse : BOOLEAN, dead : BOOLEAN]

AliasesRight(tab, mem) ==
  /\ tab \in [Names -> AliasType]
  /\ \A n \in Names : tab[n].val # 0 => tab[n].val \in mem
  /\ \A n, m \in Names : tab[n].val = tab[m].val /\ tab[n].val # 0 => n = m
  /\ 0 \notin mem

\* What is read is allocated, and nobody else's.
ReadsRight(tab, mem, R) ==
  /\ \A sp \in R : /\ sp.string \in mem
                   /\ \A n \in Names : tab[n].val = sp.string => n = sp.ap
  /\ \A sp, sq \in R : sp.string = sq.string => sp.ap = sq.ap

\* The aliases, when U are used and R are read.
AliasesHold(tab, mem, U, R) ==
  /\ AliasesRight(tab, mem)
  /\ {n \in Names : tab[n].inuse} = U
  /\ \A sp \in R : sp.ap \in U
  /\ ReadsRight(tab, mem, R)

\* The inductive invariant of the input.
InputInv ==
  /\ IsSeq(parsefiles) /\ Len(parsefiles) >= 1
  /\ FilesHold(parsefiles, Len(parsefiles))
  /\ AliasesHold(atab, allocated, UsesTo(parsefiles, Len(parsefiles)),
                 ReadsTo(parsefiles, Len(parsefiles)))

LEMMA MinIs ==
  ASSUME NEW S \in SUBSET Nat, S # {}
  PROVE  Min(S) \in S /\ \A y \in S : Min(S) <= y
<1>1. \E m \in S : \A y \in S : m <= y
  BY LeastElement
<1> QED BY <1>1 DEF Min

LEMMA UsersAre ==
  /\ \A S, n : n \in Users(S) <=> n # NoName /\ \E sp \in S : sp.ap = n
  /\ Users({}) = {}
  /\ \A A, B : Users(A \cup B) = Users(A) \cup Users(B)
BY DEF Users

\* Freeing: the aliases of texts that nobody else uses are in use no more, and
\* no value goes that somebody has.
LEMMA FreedKeeps ==
  ASSUME NEW U, NEW R, AliasesHold(atab, allocated, U, R),
         NEW done, NEW read, NEW U1, NEW R1,
         U = U1 \cup Users(done), U1 \cap Users(done) = {},
         R1 \subseteq R, \A sp \in R1 : sp.ap \in U1,
         \A sp \in read : sp.ap # NoName => sp \in R /\ \A sq \in R1 : sq.ap # sp.ap,
         freestrings(done),
         allocated' = allocated \ (FreedByUnalias(done) \cup FreedByPop(read))
  PROVE  AliasesHold(atab', allocated', U1, R1)
<1>1. Users(done) \subseteq Names /\ U1 \subseteq Names
  BY DEF AliasesHold
<1>2. atab \in [Names -> AliasType] /\ 0 \notin allocated
  BY DEF AliasesHold, AliasesRight
<1>3. /\ atab' \in [Names -> AliasType]
      /\ \A n \in Names : /\ n \notin Users(done) => atab'[n] = atab[n]
                          /\ n \in Users(done) => ~atab'[n].inuse
                          /\ n \in Users(done) /\ atab[n].dead => atab'[n].val = 0
                          /\ n \in Users(done) /\ ~atab[n].dead => atab'[n].val = atab[n].val
  <2> DEFINE after(n) == IF n \notin Users(done) THEN atab[n]
                         ELSE IF atab[n].dead THEN NoAlias ELSE [atab[n] EXCEPT !.inuse = FALSE]
  <2>1. atab' = [n \in Names |-> after(n)]
    BY DEF freestrings
  <2>2. ASSUME NEW n \in Names
        PROVE  /\ after(n) \in AliasType
               /\ n \notin Users(done) => after(n) = atab[n]
               /\ n \in Users(done) => ~after(n).inuse
               /\ n \in Users(done) /\ atab[n].dead => after(n).val = 0
               /\ n \in Users(done) /\ ~atab[n].dead => after(n).val = atab[n].val
    <3>1. atab[n] \in AliasType
      BY <1>2
    <3> QED BY <3>1 DEF AliasType, NoAlias
  <2> HIDE DEF after
  <2> QED BY <2>1, <2>2
<1>4. \A v : v \in allocated' <=>
        /\ v \in allocated
        /\ ~\E n \in Users(done) : atab[n].dead /\ atab[n].val = v
        /\ ~\E sp \in read : sp.ap # NoName /\ sp.string # atab[sp.ap].val /\ sp.string = v
  BY DEF FreedByUnalias, FreedByPop
<1>5. /\ \A n \in Names : atab[n].val # 0 => atab[n].val \in allocated
      /\ \A n, m \in Names : atab[n].val = atab[m].val /\ atab[n].val # 0 => n = m
      /\ {n \in Names : atab[n].inuse} = U
      /\ \A sp \in R : sp.ap \in U
  BY DEF AliasesHold, AliasesRight
<1>6. /\ \A sp \in R : /\ sp.string \in allocated
                       /\ \A n \in Names : atab[n].val = sp.string => n = sp.ap
      /\ \A sp, sq \in R : sp.string = sq.string => sp.ap = sq.ap
  BY DEF AliasesHold, ReadsRight
<1>7. \A n \in Names : atab'[n].val = 0 \/ atab'[n].val = atab[n].val
  BY <1>3
<1>8. ASSUME NEW n \in Names, atab'[n].val # 0 PROVE atab'[n].val \in allocated'
  <2>1. atab'[n].val = atab[n].val /\ atab[n].val # 0
    BY <1>7, <1>8
  <2>2. ASSUME NEW m \in Users(done), atab[m].dead, atab[m].val = atab[n].val PROVE FALSE
    <3>1. m = n
      BY <1>1, <1>5, <2>1, <2>2
    <3> QED BY <1>3, <1>8, <2>2, <3>1
  <2>3. ASSUME NEW sp \in read, sp.ap # NoName, sp.string # atab[sp.ap].val, sp.string = atab[n].val
        PROVE  FALSE
    <3>1. n = sp.ap
      BY <1>6, <2>3
    <3> QED BY <2>3, <3>1
  <2> QED BY <1>4, <1>5, <2>1, <2>2, <2>3
<1>9. \A n, m \in Names : atab'[n].val = atab'[m].val /\ atab'[n].val # 0 => n = m
  BY <1>5, <1>7
<1>10. AliasesRight(atab', allocated')
  BY <1>2, <1>3, <1>4, <1>8, <1>9 DEF AliasesRight
<1>11. {n \in Names : atab'[n].inuse} = U1
  <2>1. ASSUME NEW n \in Names PROVE atab'[n].inuse <=> n \in U1
    <3>1. atab[n].inuse <=> n \in U
      BY <1>5
    <3> QED BY <1>3, <3>1
  <2> QED BY <1>1, <2>1
<1>12. ASSUME NEW sp \in R1
       PROVE  /\ sp.string \in allocated'
              /\ \A n \in Names : atab'[n].val = sp.string => n = sp.ap
  <2>1. sp \in R /\ sp.string \in allocated /\ sp.string # 0 /\ sp.ap \in U1
    BY <1>2, <1>6
  <2>2. ASSUME NEW n \in Users(done), atab[n].val = sp.string PROVE FALSE
    BY <1>1, <1>6, <2>1, <2>2
  <2>3. ASSUME NEW sq \in read, sq.ap # NoName, sq.string = sp.string PROVE FALSE
    BY <1>6, <2>1, <2>3
  <2> QED BY <1>4, <1>6, <1>7, <2>1, <2>2, <2>3
<1>13. ReadsRight(atab', allocated', R1)
  BY <1>6, <1>12 DEF ReadsRight
<1> QED BY <1>10, <1>11, <1>13 DEF AliasesHold

LEMMA ToSetIs ==
  ASSUME NEW s, IsSeq(s)
  PROVE  /\ Len(s) \in Nat /\ \A x : x \in ToSet(s) <=> \E k \in 1..Len(s) : s[k] = x
<1> DEFINE S == ToSet(s)
<1>1. s \in Seq(S)
  BY DEF IsSeq
<1> HIDE DEF S
<1>2. ToSet(s) = {s[k] : k \in 1..Len(s)} /\ Len(s) \in Nat
  BY <1>1, IsSeqs
<1> QED BY <1>2

\* The aliases a file uses are those used at its levels.
LEMMA FileUsesAre ==
  ASSUME NEW f, FileRight(f)
  PROVE  /\ Len(f.strs) \in Nat
         /\ \A n : n \in FileUses(f) <=> \E i \in 1..(Len(f.strs) + 1) : n \in UsesAt(f, i)
         /\ \A sp : sp \in ReadIn(f) <=> sp.ap # NoName /\ \E i \in 1..Len(f.strs) : f.strs[i] = sp
         /\ \A i \in 1..Len(f.strs) : f.strs[i].ap # NoName => f.strs[i].ap \in UsesAt(f, i)
<1> DEFINE l == Len(f.strs)
<1>1. IsSeq(f.strs)
  BY DEF FileRight, TextsRight
<1>2. /\ l \in Nat /\ \A x : x \in ToSet(f.strs) <=> \E k \in 1..l : f.strs[k] = x
  BY <1>1, ToSetIs
<1>3. \A i \in 1..l : TextsAt(f, i) = {f.strs[i]} \cup ToSet(f.strs[i].ctx.spfree)
  BY <1>2 DEF TextsAt
<1>4. TextsAt(f, l + 1) = ToSet(f.ctx.spfree)
  BY DEF TextsAt
<1> HIDE DEF l
<1>5. \A x : x \in AllTexts(f) <=> \E i \in 1..(l + 1) : x \in TextsAt(f, i)
  <2>1. ASSUME NEW x, x \in AllTexts(f) PROVE \E i \in 1..(l + 1) : x \in TextsAt(f, i)
    <3>1. CASE x \in ToSet(f.strs)
      <4>1. PICK k \in 1..l : f.strs[k] = x
        BY <1>2, <3>1
      <4>2. k \in 1..(l + 1) /\ x \in TextsAt(f, k)
        BY <1>2, <1>3, <4>1
      <4> QED BY <4>2
    <3>2. CASE x \in ToSet(f.ctx.spfree)
      <4>1. l + 1 \in 1..(l + 1)
        BY <1>2
      <4> QED BY <1>4, <3>2, <4>1
    <3>3. CASE x \in UNION {ToSet(sp.ctx.spfree) : sp \in ToSet(f.strs)}
      <4>1. PICK sp \in ToSet(f.strs) : x \in ToSet(sp.ctx.spfree)
        BY <3>3
      <4>2. PICK k \in 1..l : f.strs[k] = sp
        BY <1>2
      <4>3. k \in 1..(l + 1) /\ x \in TextsAt(f, k)
        BY <1>2, <1>3, <4>1, <4>2
      <4> QED BY <4>3
    <3> QED BY <2>1, <3>1, <3>2, <3>3 DEF AllTexts
  <2>2. ASSUME NEW x, NEW i \in 1..(l + 1), x \in TextsAt(f, i) PROVE x \in AllTexts(f)
    <3>1. CASE i \in 1..l
      <4>1. f.strs[i] \in ToSet(f.strs)
        BY <1>2, <3>1
      <4>2. x = f.strs[i] \/ x \in ToSet(f.strs[i].ctx.spfree)
        BY <1>3, <2>2, <3>1
      <4> QED BY <4>1, <4>2 DEF AllTexts
    <3>2. CASE i = l + 1
      BY <1>4, <2>2, <3>2 DEF AllTexts
    <3> QED BY <1>2, <3>1, <3>2
  <2> QED BY <2>1, <2>2
<1>6. ASSUME NEW n PROVE n \in FileUses(f) <=> \E i \in 1..(l + 1) : n \in UsesAt(f, i)
  <2>1. n \in FileUses(f) <=> n # NoName /\ \E sp \in AllTexts(f) : sp.ap = n
    BY UsersAre DEF FileUses
  <2>2. \A i : n \in UsesAt(f, i) <=> n # NoName /\ \E sp \in TextsAt(f, i) : sp.ap = n
    BY UsersAre DEF UsesAt
  <2> QED BY <1>5, <2>1, <2>2
<1>7. ASSUME NEW i \in 1..l, f.strs[i].ap # NoName PROVE f.strs[i].ap \in UsesAt(f, i)
  <2>1. f.strs[i] \in TextsAt(f, i)
    BY <1>3
  <2> QED BY <1>7, <2>1, UsersAre DEF UsesAt
<1>8. \A sp : sp \in ReadIn(f) <=> sp.ap # NoName /\ \E i \in 1..l : f.strs[i] = sp
  BY <1>2 DEF ReadIn
<1> QED BY <1>2, <1>6, <1>7, <1>8 DEF l

LEMMA ReadsAreUsed ==
  ASSUME NEW f, FileRight(f)
  PROVE  \A sp \in ReadIn(f) : sp.ap \in FileUses(f)
<1>1. /\ Len(f.strs) \in Nat
      /\ \A n : n \in FileUses(f) <=> \E i \in 1..(Len(f.strs) + 1) : n \in UsesAt(f, i)
      /\ \A sp : sp \in ReadIn(f) <=> sp.ap # NoName /\ \E i \in 1..Len(f.strs) : f.strs[i] = sp
      /\ \A i \in 1..Len(f.strs) : f.strs[i].ap # NoName => f.strs[i].ap \in UsesAt(f, i)
  BY FileUsesAre
<1>2. 1..Len(f.strs) \subseteq 1..(Len(f.strs) + 1)
  BY <1>1
<1> QED BY <1>1, <1>2

\* A file with the texts of another.
LEMMA SameUses ==
  ASSUME NEW f, NEW g, g.strs = f.strs, g.ctx.spfree = f.ctx.spfree
  PROVE  /\ FileUses(g) = FileUses(f) /\ ReadIn(g) = ReadIn(f) /\ AllTexts(g) = AllTexts(f)
         /\ UsesApart(f) => UsesApart(g)
<1>1. \A i : TextsAt(g, i) = TextsAt(f, i)
  BY DEF TextsAt
<1>2. AllTexts(g) = AllTexts(f)
  BY DEF AllTexts
<1>3. \A i : UsesAt(g, i) = UsesAt(f, i)
  BY <1>1 DEF UsesAt
<1>4. UsesApart(f) => UsesApart(g)
  BY <1>3 DEF UsesApart
<1> QED BY <1>2, <1>4 DEF FileUses, ReadIn

\* A file with one more text.
LEMMA PushUses ==
  ASSUME NEW f, FileRight(f), UsesApart(f), NEW g, FileRight(g), NEW sp,
         g.strs = Append(f.strs, sp), g.ctx.spfree = <<>>, sp.ctx = f.ctx,
         sp.ap \notin FileUses(f)
  PROVE  /\ UsesApart(g)
         /\ \A n : n \in FileUses(g) <=> n \in FileUses(f) \/ (n = sp.ap /\ n # NoName)
         /\ \A sq : sq \in ReadIn(g) <=> sq \in ReadIn(f) \/ (sq = sp /\ sp.ap # NoName)
<1> DEFINE l == Len(f.strs)
<1>1. l \in Nat /\ IsSeq(f.strs)
  BY FileUsesAre DEF FileRight, TextsRight
<1>2. /\ Len(g.strs) = l + 1 /\ g.strs[l + 1] = sp
      /\ \A k \in 1..l : g.strs[k] = f.strs[k]
  BY <1>1, AppendedIs
<1> HIDE DEF l
<1>3. \A i \in 1..l : UsesAt(g, i) = UsesAt(f, i)
  <2>1. \A i \in 1..l : i # Len(f.strs) + 1 /\ i # Len(g.strs) + 1
    BY <1>1, <1>2 DEF l
  <2>2. \A i \in 1..l : TextsAt(g, i) = TextsAt(f, i)
    BY <1>2, <2>1 DEF TextsAt
  <2> QED BY <2>2 DEF UsesAt
<1>4. \A n : n \in UsesAt(g, l + 1) <=> n \in UsesAt(f, l + 1) \/ (n = sp.ap /\ n # NoName)
  <2>1. l + 1 # Len(g.strs) + 1 /\ l + 1 = Len(f.strs) + 1
    BY <1>1, <1>2 DEF l
  <2>2. TextsAt(g, l + 1) = {sp} \cup TextsAt(f, l + 1)
    BY <1>2, <2>1 DEF TextsAt
  <2>3. ASSUME NEW n PROVE n \in UsesAt(g, l + 1) <=> n \in UsesAt(f, l + 1) \/ (n = sp.ap /\ n # NoName)
    <3>1. n \in UsesAt(g, l + 1) <=> n # NoName /\ \E sq \in TextsAt(g, l + 1) : sq.ap = n
      BY UsersAre DEF UsesAt
    <3>2. n \in UsesAt(f, l + 1) <=> n # NoName /\ \E sq \in TextsAt(f, l + 1) : sq.ap = n
      BY UsersAre DEF UsesAt
    <3> QED BY <2>2, <3>1, <3>2
  <2> QED BY <2>3
<1>5. UsesAt(g, l + 2) = {}
  <2>1. l + 2 = Len(g.strs) + 1
    BY <1>1, <1>2
  <2>2. TextsAt(g, l + 2) = {}
    BY <2>1, EmptyIs DEF TextsAt
  <2> QED BY <2>2, UsersAre DEF UsesAt
<1>6. /\ \A n : n \in FileUses(f) <=> \E i \in 1..(l + 1) : n \in UsesAt(f, i)
      /\ \A sq : sq \in ReadIn(f) <=> sq.ap # NoName /\ \E i \in 1..l : f.strs[i] = sq
  BY FileUsesAre DEF l
<1>7. /\ \A n : n \in FileUses(g) <=> \E i \in 1..(l + 2) : n \in UsesAt(g, i)
      /\ \A sq : sq \in ReadIn(g) <=> sq.ap # NoName /\ \E i \in 1..(l + 1) : g.strs[i] = sq
  <2>1. Len(g.strs) + 1 = l + 2
    BY <1>1, <1>2
  <2>2. /\ \A n : n \in FileUses(g) <=> \E i \in 1..(Len(g.strs) + 1) : n \in UsesAt(g, i)
        /\ \A sq : sq \in ReadIn(g) <=> sq.ap # NoName /\ \E i \in 1..Len(g.strs) : g.strs[i] = sq
    BY FileUsesAre
  <2> QED BY <1>2, <2>1, <2>2
<1>8. \A i \in 1..(l + 2) : i \in 1..l \/ i = l + 1 \/ i = l + 2
  BY <1>1
<1>9. \A i \in 1..(l + 1) : i \in 1..l \/ i = l + 1
  BY <1>1
<1>10. 1..l \subseteq 1..(l + 1) /\ 1..(l + 1) \subseteq 1..(l + 2) /\ l + 1 \in 1..(l + 1) /\ l + 2 \in 1..(l + 2)
  BY <1>1
<1>11. ASSUME NEW n PROVE n \in FileUses(g) <=> n \in FileUses(f) \/ (n = sp.ap /\ n # NoName)
  BY <1>3, <1>4, <1>5, <1>6, <1>7, <1>8, <1>9, <1>10
<1>12. ASSUME NEW sq PROVE sq \in ReadIn(g) <=> sq \in ReadIn(f) \/ (sq = sp /\ sp.ap # NoName)
  BY <1>2, <1>6, <1>7, <1>9, <1>10
<1>13. ASSUME NEW i \in 1..(l + 2), NEW j \in 1..(l + 2), i # j, NEW n, n \in UsesAt(g, i), n \in UsesAt(g, j)
       PROVE  FALSE
  <2>1. i \in 1..(l + 1) /\ j \in 1..(l + 1)
    BY <1>5, <1>8, <1>10, <1>13
  <2>2. \A k \in 1..(l + 1) : n \in UsesAt(g, k) => n \in UsesAt(f, k) \/ (k = l + 1 /\ n = sp.ap)
    BY <1>3, <1>4, <1>9
  <2>3. n # sp.ap
    BY <1>6, <1>13, <2>1, <2>2, <1>3, <1>9
  <2>4. n \in UsesAt(f, i) /\ n \in UsesAt(f, j)
    BY <1>13, <2>1, <2>2, <2>3
  <2> QED BY <1>13, <2>1, <2>4 DEF UsesApart, l
<1>14. UsesApart(g)
  <2>1. Len(g.strs) + 1 = l + 2
    BY <1>1, <1>2
  <2> QED BY <1>13, <2>1 DEF UsesApart
<1> QED BY <1>11, <1>12, <1>14

\* A file after reading: the texts done before it are gone.
LEMMA ReadUses ==
  ASSUME NEW f, FileRight(f), UsesApart(f), NEW g, FileRight(g), NEW done,
         done = ToSet(f.ctx.spfree),
         ~TextDone(f) => g.strs = f.strs /\ g.ctx.spfree = <<>>,
         TextDone(f) => /\ g.strs = Front(f.strs)
                        /\ g.ctx.spfree = <<Last(f.strs)>> \o Last(f.strs).ctx.spfree
  PROVE  /\ UsesApart(g)
         /\ FileUses(f) = FileUses(g) \cup Users(done) /\ FileUses(g) \cap Users(done) = {}
         /\ ReadIn(g) \subseteq ReadIn(f)
         /\ TextDone(f) /\ Last(f.strs).ap # NoName =>
              Last(f.strs) \in ReadIn(f) /\ \A sq \in ReadIn(g) : sq.ap # Last(f.strs).ap
<1> DEFINE l == Len(f.strs)
           m == Len(g.strs)
<1>1. /\ l \in Nat /\ IsSeq(f.strs) /\ m \in Nat
  BY FileUsesAre DEF FileRight, TextsRight
<1>2. /\ Users(done) = UsesAt(f, l + 1)
  BY DEF UsesAt, TextsAt
<1>3. /\ TextDone(f) => m = l - 1 /\ Last(f.strs) = f.strs[l] /\ l \in 1..l
      /\ ~TextDone(f) => m = l
      /\ m \in Nat /\ \A k \in 1..m : g.strs[k] = f.strs[k]
  <2>1. CASE TextDone(f)
    <3>1. f.strs # <<>>
      BY <2>1 DEF TextDone
    <3>2. /\ Len(g.strs) = l - 1 /\ l \in Nat \ {0} /\ Last(f.strs) = f.strs[l]
          /\ \A k \in 1..(l - 1) : g.strs[k] = f.strs[k]
      BY <1>1, <2>1, <3>1, FrontIs
    <3> QED BY <2>1, <3>2
  <2>2. CASE ~TextDone(f)
    BY <1>1, <2>2
  <2> QED BY <2>1, <2>2
<1>4. m \in Nat /\ m <= l
  BY <1>1, <1>3
<1>5. \A i \in 1..m : UsesAt(g, i) = UsesAt(f, i)
  <2>1. \A i \in 1..m : i # l + 1 /\ i # m + 1
    BY <1>1, <1>4
  <2>2. \A i \in 1..m : TextsAt(g, i) = TextsAt(f, i)
    BY <1>3, <2>1 DEF TextsAt
  <2> QED BY <2>2 DEF UsesAt
<1>6. UsesAt(g, m + 1) = IF TextDone(f) THEN UsesAt(f, l) ELSE {}
  <2>1. CASE TextDone(f)
    <3>1. TextRight(f.strs[l], l - 1)
      BY <1>3, <2>1 DEF FileRight, TextsRight
    <3>2. IsSeq(f.strs[l].ctx.spfree)
      BY <3>1 DEF TextRight, ContextRight, ContextShape
    <3>3. ToSet(<<f.strs[l]>> \o f.strs[l].ctx.spfree) = {f.strs[l]} \cup ToSet(f.strs[l].ctx.spfree)
      BY <3>2, HeadedIs
    <3>4. l # l + 1
      BY <1>1
    <3>5. TextsAt(g, m + 1) = TextsAt(f, l)
      BY <1>3, <2>1, <3>3, <3>4 DEF TextsAt
    <3> QED BY <2>1, <3>5 DEF UsesAt
  <2>2. CASE ~TextDone(f)
    <3>1. TextsAt(g, m + 1) = {}
      BY <2>2, EmptyIs DEF TextsAt
    <3> QED BY <2>2, <3>1, UsersAre DEF UsesAt
  <2> QED BY <2>1, <2>2
<1>7. /\ \A n : n \in FileUses(f) <=> \E i \in 1..(l + 1) : n \in UsesAt(f, i)
      /\ \A sq : sq \in ReadIn(f) <=> sq.ap # NoName /\ \E i \in 1..l : f.strs[i] = sq
      /\ \A i \in 1..l : f.strs[i].ap # NoName => f.strs[i].ap \in UsesAt(f, i)
  BY FileUsesAre
<1>8. /\ \A n : n \in FileUses(g) <=> \E i \in 1..(m + 1) : n \in UsesAt(g, i)
      /\ \A sq : sq \in ReadIn(g) <=> sq.ap # NoName /\ \E i \in 1..m : g.strs[i] = sq
  BY FileUsesAre
<1>9. \A i, j \in 1..(l + 1) : i # j => UsesAt(f, i) \cap UsesAt(f, j) = {}
  BY DEF UsesApart
<1> HIDE DEF l, m
<1>10. /\ 1..m \subseteq 1..l /\ 1..l \subseteq 1..(l + 1) /\ l + 1 \in 1..(l + 1)
       /\ m + 1 \in 1..(m + 1) /\ 1..m \subseteq 1..(m + 1)
       /\ \A i \in 1..(m + 1) : i \in 1..m \/ i = m + 1
       /\ \A i \in 1..(l + 1) : i \in 1..l \/ i = l + 1
       /\ l + 1 \notin 1..l /\ m + 1 \notin 1..m
       /\ TextDone(f) => m + 1 = l /\ l \in 1..l
       /\ ~TextDone(f) => m = l
  BY <1>1, <1>3, <1>4
<1>11. ASSUME NEW n
       PROVE  n \in FileUses(g) <=> \E i \in 1..l : n \in UsesAt(f, i)
  <2>1. CASE TextDone(f)
    <3>1. \A i \in 1..(m + 1) : UsesAt(g, i) = UsesAt(f, i)
      BY <1>5, <1>6, <1>10, <2>1
    <3>2. 1..(m + 1) = 1..l
      BY <1>10, <2>1
    <3> QED BY <1>8, <3>1, <3>2
  <2>2. CASE ~TextDone(f)
    BY <1>5, <1>6, <1>8, <1>10, <2>2
  <2> QED BY <2>1, <2>2
<1>12. \A n : n \in FileUses(f) <=> n \in FileUses(g) \/ n \in Users(done)
  BY <1>2, <1>7, <1>10, <1>11
<1>13. \A n : ~(n \in FileUses(g) /\ n \in Users(done))
  <2>1. \A i \in 1..l : i \in 1..(l + 1) /\ i # l + 1
    BY <1>10
  <2> QED BY <1>2, <1>9, <1>10, <1>11, <2>1
<1>14. ReadIn(g) \subseteq ReadIn(f)
  BY <1>3, <1>7, <1>8, <1>10
<1>15. ASSUME TextDone(f), NEW sp, sp = Last(f.strs), sp.ap # NoName
       PROVE  sp \in ReadIn(f) /\ \A sq \in ReadIn(g) : sq.ap # sp.ap
  <2>1. TextDone(f) /\ sp = f.strs[l] /\ l \in 1..l
    BY <1>3, <1>15
  <2>2. sp.ap \in UsesAt(f, l) /\ sp \in ReadIn(f)
    BY <1>7, <1>15, <2>1
  <2>3. ASSUME NEW sq \in ReadIn(g), sq.ap = sp.ap PROVE FALSE
    <3>1. PICK i \in 1..m : g.strs[i] = sq
      BY <1>8, <2>3
    <3>2. f.strs[i] = sq /\ i \in 1..l /\ sq.ap # NoName
      BY <1>3, <1>8, <1>10, <2>3, <3>1
    <3>3. sq.ap \in UsesAt(f, i)
      BY <1>7, <3>2
    <3>4. i # l
      BY <1>10, <2>1, <3>1
    <3> QED BY <1>9, <1>10, <2>1, <2>2, <2>3, <3>2, <3>3, <3>4
  <2> QED BY <2>2, <2>3
<1>16. UsesApart(g)
  <2>1. ASSUME NEW i \in 1..(m + 1), NEW j \in 1..(m + 1), i # j
        PROVE  UsesAt(g, i) \cap UsesAt(g, j) = {}
    <3>1. \A k \in 1..(m + 1) : UsesAt(g, k) = UsesAt(f, k) \/ UsesAt(g, k) = {}
      BY <1>5, <1>6, <1>10
    <3>2. i \in 1..(l + 1) /\ j \in 1..(l + 1)
      BY <1>10
    <3> QED BY <1>9, <2>1, <3>1, <3>2
  <2> QED BY <2>1 DEF UsesApart, m
<1> QED BY <1>12, <1>13, <1>14, <1>15, <1>16

\* The files below the n-th, and the files up to it.
LEMMA FilesAgree ==
  ASSUME NEW fs, NEW others, NEW n \in Nat, \A k \in 1..n : others[k] = fs[k]
  PROVE  /\ FilesHold(fs, n) => FilesHold(others, n)
         /\ UsesTo(others, n) = UsesTo(fs, n) /\ ReadsTo(others, n) = ReadsTo(fs, n)
<1>1. FilesHold(fs, n) => FilesHold(others, n)
  BY DEF FilesHold
<1>2. UsesTo(others, n) = UsesTo(fs, n) /\ ReadsTo(others, n) = ReadsTo(fs, n)
  BY DEF UsesTo, ReadsTo
<1> QED BY <1>1, <1>2

LEMMA FilesSplit ==
  ASSUME NEW fs, NEW n \in Nat \ {0}
  PROVE  /\ FilesHold(fs, n) <=>
              /\ FilesHold(fs, n - 1) /\ FileRight(fs[n]) /\ UsesApart(fs[n])
              /\ FileUses(fs[n]) \cap UsesTo(fs, n - 1) = {}
         /\ UsesTo(fs, n) = UsesTo(fs, n - 1) \cup FileUses(fs[n])
         /\ ReadsTo(fs, n) = ReadsTo(fs, n - 1) \cup ReadIn(fs[n])
<1>1. /\ 1..(n - 1) \subseteq 1..n /\ n \in 1..n /\ n \notin 1..(n - 1)
      /\ \A k \in 1..n : k \in 1..(n - 1) \/ k = n
  OBVIOUS
<1>2. \A x : x \in UsesTo(fs, n - 1) <=> \E k \in 1..(n - 1) : x \in FileUses(fs[k])
  BY DEF UsesTo
<1>3. UsesTo(fs, n) = UsesTo(fs, n - 1) \cup FileUses(fs[n])
  BY <1>1 DEF UsesTo
<1>4. ReadsTo(fs, n) = ReadsTo(fs, n - 1) \cup ReadIn(fs[n])
  BY <1>1 DEF ReadsTo
<1>5. ASSUME FilesHold(fs, n)
      PROVE  /\ FilesHold(fs, n - 1) /\ FileRight(fs[n]) /\ UsesApart(fs[n])
             /\ FileUses(fs[n]) \cap UsesTo(fs, n - 1) = {}
  <2>1. FilesHold(fs, n - 1) /\ FileRight(fs[n]) /\ UsesApart(fs[n])
    BY <1>1, <1>5 DEF FilesHold
  <2>2. \A k \in 1..(n - 1) : FileUses(fs[n]) \cap FileUses(fs[k]) = {}
    BY <1>1, <1>5 DEF FilesHold
  <2> QED BY <1>2, <2>1, <2>2
<1>6. ASSUME FilesHold(fs, n - 1), FileRight(fs[n]), UsesApart(fs[n]),
             FileUses(fs[n]) \cap UsesTo(fs, n - 1) = {}
      PROVE  FilesHold(fs, n)
  <2>1. \A k \in 1..(n - 1) : FileUses(fs[n]) \cap FileUses(fs[k]) = {}
    BY <1>2, <1>6
  <2>2. ASSUME NEW k \in 1..n, NEW m \in 1..n, k # m
        PROVE  FileUses(fs[k]) \cap FileUses(fs[m]) = {}
    <3>1. CASE k = n
      BY <1>1, <2>1, <2>2, <3>1
    <3>2. CASE m = n
      BY <1>1, <2>1, <2>2, <3>2
    <3>3. CASE k \in 1..(n - 1) /\ m \in 1..(n - 1)
      BY <1>6, <2>2, <3>3 DEF FilesHold
    <3> QED BY <1>1, <3>1, <3>2, <3>3
  <2>3. \A k \in 1..n : FileRight(fs[k]) /\ UsesApart(fs[k])
    BY <1>1, <1>6 DEF FilesHold
  <2> QED BY <2>2, <2>3 DEF FilesHold
<1> QED BY <1>3, <1>4, <1>5, <1>6

\* Of no files.
LEMMA NoFiles ==
  ASSUME NEW fs
  PROVE  FilesHold(fs, 0) /\ UsesTo(fs, 0) = {} /\ ReadsTo(fs, 0) = {}
BY DEF FilesHold, UsesTo, ReadsTo

\* The innermost file and those below.
LEMMA Innermost ==
  ASSUME InputInv
  PROVE  LET n == Len(parsefiles)
         IN /\ n \in Nat \ {0} /\ parsefile = parsefiles[n]
            /\ FilesHold(parsefiles, n - 1) /\ FileRight(parsefile) /\ UsesApart(parsefile)
            /\ FileUses(parsefile) \cap UsesTo(parsefiles, n - 1) = {}
            /\ AliasesHold(atab, allocated, UsesTo(parsefiles, n - 1) \cup FileUses(parsefile),
                           ReadsTo(parsefiles, n - 1) \cup ReadIn(parsefile))
<1> DEFINE n == Len(parsefiles)
<1>1. n \in Nat \ {0} /\ parsefile = parsefiles[n]
  <2>1. IsSeq(parsefiles) /\ n >= 1
    BY DEF InputInv
  <2>2. n \in Nat
    BY <2>1, ToSetIs
  <2> QED BY <2>1, <2>2 DEF parsefile, Last
<1> HIDE DEF n
<1>2. /\ FilesHold(parsefiles, n)
      /\ AliasesHold(atab, allocated, UsesTo(parsefiles, n), ReadsTo(parsefiles, n))
  BY DEF InputInv, n
<1>3. /\ FilesHold(parsefiles, n - 1) /\ FileRight(parsefiles[n]) /\ UsesApart(parsefiles[n])
      /\ FileUses(parsefiles[n]) \cap UsesTo(parsefiles, n - 1) = {}
      /\ UsesTo(parsefiles, n) = UsesTo(parsefiles, n - 1) \cup FileUses(parsefiles[n])
      /\ ReadsTo(parsefiles, n) = ReadsTo(parsefiles, n - 1) \cup ReadIn(parsefiles[n])
  BY <1>1, <1>2, FilesSplit
<1> QED BY <1>1, <1>2, <1>3 DEF n

\* The innermost file becomes g.
LEMMA FileReplaced ==
  ASSUME InputInv, NEW g, ReplaceFile(g), FileRight(g), UsesApart(g),
         FileUses(g) \cap UsesTo(parsefiles, Len(parsefiles) - 1) = {},
         AliasesHold(atab', allocated',
                     UsesTo(parsefiles, Len(parsefiles) - 1) \cup FileUses(g),
                     ReadsTo(parsefiles, Len(parsefiles) - 1) \cup ReadIn(g))
  PROVE  InputInv' /\ parsefile' = g
<1> DEFINE n == Len(parsefiles)
           fs == [parsefiles EXCEPT ![n] = g]
<1>1. n \in Nat \ {0} /\ FilesHold(parsefiles, n - 1) /\ IsSeq(parsefiles) /\ n >= 1
  BY Innermost DEF InputInv
<1>2. parsefiles' = fs
  BY DEF ReplaceFile
<1>3. /\ IsSeq(fs) /\ Len(fs) = n /\ fs[n] = g
      /\ \A k \in 1..(n - 1) : fs[k] = parsefiles[k]
  BY <1>1, ReplacedIs
<1> DEFINE m == n - 1
<1> HIDE DEF n, fs
<1>4. m \in Nat /\ \A k \in 1..m : fs[k] = parsefiles[k]
  BY <1>1, <1>3
<1>5. /\ FilesHold(fs, m) /\ UsesTo(fs, m) = UsesTo(parsefiles, m)
      /\ ReadsTo(fs, m) = ReadsTo(parsefiles, m)
  BY <1>1, <1>4, FilesAgree
<1>6. /\ FilesHold(fs, n)
      /\ UsesTo(fs, n) = UsesTo(parsefiles, n - 1) \cup FileUses(g)
      /\ ReadsTo(fs, n) = ReadsTo(parsefiles, n - 1) \cup ReadIn(g)
  <2>1. FileUses(fs[n]) \cap UsesTo(fs, n - 1) = {}
    BY <1>3, <1>5 DEF n
  <2> QED BY <1>1, <1>3, <1>5, <2>1, FilesSplit
<1>7. AliasesHold(atab', allocated', UsesTo(fs, n), ReadsTo(fs, n))
  BY <1>6 DEF n
<1>8. InputInv'
  BY <1>1, <1>2, <1>3, <1>6, <1>7 DEF InputInv
<1>9. parsefile' = g
  BY <1>2, <1>3 DEF parsefile, Last
<1> QED BY <1>8, <1>9

\* A step that leaves the texts of the innermost file as they are.
LEMMA FileKept ==
  ASSUME InputInv, NEW g, ReplaceFile(g), FileRight(g), g.strs = parsefile.strs,
         g.ctx.spfree = parsefile.ctx.spfree, UNCHANGED <<atab, allocated>>
  PROVE  InputInv'
<1> DEFINE m == Len(parsefiles) - 1
<1>1. /\ UsesApart(parsefile) /\ FileUses(parsefile) \cap UsesTo(parsefiles, m) = {}
      /\ AliasesHold(atab, allocated, UsesTo(parsefiles, m) \cup FileUses(parsefile),
                     ReadsTo(parsefiles, m) \cup ReadIn(parsefile))
  BY Innermost
<1>2. FileUses(g) = FileUses(parsefile) /\ ReadIn(g) = ReadIn(parsefile) /\ UsesApart(g)
  BY <1>1, SameUses
<1>3. AliasesHold(atab', allocated', UsesTo(parsefiles, m) \cup FileUses(g),
                  ReadsTo(parsefiles, m) \cup ReadIn(g))
  BY <1>1, <1>2
<1>4. FileUses(g) \cap UsesTo(parsefiles, m) = {}
  BY <1>1, <1>2
<1> QED BY <1>2, <1>3, <1>4, FileReplaced

\* A step of the aliases alone.
LEMMA AliasesStep ==
  ASSUME InputInv, UNCHANGED parsefiles,
         AliasesHold(atab', allocated', UsesTo(parsefiles, Len(parsefiles)),
                     ReadsTo(parsefiles, Len(parsefiles)))
  PROVE  InputInv'
BY DEF InputInv

LEMMA pgetcStep ==
  ASSUME InputInv, pgetc
  PROVE  /\ InputInv'
         /\ ReadNext(parsefile).unget > 0 =>
              Head(parsefile'.last) = Head(ReadNext(parsefile).back)
<1> DEFINE f == parsefile
           n == Len(parsefiles)
           U == UsesTo(parsefiles, n - 1)
           R == ReadsTo(parsefiles, n - 1)
           done == ToSet(f.ctx.spfree)
           popped == IF TextDone(f) THEN {Last(f.strs)} ELSE {}
           g == Recorded(Got(DoneFreed(f)))
<1>1. /\ FileRight(f) /\ UsesApart(f) /\ FileUses(f) \cap U = {}
      /\ AliasesHold(atab, allocated, U \cup FileUses(f), R \cup ReadIn(f))
      /\ FilesHold(parsefiles, n - 1)
  BY Innermost
<1>2. /\ freestrings(done) /\ ReplaceFile(g)
      /\ allocated' = allocated \ (FreedByUnalias(done) \cup FreedByPop(popped))
  BY DEF pgetc
<1>3. /\ FileRight(g)
      /\ ~TextDone(f) => g.strs = f.strs /\ g.ctx.spfree = <<>>
      /\ TextDone(f) => /\ g.strs = Front(f.strs)
                        /\ g.ctx.spfree = <<Last(f.strs)>> \o Last(f.strs).ctx.spfree
      /\ ReadNext(f).unget > 0 => Head(g.last) = Head(ReadNext(f).back)
  BY <1>1, ReadKeeps
<1>4. PICK d, t : d = done /\ t = popped
  OBVIOUS
<1> HIDE DEF f, g, U, R
<1>5. /\ UsesApart(g)
      /\ FileUses(f) = FileUses(g) \cup Users(d) /\ FileUses(g) \cap Users(d) = {}
      /\ ReadIn(g) \subseteq ReadIn(f)
      /\ TextDone(f) /\ Last(f.strs).ap # NoName =>
           Last(f.strs) \in ReadIn(f) /\ \A sq \in ReadIn(g) : sq.ap # Last(f.strs).ap
  BY <1>1, <1>3, <1>4, ReadUses
<1>6. \A sp \in R : sp.ap \in U
  <2>1. \A k \in 1..(n - 1) : FileRight(parsefiles[k])
    BY <1>1 DEF FilesHold
  <2>2. ASSUME NEW k \in 1..(n - 1), NEW sp \in ReadIn(parsefiles[k])
        PROVE  sp.ap \in FileUses(parsefiles[k])
    BY <2>1, <2>2, ReadsAreUsed
  <2> QED BY <2>2 DEF U, R, UsesTo, ReadsTo
<1>7. \A sp \in ReadIn(g) : sp.ap \in FileUses(g)
  BY <1>3, ReadsAreUsed
<1> DEFINE U1 == U \cup FileUses(g)
           R1 == R \cup ReadIn(g)
           U0 == U \cup FileUses(f)
           R0 == R \cup ReadIn(f)
<1>8. U0 = U1 \cup Users(d) /\ U1 \cap Users(d) = {} /\ R1 \subseteq R0 /\ \A sp \in R1 : sp.ap \in U1
  BY <1>1, <1>5, <1>6, <1>7
<1>9. ASSUME NEW sp \in t, sp.ap # NoName PROVE sp \in R0 /\ \A sq \in R1 : sq.ap # sp.ap
  <2>1. sp \in ReadIn(f) /\ \A sq \in ReadIn(g) : sq.ap # sp.ap
    <3>1. TextDone(f) /\ sp = Last(f.strs)
      BY <1>4
    <3> QED BY <1>5, <1>9, <3>1
  <2>2. sp.ap \in FileUses(f)
    BY <1>1, <2>1, ReadsAreUsed
  <2> QED BY <1>1, <1>6, <2>1, <2>2
<1>10. /\ freestrings(d)
       /\ allocated' = allocated \ (FreedByUnalias(d) \cup FreedByPop(t))
  BY <1>2, <1>4
<1>11. AliasesHold(atab, allocated, U0, R0)
  BY <1>1
<1> HIDE DEF U1, R1, U0, R0
<1>12. AliasesHold(atab', allocated', U1, R1)
  BY <1>8, <1>9, <1>10, <1>11, FreedKeeps
<1>13. FileUses(g) \cap U = {}
  BY <1>1, <1>5
<1>14. InputInv' /\ parsefile' = g
  <2>1. AliasesHold(atab', allocated', UsesTo(parsefiles, Len(parsefiles) - 1) \cup FileUses(g),
                    ReadsTo(parsefiles, Len(parsefiles) - 1) \cup ReadIn(g))
    BY <1>12 DEF U1, R1, U, R
  <2>2. FileUses(g) \cap UsesTo(parsefiles, Len(parsefiles) - 1) = {}
    BY <1>13 DEF U
  <2> QED BY <1>2, <1>3, <1>5, <2>1, <2>2, FileReplaced
<1> QED BY <1>3, <1>14 DEF f

LEMMA pungetcStep == ASSUME InputInv, pungetc PROVE InputInv'
<1> DEFINE f == parsefile
           g == [f EXCEPT !.ctx = [f.ctx EXCEPT !.unget = @ + 1, !.back = <<Head(f.last)>> \o @],
                          !.last = Tail(@)]
           h == Reads(f, GivesBack(f.ctx, f.ctx.unget + 1, <<Head(f.last)>> \o f.ctx.back),
                      Tail(f.last))
<1>1. FileRight(f)
  BY Innermost
<1>2. /\ f.last # <<>> /\ f.ctx.unget < 2
      /\ f.ctx.unget = 1 => Head(f.last)[2] = Len(f.strs) /\ f.ctx.back[1][2] = Len(f.strs)
      /\ ReplaceFile(g) /\ UNCHANGED <<atab, allocated>>
  BY DEF pungetc
<1>3. g = h
  BY Zenon DEF Reads, GivesBack
<1>4. FileRight(h) /\ h.strs = f.strs /\ h.ctx.spfree = f.ctx.spfree
  BY <1>1, <1>2, pungetcKeeps
<1> HIDE DEF g, h, f
<1>5. ReplaceFile(h)
  BY <1>2, <1>3
<1> QED BY <1>2, <1>4, <1>5, FileKept DEF f

\* A text is pushed on the innermost file.
LEMMA TextPushed ==
  ASSUME InputInv, NEW len \in Nat, NEW ap, NEW string, pushstring(len, ap, string),
         \/ parsefile.ctx.unget = 1
         \/ parsefile.ctx.unget = 0 /\ parsefile.ctx.pos < parsefile.ctx.len,
         ap \notin UsesTo(parsefiles, Len(parsefiles)),
         NEW sp, sp = [ap |-> ap, string |-> string, ctx |-> parsefile.ctx],
         NEW U, NEW R,
         \A n : n \in U <=> n \in UsesTo(parsefiles, Len(parsefiles)) \/ (n = ap /\ n # NoName),
         \A sq : sq \in R <=> sq \in ReadsTo(parsefiles, Len(parsefiles))
                                \/ (sq = sp /\ ap # NoName),
         AliasesHold(atab', allocated', U, R)
  PROVE  InputInv'
<1> DEFINE f == parsefile
           n == Len(parsefiles)
           U0 == UsesTo(parsefiles, n - 1)
           R0 == ReadsTo(parsefiles, n - 1)
           d == Context(len, f.ctx.lastc)
           strs == Append(f.strs, sp)
           g == FileOf(d, strs, <<>>)
<1>1. /\ FileRight(f) /\ UsesApart(f) /\ FileUses(f) \cap U0 = {} /\ n \in Nat \ {0}
      /\ f = parsefiles[n]
  BY Innermost
<1>2. ReplaceFile(g)
  BY DEF pushstring, FileOf
<1>3. FileRight(g) /\ g.strs = strs /\ g.ctx.spfree = <<>>
  BY <1>1, pushstringKeeps
<1>4. sp.ap = ap /\ sp.ctx = f.ctx
  OBVIOUS
<1> HIDE DEF g, strs, f, n, U0, R0
<1>5. UsesTo(parsefiles, n) = U0 \cup FileUses(f) /\ ReadsTo(parsefiles, n) = R0 \cup ReadIn(f)
  BY <1>1, FilesSplit DEF U0, R0
<1>6. sp.ap \notin FileUses(f)
  BY <1>4, <1>5 DEF n
<1>7. /\ UsesApart(g)
      /\ \A m : m \in FileUses(g) <=> m \in FileUses(f) \/ (m = sp.ap /\ m # NoName)
      /\ \A sq : sq \in ReadIn(g) <=> sq \in ReadIn(f) \/ (sq = sp /\ sp.ap # NoName)
  BY <1>1, <1>3, <1>4, <1>6, PushUses DEF strs
<1>8. U = U0 \cup FileUses(g)
  BY <1>4, <1>5, <1>7 DEF n
<1>9. R = R0 \cup ReadIn(g)
  BY <1>4, <1>5, <1>7 DEF n
<1>10. FileUses(g) \cap U0 = {}
  <2>1. ap \notin U0
    BY <1>5 DEF n
  <2> QED BY <1>1, <1>4, <1>7, <2>1
<1>11. AliasesHold(atab', allocated',
                   UsesTo(parsefiles, Len(parsefiles) - 1) \cup FileUses(g),
                   ReadsTo(parsefiles, Len(parsefiles) - 1) \cup ReadIn(g))
  BY <1>8, <1>9 DEF U0, R0, n
<1>12. FileUses(g) \cap UsesTo(parsefiles, Len(parsefiles) - 1) = {}
  BY <1>10 DEF U0, n
<1> QED BY <1>2, <1>3, <1>7, <1>11, <1>12, FileReplaced

LEMMA more_heredocStep == ASSUME InputInv, more_heredoc PROVE InputInv'
<1> DEFINE U == UsesTo(parsefiles, Len(parsefiles))
           R == ReadsTo(parsefiles, Len(parsefiles))
           sp == [ap |-> NoName, string |-> 0, ctx |-> parsefile.ctx]
<1>1. AliasesHold(atab, allocated, U, R)
  BY DEF InputInv
<1>2. /\ parsefile.ctx.unget = 0 /\ parsefile.ctx.pos < parsefile.ctx.len
      /\ pushstring(1, NoName, 0) /\ UNCHANGED <<atab, allocated>>
  BY DEF more_heredoc
<1>3. NoName \notin U
  BY UsersAre DEF UsesTo, FileUses
<1>4. AliasesHold(atab', allocated', U, R)
  BY <1>1, <1>2
<1>5. PICK s : s = sp
  OBVIOUS
<1>6. s = [ap |-> NoName, string |-> 0, ctx |-> parsefile.ctx]
  BY <1>5
<1>7. 1 \in Nat /\ NoName # NoName <=> FALSE
  OBVIOUS
<1> HIDE DEF U, R, sp
<1>8. /\ \A n : n \in U <=> n \in U \/ (n = NoName /\ n # NoName)
      /\ \A sq : sq \in R <=> sq \in R \/ (sq = s /\ NoName # NoName)
  OBVIOUS
<1>9. /\ NoName \notin UsesTo(parsefiles, Len(parsefiles))
      /\ \A n : n \in U <=> n \in UsesTo(parsefiles, Len(parsefiles)) \/ (n = NoName /\ n # NoName)
      /\ \A sq : sq \in R <=> sq \in ReadsTo(parsefiles, Len(parsefiles)) \/ (sq = s /\ NoName # NoName)
  BY <1>3, <1>8 DEF U, R
<1> QED BY <1>2, <1>4, <1>6, <1>7, <1>9, TextPushed

LEMMA expand_aliasStep == ASSUME InputInv, NEW n \in Names, expand_alias(n) PROVE InputInv'
<1> DEFINE U0 == UsesTo(parsefiles, Len(parsefiles))
           R0 == ReadsTo(parsefiles, Len(parsefiles))
           v == atab[n].val
           sp == [ap |-> n, string |-> v, ctx |-> parsefile.ctx]
<1>1. AliasesHold(atab, allocated, U0, R0)
  BY DEF InputInv
<1>2. /\ v # 0 /\ ~atab[n].inuse /\ parsefile.ctx.unget = 1
      /\ pushstring(ValueLength(v), n, v)
      /\ atab' = [atab EXCEPT ![n].inuse = TRUE] /\ allocated' = allocated
  BY DEF expand_alias, Expandable
<1>3. ValueLength(v) \in Nat
  BY DEF ValueLength
<1>4. n # NoName
  BY InputAssumption
<1>5. PICK s : s = sp
  OBVIOUS
<1>6. s.ap = n /\ s.string = v
  BY <1>5
<1>7. PICK U : U = U0 \cup {n}
  OBVIOUS
<1>8. PICK R : R = R0 \cup {s}
  OBVIOUS
<1>9. /\ atab \in [Names -> AliasType] /\ 0 \notin allocated
      /\ \A m \in Names : atab[m].val # 0 => atab[m].val \in allocated
      /\ \A m, k \in Names : atab[m].val = atab[k].val /\ atab[m].val # 0 => m = k
      /\ {m \in Names : atab[m].inuse} = U0
      /\ \A sq \in R0 : sq.ap \in U0
  BY <1>1 DEF AliasesHold, AliasesRight
<1>10. /\ \A sq \in R0 : /\ sq.string \in allocated
                         /\ \A m \in Names : atab[m].val = sq.string => m = sq.ap
       /\ \A sq, sr \in R0 : sq.string = sr.string => sq.ap = sr.ap
  BY <1>1 DEF AliasesHold, ReadsRight
<1>11. n \notin U0
  BY <1>2, <1>9
<1>12. /\ atab' \in [Names -> AliasType]
       /\ \A m \in Names : atab'[m].val = atab[m].val /\ (atab'[m].inuse <=> atab[m].inuse \/ m = n)
  <2> DEFINE e == [atab[n] EXCEPT !.inuse = TRUE]
  <2>1. e \in AliasType /\ e.val = atab[n].val /\ e.inuse
    BY <1>9 DEF AliasType
  <2>2. atab' = [atab EXCEPT ![n] = e]
    BY <1>2
  <2> HIDE DEF e
  <2> QED BY <1>9, <2>1, <2>2
<1>13. AliasesRight(atab', allocated')
  BY <1>2, <1>9, <1>12 DEF AliasesRight
<1>14. {m \in Names : atab'[m].inuse} = U
  BY <1>7, <1>9, <1>12
<1>15. ReadsRight(atab', allocated', R)
  <2>1. ASSUME NEW sq \in R
        PROVE sq.string \in allocated' /\ \A m \in Names : atab'[m].val = sq.string => m = sq.ap
    BY <1>2, <1>6, <1>8, <1>9, <1>10, <1>12
  <2>2. ASSUME NEW sq \in R, NEW sr \in R, sq.string = sr.string PROVE sq.ap = sr.ap
    BY <1>6, <1>8, <1>10, <2>2
  <2> QED BY <2>1, <2>2 DEF ReadsRight
<1>16. \A sq \in R : sq.ap \in U
  BY <1>6, <1>7, <1>8, <1>9
<1>17. AliasesHold(atab', allocated', U, R)
  BY <1>13, <1>14, <1>15, <1>16 DEF AliasesHold
<1> HIDE DEF U0, R0
<1>18. /\ \A m : m \in U <=> m \in UsesTo(parsefiles, Len(parsefiles)) \/ (m = n /\ m # NoName)
       /\ \A sq : sq \in R <=> sq \in ReadsTo(parsefiles, Len(parsefiles)) \/ (sq = s /\ n # NoName)
       /\ n \notin UsesTo(parsefiles, Len(parsefiles))
  BY <1>4, <1>7, <1>8, <1>11 DEF U0, R0
<1>19. s = [ap |-> n, string |-> v, ctx |-> parsefile.ctx]
  BY <1>5
<1>20. PICK string, len : string = v /\ len = ValueLength(v)
  OBVIOUS
<1> HIDE DEF v, sp
<1>21. /\ len \in Nat /\ pushstring(len, n, string)
       /\ s = [ap |-> n, string |-> string, ctx |-> parsefile.ctx]
  BY <1>2, <1>3, <1>19, <1>20
<1>22. \/ parsefile.ctx.unget = 1
       \/ parsefile.ctx.unget = 0 /\ parsefile.ctx.pos < parsefile.ctx.len
  BY <1>2
<1> QED BY <1>17, <1>18, <1>21, <1>22, TextPushed

LEMMA setaliasStep == ASSUME InputInv, NEW n \in Names, setalias(n) PROVE InputInv'
<1> DEFINE U == UsesTo(parsefiles, Len(parsefiles))
           R == ReadsTo(parsefiles, Len(parsefiles))
           v == Min(Values \ allocated)
<1>1. AliasesHold(atab, allocated, U, R)
  BY DEF InputInv
<1>2. /\ Values \ allocated # {}
      /\ atab' = [atab EXCEPT ![n].val = v, ![n].dead = FALSE]
      /\ allocated' = (allocated \cup {v}) \ FreedBySet(n) /\ parsefiles' = parsefiles
  BY DEF setalias
<1>3. v \in Values /\ v \notin allocated /\ v \in Nat /\ v # 0
  <2>1. (Values \ allocated) \in SUBSET Nat
    BY InputAssumption
  <2>2. v \in Values \ allocated
    BY <1>2, <2>1, MinIs
  <2> QED BY <2>2, InputAssumption
<1> HIDE DEF v
<1>9. /\ atab \in [Names -> AliasType] /\ 0 \notin allocated
      /\ \A m \in Names : atab[m].val # 0 => atab[m].val \in allocated
      /\ \A m, k \in Names : atab[m].val = atab[k].val /\ atab[m].val # 0 => m = k
      /\ {m \in Names : atab[m].inuse} = U
      /\ \A sq \in R : sq.ap \in U
  BY <1>1 DEF AliasesHold, AliasesRight
<1>10. /\ \A sq \in R : /\ sq.string \in allocated
                        /\ \A m \in Names : atab[m].val = sq.string => m = sq.ap
       /\ \A sq, sr \in R : sq.string = sr.string => sq.ap = sr.ap
  BY <1>1 DEF AliasesHold, ReadsRight
<1>12. /\ atab' \in [Names -> AliasType]
       /\ \A m \in Names : /\ atab'[m].val = IF m = n THEN v ELSE atab[m].val
                           /\ atab'[m].inuse = atab[m].inuse
  <2> DEFINE e == [atab[n] EXCEPT !.val = v, !.dead = FALSE]
  <2>1. e \in AliasType /\ e.val = v /\ e.inuse = atab[n].inuse
    <3> DEFINE d == [atab[n] EXCEPT !.val = v]
    <3>1. d \in AliasType /\ d.val = v /\ d.inuse = atab[n].inuse
      BY <1>3, <1>9 DEF AliasType
    <3>2. e = [d EXCEPT !.dead = FALSE]
      BY Zenon
    <3> HIDE DEF d, e
    <3> QED BY <3>1, <3>2 DEF AliasType
  <2>2. atab' = [atab EXCEPT ![n] = e]
    <3> DEFINE f == [atab EXCEPT ![n].val = v]
               d == [atab[n] EXCEPT !.val = v]
    <3>1. atab' = [f EXCEPT ![n].dead = FALSE]
      BY <1>2, Zenon
    <3>2. f \in [Names -> AliasType] /\ f[n] = d /\ \A m \in Names : m # n => f[m] = atab[m]
      <4>1. f = [atab EXCEPT ![n] = d] /\ d \in AliasType
        BY <1>3, <1>9 DEF AliasType
      <4> HIDE DEF f, d
      <4> QED BY <1>9, <4>1
    <3>3. e = [d EXCEPT !.dead = FALSE]
      BY Zenon
    <3> HIDE DEF f, d, e
    <3>4. atab' = [f EXCEPT ![n] = e]
      BY <3>1, <3>2, <3>3
    <3> QED BY <1>9, <3>2, <3>4
  <2> HIDE DEF e
  <2> QED BY <1>9, <2>1, <2>2
<1>13. \A x : x \in allocated' <=>
         (x \in allocated \/ x = v) /\ ~(~atab[n].inuse /\ x = atab[n].val /\ x # 0)
  BY <1>2 DEF FreedBySet
<1>14. v # atab[n].val
  BY <1>3, <1>9
<1>15. \A m \in Names : atab[m].val # v
  BY <1>3, <1>9
<1>16. AliasesRight(atab', allocated')
  BY <1>3, <1>9, <1>12, <1>13, <1>14, <1>15 DEF AliasesRight
<1>17. {m \in Names : atab'[m].inuse} = U
  BY <1>9, <1>12
<1>18. ReadsRight(atab', allocated', R)
  <2>1. ASSUME NEW sq \in R
        PROVE sq.string \in allocated' /\ \A m \in Names : atab'[m].val = sq.string => m = sq.ap
    <3>1. sq.string \in allocated /\ sq.string # v
      BY <1>3, <1>10
    <3>2. ~(~atab[n].inuse /\ sq.string = atab[n].val)
      BY <1>9, <1>10
    <3> QED BY <1>10, <1>12, <1>13, <3>1, <3>2
  <2> QED BY <1>10, <2>1 DEF ReadsRight
<1>19. AliasesHold(atab', allocated', U, R)
  BY <1>9, <1>16, <1>17, <1>18 DEF AliasesHold
<1> QED BY <1>2, <1>19, AliasesStep

LEMMA FreealiasStep == ASSUME InputInv, NEW ns \in SUBSET Names, Freealias(ns) PROVE InputInv'
<1> DEFINE U == UsesTo(parsefiles, Len(parsefiles))
           R == ReadsTo(parsefiles, Len(parsefiles))
<1>1. AliasesHold(atab, allocated, U, R)
  BY DEF InputInv
<1>2. /\ allocated' = allocated \ {atab[n].val : n \in {n \in ns : ~atab[n].inuse}}
      /\ parsefiles' = parsefiles
  BY DEF Freealias
<1>9. /\ atab \in [Names -> AliasType] /\ 0 \notin allocated
      /\ \A m \in Names : atab[m].val # 0 => atab[m].val \in allocated
      /\ \A m, k \in Names : atab[m].val = atab[k].val /\ atab[m].val # 0 => m = k
      /\ {m \in Names : atab[m].inuse} = U
      /\ \A sq \in R : sq.ap \in U
  BY <1>1 DEF AliasesHold, AliasesRight
<1>10. /\ \A sq \in R : /\ sq.string \in allocated
                        /\ \A m \in Names : atab[m].val = sq.string => m = sq.ap
       /\ \A sq, sr \in R : sq.string = sr.string => sq.ap = sr.ap
  BY <1>1 DEF AliasesHold, ReadsRight
<1>12. /\ atab' \in [Names -> AliasType]
       /\ \A m \in Names : /\ atab'[m].val = 0 \/ atab'[m].val = atab[m].val
                           /\ m \in ns /\ ~atab[m].inuse => atab'[m].val = 0
                           /\ atab'[m].inuse <=> atab[m].inuse
  <2> DEFINE after(m) == IF m \notin ns \/ atab[m].val = 0 THEN atab[m]
                         ELSE IF atab[m].inuse THEN [atab[m] EXCEPT !.dead = TRUE] ELSE NoAlias
  <2>1. atab' = [m \in Names |-> after(m)]
    BY DEF Freealias
  <2>2. ASSUME NEW m \in Names
        PROVE  /\ after(m) \in AliasType /\ (after(m).val = 0 \/ after(m).val = atab[m].val)
               /\ m \in ns /\ ~atab[m].inuse => after(m).val = 0
               /\ after(m).inuse <=> atab[m].inuse
    <3>1. atab[m] \in AliasType
      BY <1>9
    <3> QED BY <3>1 DEF AliasType, NoAlias
  <2> HIDE DEF after
  <2> QED BY <2>1, <2>2
<1>13. \A x : x \in allocated' <=>
         x \in allocated /\ ~\E m \in ns : ~atab[m].inuse /\ atab[m].val = x
  BY <1>2
<1>14. AliasesRight(atab', allocated')
  <2>1. ASSUME NEW m \in Names, atab'[m].val # 0 PROVE atab'[m].val \in allocated'
    <3>1. atab'[m].val = atab[m].val /\ atab[m].val # 0 /\ ~(m \in ns /\ ~atab[m].inuse)
      BY <1>12, <2>1
    <3>2. \A k \in ns : atab[k].val = atab[m].val => k = m
      BY <1>9, <3>1
    <3> QED BY <1>9, <1>13, <3>1, <3>2
  <2>2. \A m, k \in Names : atab'[m].val = atab'[k].val /\ atab'[m].val # 0 => m = k
    BY <1>9, <1>12
  <2> QED BY <1>9, <1>12, <1>13, <2>1, <2>2 DEF AliasesRight
<1>15. {m \in Names : atab'[m].inuse} = U
  BY <1>9, <1>12
<1>16. ReadsRight(atab', allocated', R)
  <2>1. ASSUME NEW sq \in R
        PROVE sq.string \in allocated' /\ \A m \in Names : atab'[m].val = sq.string => m = sq.ap
    <3>1. sq.string \in allocated /\ sq.string # 0 /\ sq.ap \in U
      BY <1>9, <1>10
    <3>2. \A m \in ns : atab[m].val = sq.string => atab[m].inuse
      BY <1>9, <1>10, <3>1
    <3> QED BY <1>10, <1>12, <1>13, <3>1, <3>2
  <2> QED BY <1>10, <2>1 DEF ReadsRight
<1>17. AliasesHold(atab', allocated', U, R)
  BY <1>9, <1>14, <1>15, <1>16 DEF AliasesHold
<1> QED BY <1>2, <1>17, AliasesStep

\* The files above the m-th go, with all their texts.
LEMMA FilesFreed ==
  ASSUME InputInv, NEW m \in Nat, m <= Len(parsefiles),
         NEW gone, gone = {parsefiles[k] : k \in (m + 1)..Len(parsefiles)}, FreesFiles(gone)
  PROVE  AliasesHold(atab', allocated', UsesTo(parsefiles, m), ReadsTo(parsefiles, m))
<1> DEFINE n == Len(parsefiles)
           U == UsesTo(parsefiles, n)
           R == ReadsTo(parsefiles, n)
           U1 == UsesTo(parsefiles, m)
           R1 == ReadsTo(parsefiles, m)
<1>1. n \in Nat /\ FilesHold(parsefiles, n) /\ AliasesHold(atab, allocated, U, R)
  BY Innermost DEF InputInv
<1>2. PICK texts, read : /\ texts = UNION {AllTexts(f) : f \in gone}
                         /\ read = UNION {ToSet(f.strs) : f \in gone}
  OBVIOUS
<1>3. freestrings(texts) /\ allocated' = allocated \ (FreedByUnalias(texts) \cup FreedByPop(read))
  BY <1>2 DEF FreesFiles
<1>4. /\ \A k \in 1..n : FileRight(parsefiles[k])
      /\ \A j, k \in 1..n : j # k => FileUses(parsefiles[j]) \cap FileUses(parsefiles[k]) = {}
  BY <1>1 DEF FilesHold
<1>5. \A k \in 1..n : k \in 1..m \/ k \in (m + 1)..n
  BY <1>1
<1>6. \A k \in 1..m : k \in 1..n /\ k \notin (m + 1)..n
  BY <1>1
<1>7. \A k \in (m + 1)..n : k \in 1..n
  BY <1>1
<1>8. \A x : x \in Users(texts) <=> \E k \in (m + 1)..n : x \in FileUses(parsefiles[k])
  <2>1. \A x : x \in Users(texts) <=> x # NoName /\ \E sp \in texts : sp.ap = x
    BY UsersAre
  <2>2. \A x, f : x \in FileUses(f) <=> x # NoName /\ \E sp \in AllTexts(f) : sp.ap = x
    BY UsersAre DEF FileUses
  <2>3. \A sp : sp \in texts <=> \E k \in (m + 1)..n : sp \in AllTexts(parsefiles[k])
    BY <1>2
  <2> QED BY <2>1, <2>2, <2>3
<1>9. /\ \A x : x \in U <=> \E k \in 1..n : x \in FileUses(parsefiles[k])
      /\ \A x : x \in U1 <=> \E k \in 1..m : x \in FileUses(parsefiles[k])
  BY DEF UsesTo
<1>10. /\ \A sp : sp \in R <=> \E k \in 1..n : sp \in ReadIn(parsefiles[k])
       /\ \A sp : sp \in R1 <=> \E k \in 1..m : sp \in ReadIn(parsefiles[k])
  BY DEF ReadsTo
<1>11. \A k \in 1..n : \A sp \in ReadIn(parsefiles[k]) : sp.ap \in FileUses(parsefiles[k])
  BY <1>4, ReadsAreUsed
<1> HIDE DEF n, U, R, U1, R1
<1>12. U = U1 \cup Users(texts)
  BY <1>5, <1>6, <1>7, <1>8, <1>9
<1>13. U1 \cap Users(texts) = {}
  <2>1. ASSUME NEW x \in U1, x \in Users(texts) PROVE FALSE
    <3>1. PICK j \in 1..m : x \in FileUses(parsefiles[j])
      BY <1>9
    <3>2. PICK k \in (m + 1)..n : x \in FileUses(parsefiles[k])
      BY <1>8, <2>1
    <3> QED BY <1>4, <1>6, <1>7, <3>1, <3>2
  <2> QED BY <2>1
<1>14. R1 \subseteq R /\ \A sp \in R1 : sp.ap \in U1
  BY <1>6, <1>9, <1>10, <1>11
<1>15. ASSUME NEW sp \in read, sp.ap # NoName PROVE sp \in R /\ \A sq \in R1 : sq.ap # sp.ap
  <2>1. PICK k \in (m + 1)..n : sp \in ToSet(parsefiles[k].strs)
    BY <1>2 DEF n
  <2>2. sp \in ReadIn(parsefiles[k])
    BY <1>15, <2>1 DEF ReadIn
  <2>3. sp \in R /\ sp.ap \in Users(texts)
    BY <1>7, <1>8, <1>10, <1>11, <2>2
  <2> QED BY <1>13, <1>14, <2>3
<1>16. AliasesHold(atab', allocated', U1, R1)
  BY <1>1, <1>3, <1>12, <1>13, <1>14, <1>15, FreedKeeps
<1> QED BY <1>16 DEF U1, R1

LEMMA popfileStep == ASSUME InputInv, popfile PROVE InputInv'
<1> DEFINE n == Len(parsefiles)
           m == n - 1
           g == Front(parsefiles)
<1>1. n > 1 /\ FreesFiles({parsefile}) /\ parsefiles' = g
  BY DEF popfile
<1>2. /\ n \in Nat \ {0} /\ parsefile = parsefiles[n] /\ FilesHold(parsefiles, m)
  BY Innermost
<1>3. IsSeq(parsefiles)
  BY DEF InputInv
<1>4. IsSeq(g) /\ Len(g) = m /\ \A k \in 1..m : g[k] = parsefiles[k]
  <2>1. parsefiles # <<>>
    BY <1>2
  <2> QED BY <1>3, <2>1, FrontIs
<1> HIDE DEF g, n
<1>5. m \in Nat /\ m >= 1 /\ m <= n
  BY <1>1, <1>2
<1>6. {parsefile} = {parsefiles[k] : k \in (m + 1)..n}
  <2>1. (m + 1)..n = {n}
    BY <1>2
  <2> QED BY <1>2, <2>1
<1>7. AliasesHold(atab', allocated', UsesTo(parsefiles, m), ReadsTo(parsefiles, m))
  <2> HIDE DEF m
  <2> QED BY <1>1, <1>5, <1>6, FilesFreed DEF n
<1>8. /\ FilesHold(g, m) /\ UsesTo(g, m) = UsesTo(parsefiles, m)
      /\ ReadsTo(g, m) = ReadsTo(parsefiles, m)
  <2> HIDE DEF m
  <2> QED BY <1>2, <1>4, <1>5, FilesAgree
<1> HIDE DEF m
<1> QED BY <1>1, <1>4, <1>5, <1>7, <1>8 DEF InputInv

LEMMA resetStep == ASSUME InputInv, reset PROVE InputInv'
<1> DEFINE n == Len(parsefiles)
           f == Head(parsefiles)
           g == Reads(f, Forgets(f.ctx, f.ctx.len, 0, <<>>), <<>>)
           fs == <<g>>
<1>1. FreesFiles(ToSet(Tail(parsefiles))) /\ parsefiles' = fs
  BY Zenon DEF reset, Reads, Forgets
<1>2. n \in Nat \ {0} /\ IsSeq(parsefiles) /\ parsefiles # <<>> /\ FilesHold(parsefiles, n)
  <2>1. n \in Nat \ {0} /\ IsSeq(parsefiles) /\ FilesHold(parsefiles, n)
    BY Innermost DEF InputInv
  <2> QED BY <2>1
<1>3. /\ IsSeq(Tail(parsefiles)) /\ Len(Tail(parsefiles)) = n - 1 /\ f = parsefiles[1]
      /\ \A k \in 1..(n - 1) : Tail(parsefiles)[k] = parsefiles[k + 1]
  BY <1>2, TailIs
<1>4. ToSet(Tail(parsefiles)) = {parsefiles[k] : k \in (1 + 1)..n}
  <2>1. PICK t : t = Tail(parsefiles)
    OBVIOUS
  <2> HIDE DEF n
  <2>2. IsSeq(t) /\ Len(t) = n - 1 /\ \A k \in 1..(n - 1) : t[k] = parsefiles[k + 1]
    BY <1>3, <2>1
  <2>3. \A x : x \in ToSet(t) <=> \E k \in 1..(n - 1) : t[k] = x
    BY <2>2, ToSetIs
  <2>4. ASSUME NEW k \in (1 + 1)..n PROVE k - 1 \in 1..(n - 1) /\ t[k - 1] = parsefiles[k]
    <3>1. k - 1 \in 1..(n - 1) /\ (k - 1) + 1 = k
      BY <1>2
    <3> QED BY <2>2, <3>1
  <2>5. \A k \in 1..(n - 1) : k + 1 \in (1 + 1)..n
    BY <1>2
  <2>6. ASSUME NEW x \in ToSet(t) PROVE \E k \in (1 + 1)..n : parsefiles[k] = x
    <3>1. PICK k \in 1..(n - 1) : t[k] = x
      BY <2>3
    <3> QED BY <2>2, <2>5, <3>1
  <2>7. \A k \in (1 + 1)..n : parsefiles[k] \in ToSet(t)
    BY <2>3, <2>4
  <2> QED BY <2>1, <2>6, <2>7
<1>5. /\ FileRight(f) /\ UsesApart(f)
      /\ UsesTo(parsefiles, 1) = FileUses(f) /\ ReadsTo(parsefiles, 1) = ReadIn(f)
  <2>1. FileRight(parsefiles[1]) /\ UsesApart(parsefiles[1])
    BY <1>2 DEF FilesHold
  <2>2. UsesTo(parsefiles, 1) = FileUses(parsefiles[1])
    BY DEF UsesTo
  <2>3. ReadsTo(parsefiles, 1) = ReadIn(parsefiles[1])
    BY DEF ReadsTo
  <2> QED BY <1>3, <2>1, <2>2, <2>3
<1>6. /\ FileRight(g) /\ FileUses(g) = FileUses(f) /\ ReadIn(g) = ReadIn(f) /\ UsesApart(g)
  <2>1. FileRight(g) /\ g.strs = f.strs /\ g.ctx.spfree = f.ctx.spfree
    BY <1>5, ForgetsKeeps
  <2> HIDE DEF f, g
  <2> QED BY <1>5, <2>1, SameUses
<1> HIDE DEF g, f
<1>7. AliasesHold(atab', allocated', UsesTo(parsefiles, 1), ReadsTo(parsefiles, 1))
  <2>1. 1 \in Nat /\ 1 <= n
    BY <1>2
  <2> QED BY <1>1, <1>4, <2>1, FilesFreed
<1>8. IsSeq(fs) /\ Len(fs) = 1 /\ fs[1] = g
  <2>1. fs \in Seq({g})
    OBVIOUS
  <2> QED BY <2>1, IsSeqs
<1>9. FilesHold(fs, 1) /\ UsesTo(fs, 1) = FileUses(g) /\ ReadsTo(fs, 1) = ReadIn(g)
  <2>1. FilesHold(fs, 1)
    BY <1>6, <1>8 DEF FilesHold
  <2>2. UsesTo(fs, 1) = FileUses(g)
    BY <1>8 DEF UsesTo
  <2>3. ReadsTo(fs, 1) = ReadIn(g)
    BY <1>8 DEF ReadsTo
  <2> QED BY <2>1, <2>2, <2>3
<1> HIDE DEF fs
<1> QED BY <1>1, <1>5, <1>6, <1>7, <1>8, <1>9 DEF InputInv

LEMMA NewFileUses ==
  /\ FileRight(NewFile) /\ UsesApart(NewFile)
  /\ FileUses(NewFile) = {} /\ ReadIn(NewFile) = {}
<1> DEFINE f == NewFile
<1>1. FileRight(f) /\ f.strs = <<>> /\ f.ctx.spfree = <<>>
  BY NewFileIs
<1> HIDE DEF f
<1>2. ToSet(f.strs) = {} /\ ToSet(f.ctx.spfree) = {} /\ Len(f.strs) = 0
  BY <1>1, EmptyIs
<1>3. FileUses(f) = {} /\ ReadIn(f) = {}
  <2>1. AllTexts(f) = {}
    BY <1>2 DEF AllTexts
  <2>2. FileUses(f) = Users({})
    BY <2>1 DEF FileUses
  <2> QED BY <1>2, <2>2, UsersAre DEF ReadIn
<1>4. UsesApart(f)
  BY <1>2 DEF UsesApart
<1> QED BY <1>1, <1>3, <1>4 DEF f

LEMMA pushfileStep == ASSUME InputInv, pushfile PROVE InputInv'
<1> DEFINE n == Len(parsefiles)
           f == [parsefiles[n] EXCEPT !.last = <<>>]
           below == [parsefiles EXCEPT ![n] = f]
           g == Append(below, NewFile)
<1>1. /\ n \in Nat \ {0} /\ parsefile = parsefiles[n] /\ FilesHold(parsefiles, n - 1)
      /\ FileRight(parsefile) /\ UsesApart(parsefile)
      /\ FileUses(parsefile) \cap UsesTo(parsefiles, n - 1) = {}
      /\ IsSeq(parsefiles) /\ n >= 1
  BY Innermost DEF InputInv
<1>2. /\ parsefiles' = g /\ UNCHANGED <<atab, allocated>>
      /\ AliasesHold(atab, allocated, UsesTo(parsefiles, n - 1) \cup FileUses(parsefile),
                     ReadsTo(parsefiles, n - 1) \cup ReadIn(parsefile))
  <2>1. parsefiles' = Append([parsefiles EXCEPT ![n].last = <<>>], NewFile)
    BY DEF pushfile
  <2>2. [parsefiles EXCEPT ![n].last = <<>>] = below
    OBVIOUS
  <2> QED BY <2>1, <2>2, Innermost DEF pushfile
<1>3. FileRight(f) /\ f.strs = parsefile.strs /\ f.ctx = parsefile.ctx
  <2>1. f = [parsefile EXCEPT !.last = <<>>]
    BY <1>1
  <2> QED BY <1>1, <2>1, ForgetsKeeps
<1> HIDE DEF f
<1>4. FileUses(f) = FileUses(parsefile) /\ ReadIn(f) = ReadIn(parsefile) /\ UsesApart(f)
  <2>1. f.strs = parsefile.strs /\ f.ctx.spfree = parsefile.ctx.spfree
    BY <1>3
  <2> QED BY <1>1, <2>1, SameUses
<1>5. /\ IsSeq(below) /\ Len(below) = n /\ below[n] = f
      /\ \A k \in 1..(n - 1) : below[k] = parsefiles[k]
  BY <1>1, ReplacedIs
<1> HIDE DEF below, n
<1>6. /\ IsSeq(g) /\ Len(g) = n + 1 /\ g[n + 1] = NewFile
      /\ \A k \in 1..n : g[k] = below[k]
  BY <1>5, AppendedIs
<1> HIDE DEF g
<1> DEFINE m == n - 1
           p == n + 1
<1>7. m \in Nat /\ p \in Nat \ {0} /\ p - 1 = n /\ n \in Nat /\ n >= 1
  BY <1>1
<1>8. /\ \A k \in 1..m : g[k] = parsefiles[k]
      /\ g[n] = f
  <2>1. \A k \in 1..m : k \in 1..n
    BY <1>7
  <2>2. n \in 1..n
    BY <1>7
  <2> QED BY <1>5, <1>6, <2>1, <2>2
<1>9. /\ FilesHold(g, m) /\ UsesTo(g, m) = UsesTo(parsefiles, m)
      /\ ReadsTo(g, m) = ReadsTo(parsefiles, m)
  <2>1. FilesHold(parsefiles, m)
    BY <1>1
  <2> HIDE DEF m
  <2> QED BY <1>7, <1>8, <2>1, FilesAgree
<1>10. /\ FilesHold(g, n) /\ UsesTo(g, n) = UsesTo(parsefiles, m) \cup FileUses(parsefile)
       /\ ReadsTo(g, n) = ReadsTo(parsefiles, m) \cup ReadIn(parsefile)
  BY <1>1, <1>3, <1>4, <1>8, <1>9, FilesSplit
<1>11. FilesHold(g, p) /\ UsesTo(g, p) = UsesTo(g, n) /\ ReadsTo(g, p) = ReadsTo(g, n)
  <2>1. /\ FilesHold(g, p - 1) /\ FileRight(g[p]) /\ UsesApart(g[p]) /\ FileUses(g[p]) = {}
        /\ ReadIn(g[p]) = {} /\ FileUses(g[p]) \cap UsesTo(g, p - 1) = {}
    BY <1>6, <1>7, <1>10, NewFileUses
  <2>2. /\ FilesHold(g, p)
        /\ UsesTo(g, p) = UsesTo(g, p - 1) \cup FileUses(g[p])
        /\ ReadsTo(g, p) = ReadsTo(g, p - 1) \cup ReadIn(g[p])
    <3> HIDE DEF p
    <3> QED BY <1>7, <2>1, FilesSplit
  <2> QED BY <1>7, <2>1, <2>2
<1>12. AliasesHold(atab', allocated', UsesTo(g, p), ReadsTo(g, p))
  BY <1>2, <1>10, <1>11
<1>13. Len(g) = p /\ p >= 1
  BY <1>6, <1>7
<1> HIDE DEF p
<1> QED BY <1>2, <1>6, <1>11, <1>12, <1>13 DEF InputInv

LEMMA InputInitHolds == InputInit => InputInv
<1> SUFFICES ASSUME InputInit PROVE InputInv
  OBVIOUS
<1> DEFINE fs == <<NewFile>>
<1>1. /\ parsefiles = fs /\ atab = [n \in Names |-> NoAlias] /\ allocated = {}
  BY DEF InputInit
<1>2. IsSeq(fs) /\ Len(fs) = 1 /\ fs[1] = NewFile
  <2>1. fs \in Seq({NewFile})
    OBVIOUS
  <2> QED BY <2>1, IsSeqs
<1> HIDE DEF fs
<1>3. FilesHold(fs, 1) /\ UsesTo(fs, 1) = {} /\ ReadsTo(fs, 1) = {}
  BY <1>2, NewFileUses DEF FilesHold, UsesTo, ReadsTo
<1>4. \A n \in Names : atab[n] = NoAlias
  BY <1>1
<1>5. AliasesRight(atab, allocated)
  BY <1>1, <1>4 DEF AliasesRight, AliasType, NoAlias
<1>6. AliasesHold(atab, allocated, {}, {})
  BY <1>4, <1>5 DEF AliasesHold, ReadsRight, NoAlias
<1> QED BY <1>1, <1>2, <1>3, <1>6 DEF InputInv

LEMMA InputNextKeeps == ASSUME InputInv, InputNext PROVE InputInv'
<1>1. CASE pgetc
  BY <1>1, pgetcStep
<1>2. CASE pungetc
  BY <1>2, pungetcStep
<1>3. CASE more_heredoc
  BY <1>3, more_heredocStep
<1>4. ASSUME NEW n \in Names, expand_alias(n) PROVE InputInv'
  BY <1>4, expand_aliasStep
<1>5. ASSUME NEW n \in Names, setalias(n) PROVE InputInv'
  BY <1>5, setaliasStep
<1>6. ASSUME NEW n \in Names, unalias(n) PROVE InputInv'
  BY <1>6, FreealiasStep DEF unalias
<1>7. CASE rmaliases
  BY <1>7, FreealiasStep DEF rmaliases
<1>8. CASE pushfile
  BY <1>8, pushfileStep
<1>9. CASE popfile
  BY <1>9, popfileStep
<1>10. CASE reset
  BY <1>10, resetStep
<1> QED BY <1>1, <1>2, <1>3, <1>4, <1>5, <1>6, <1>7, <1>8, <1>9, <1>10 DEF InputNext

LEMMA InputInvSound == InputInv => AliasesSound
<1> SUFFICES ASSUME InputInv PROVE AliasesSound
  OBVIOUS
<1> DEFINE n == Len(parsefiles)
           U == UsesTo(parsefiles, n)
           R == ReadsTo(parsefiles, n)
<1>1. IsSeq(parsefiles) /\ FilesHold(parsefiles, n) /\ AliasesHold(atab, allocated, U, R)
  BY DEF InputInv
<1>2. /\ n \in Nat /\ DOMAIN parsefiles = 1..n
      /\ \A f : f \in ToSet(parsefiles) <=> \E k \in 1..n : parsefiles[k] = f
  <2>1. parsefiles \in Seq(ToSet(parsefiles))
    BY <1>1 DEF IsSeq
  <2> QED BY <1>1, <2>1, ToSetIs, LenProperties
<1> HIDE DEF n
<1>3. InUseExact
  <2>1. U = UNION {FileUses(parsefiles[k]) : k \in 1..n}
    BY DEF UsesTo
  <2>2. \A x : x \in UNION {Users(AllTexts(f)) : f \in ToSet(parsefiles)} <=>
               \E k \in 1..n : x \in FileUses(parsefiles[k])
    BY <1>2 DEF FileUses
  <2>3. U = UNION {Users(AllTexts(f)) : f \in ToSet(parsefiles)}
    BY <2>1, <2>2
  <2> QED BY <1>1, <2>3 DEF AliasesHold, InUseExact
<1>4. ValuesKept
  <2>1. {atab[x].val : x \in Names} \ {0} \subseteq allocated
    BY <1>1 DEF AliasesHold, AliasesRight
  <2>2. ASSUME NEW k \in DOMAIN parsefiles, NEW sp \in ToSet(parsefiles[k].strs), sp.ap # NoName
        PROVE  sp.string \in allocated
    <3>1. sp \in R
      BY <1>2, <2>2 DEF ReadsTo, ReadIn
    <3> QED BY <1>1, <3>1 DEF AliasesHold, ReadsRight
  <2> QED BY <2>1, <2>2 DEF ValuesKept
<1> QED BY <1>3, <1>4 DEF AliasesSound

-----------------------------------------------------------------------------
\* How commands are found (Exec).

\* What find_command may trust when it has found the command at place k of the
\* path before: where the absolute directories up to there have it.
PrefixRight(p, k) ==
  \A j \in Places(p) :
    At(p, j) = "abs" => (j < k => "abs" \notin files) /\ (j = k => "abs" \in files)

\* builtinloc of a path.
Locate(p) == IF BuiltinPlace(p) = Len(p) THEN -1 ELSE BuiltinPlace(p)

BuiltinComesFirst == builtincmd = "regular" \/ (builtincmd = "other" /\ builtinloc <= 0)

FunctionEntry(e) == e \in [type : {"function"}, param : Functions, rehash : {FALSE}]

BuiltinEntry(e) ==
  /\ e \in [type : {"builtin"}, param : {0}, rehash : BOOLEAN]
  /\ builtincmd # "no"
  /\ BuiltinComesFirst \/ PrefixRight(path, builtinloc)
  /\ e.rehash \/ BuiltinComesFirst \/ Searched(path, -1) = Builtin

NormalEntry(e) ==
  /\ e \in [type : {"normal"}, param : Places(path), rehash : BOOLEAN]
  /\ ~BuiltinComesFirst
  /\ PrefixRight(path, e.param)
  /\ e.rehash \/ Searched(path, -1) = Normal(e.param)

\* What the table may have for the name.
EntryRight(e) == e = NoEntry \/ FunctionEntry(e) \/ BuiltinEntry(e) \/ NormalEntry(e)

Runs(f, runs) == {i \in 1..Len(runs) : runs[i] = f}

\* Each function is counted as often as it runs, and once for its definition.
CountsRight(counts, runs, e) ==
  /\ runs \in Seq(Functions)
  /\ counts \in [Functions -> Int]
  /\ \A f \in Functions :
       counts[f] = Cardinality(Runs(f, runs))
                     - (IF e.type = "function" /\ e.param = f THEN 0 ELSE 1)

\* The inductive invariant of the table of commands.
ExecInv ==
  /\ builtincmd \in {"no", "regular", "other"}
  /\ path \in Paths \cup {defpath} /\ builtinloc = Locate(path)
  /\ EntryRight(cmdentry)
  /\ CountsRight(fcount, running, cmdentry)

LEMMA PathIs ==
  ASSUME NEW p \in Paths \cup {defpath}
  PROVE  /\ Len(p) \in Nat
         /\ \A k \in Places(p) : /\ k \in Nat /\ k < Len(p)
                                 /\ At(p, k) \in {"abs", "rel", "%builtin"}
<1>1. p \in Seq({"abs", "rel", "%builtin"})
  BY ExecAssumption
<1>2. Len(p) \in Nat
  BY <1>1
<1>3. ASSUME NEW k \in Places(p)
      PROVE  k \in Nat /\ k < Len(p) /\ At(p, k) \in {"abs", "rel", "%builtin"}
  <2>1. k \in Nat /\ k < Len(p)
    BY <1>2 DEF Places
  <2>2. k + 1 \in 1..Len(p)
    BY <1>2, <2>1
  <2>3. p[k + 1] \in {"abs", "rel", "%builtin"}
    BY <1>1, <2>2
  <2> QED BY <2>1, <2>3 DEF At
<1> QED BY <1>2, <1>3

\* builtinloc is the first place of %builtin, or -1.
LEMMA LocateIs ==
  ASSUME NEW p \in Paths \cup {defpath}
  PROVE  /\ Locate(p) = -1 \/ (Locate(p) \in Places(p) /\ At(p, Locate(p)) = "%builtin")
         /\ \A k \in Places(p) : At(p, k) = "%builtin" => Locate(p) # -1 /\ Locate(p) <= k
         /\ BuiltinPlace(p) \in {0, Len(p)} <=> Locate(p) <= 0
<1> DEFINE S == {k \in Places(p) : At(p, k) = "%builtin"} \cup {Len(p)}
           m == BuiltinPlace(p)
<1>1. /\ Len(p) \in Nat
      /\ \A k \in Places(p) : k \in Nat /\ k < Len(p)
  BY PathIs
<1>2. S \in SUBSET Nat /\ S # {}
  BY <1>1
<1>3. m = Min(S)
  BY DEF BuiltinPlace
<1>4. m \in S /\ \A y \in S : m <= y
  BY <1>2, <1>3, MinIs
<1>5. m = Len(p) \/ (m \in Places(p) /\ At(p, m) = "%builtin")
  BY <1>4
<1>6. ASSUME NEW k \in Places(p), At(p, k) = "%builtin" PROVE m <= k /\ m # Len(p)
  <2>1. k \in S
    BY <1>6
  <2> QED BY <1>1, <1>2, <1>4, <2>1
<1>7. m \in Nat
  BY <1>2, <1>4
<1> HIDE DEF S, m
<1>8. BuiltinPlace(p) = m
  BY DEF m
<1>9. Locate(p) = IF m = Len(p) THEN -1 ELSE m
  BY <1>8 DEF Locate
<1> QED BY <1>1, <1>5, <1>6, <1>7, <1>8, <1>9

LEMMA DefpathIs == Locate(defpath) = -1
<1>1. ASSUME NEW k \in Places(defpath) PROVE At(defpath, k) # "%builtin"
  <2>1. defpath \in Seq({"abs", "rel", "%builtin"}) /\ "%builtin" \notin ToSet(defpath)
    BY ExecAssumption
  <2>2. k + 1 \in 1..Len(defpath)
    BY <2>1 DEF Places
  <2>3. defpath[k + 1] \in ToSet(defpath)
    BY <2>1, <2>2 DEF ToSet
  <2> QED BY <2>1, <2>3 DEF At
<1> QED BY <1>1, LocateIs

\* What a search from scratch finds, and what may be trusted of it later.
LEMMA SearchedIs ==
  ASSUME NEW p \in Paths \cup {defpath}
  PROVE  \/ Searched(p, -1) = Unknown
         \/ Searched(p, -1) = Builtin /\ builtincmd # "no" /\ PrefixRight(p, Locate(p))
         \/ \E k \in Places(p) : Searched(p, -1) = Normal(k) /\ PrefixRight(p, k)
<1> DEFINE hits == {k \in Places(p) : IsAt(p, -1, k)}
           m == Min(hits)
<1>1. Searched(p, -1) = IF hits = {} THEN Unknown
                        ELSE IF At(p, m) = "%builtin" THEN Builtin ELSE Normal(m)
  BY DEF Searched
<1>2. CASE hits = {}
  BY <1>1, <1>2
<1>3. CASE hits # {}
  <2>1. \A k \in Places(p) : /\ k \in Nat /\ At(p, k) \in {"abs", "rel", "%builtin"}
    BY PathIs
  <2>2. hits \in SUBSET Nat
    BY <2>1
  <2>3. m \in hits /\ \A y \in hits : m <= y
    BY <1>3, <2>2, MinIs
  <2>4. m \in Places(p) /\ IsAt(p, -1, m) /\ m \in Nat
    BY <2>1, <2>3
  <2>5. ASSUME NEW j \in Places(p), At(p, j) = "abs"
        PROVE  (j < m => "abs" \notin files) /\ (j = m => "abs" \in files)
    <3>1. IsAt(p, -1, j) <=> "abs" \in files
      BY <2>1, <2>5 DEF IsAt
    <3>2. j < m => ~IsAt(p, -1, j)
      BY <2>1, <2>3, <2>4
    <3> QED BY <2>4, <3>1, <3>2
  <2>6. PrefixRight(p, m)
    BY <2>5 DEF PrefixRight
  <2>7. CASE At(p, m) = "%builtin"
    <3>1. builtincmd # "no"
      BY <2>4, <2>7 DEF IsAt
    <3>2. Locate(p) \in Places(p) /\ At(p, Locate(p)) = "%builtin" /\ Locate(p) <= m
      BY <2>4, <2>7, LocateIs
    <3>3. Locate(p) \in hits
      BY <3>1, <3>2 DEF IsAt
    <3>4. Locate(p) = m
      BY <2>1, <2>3, <2>4, <3>2, <3>3
    <3> HIDE DEF hits, m
    <3> QED BY <1>1, <1>3, <2>6, <2>7, <3>1, <3>4
  <2>8. CASE At(p, m) # "%builtin"
    <3> HIDE DEF hits, m
    <3> QED BY <1>1, <1>3, <2>4, <2>6, <2>8
  <2> QED BY <2>7, <2>8
<1> QED BY <1>2, <1>3

\* Where the prefix is right, to trust it finds the same.
LEMMA TrustedIs ==
  ASSUME NEW p \in Paths \cup {defpath}, NEW prev \in Int,
         prev = -1 \/ PrefixRight(p, prev)
  PROVE  Searched(p, prev) = Searched(p, -1)
<1>1. \A k \in Places(p) : IsAt(p, prev, k) <=> IsAt(p, -1, k)
  BY PathIs DEF PrefixRight, IsAt
<1>2. {k \in Places(p) : IsAt(p, prev, k)} = {k \in Places(p) : IsAt(p, -1, k)}
  BY <1>1
<1> QED BY <1>2 DEF Searched

EntryOf(hit) == IF hit = Unknown THEN NoEntry ELSE Entry(hit)

LEMMA EntriesAre ==
  /\ EntryOf(Builtin) = [type |-> "builtin", param |-> 0, rehash |-> FALSE]
  /\ \A k : EntryOf(Normal(k)) = [type |-> "normal", param |-> k, rehash |-> FALSE]
<1>1. Builtin # Unknown
  BY DEF Builtin, Unknown
<1>2. Builtin.type = "builtin" /\ Builtin.param = 0
  BY DEF Builtin
<1>3. ASSUME NEW k
      PROVE  EntryOf(Normal(k)) = [type |-> "normal", param |-> k, rehash |-> FALSE]
  <2>1. Normal(k).type = "normal" /\ Normal(k).param = k
    BY DEF Normal
  <2>2. Unknown.type = "unknown"
    BY DEF Unknown
  <2>3. Normal(k) # Unknown
    BY <2>1, <2>2
  <2> QED BY <2>1, <2>3 DEF EntryOf, Entry
<1> QED BY <1>1, <1>2, <1>3 DEF EntryOf, Entry

\* An entry by its type.
LEMMA EntryTypes ==
  ASSUME NEW e, EntryRight(e)
  PROVE  /\ e.type \in {"none", "function", "builtin", "normal"}
         /\ e.type = "none" => e = NoEntry
         /\ e.type = "function" => FunctionEntry(e)
         /\ e.type = "builtin" => BuiltinEntry(e)
         /\ e.type = "normal" => NormalEntry(e)
<1>1. e = NoEntry => e.type = "none"
  BY DEF NoEntry
<1>2. FunctionEntry(e) => e.type = "function"
  BY DEF FunctionEntry
<1>3. BuiltinEntry(e) => e.type = "builtin"
  BY DEF BuiltinEntry
<1>4. NormalEntry(e) => e.type = "normal"
  <2>1. ASSUME NEW P, e \in [type : {"normal"}, param : P, rehash : BOOLEAN]
        PROVE  e.type = "normal"
    BY <2>1
  <2> QED BY <2>1 DEF NormalEntry
<1> QED BY <1>1, <1>2, <1>3, <1>4 DEF EntryRight

\* The entry of what a search from scratch finds is right.
LEMMA EntryOfSearched ==
  ASSUME ExecInv, ~BuiltinComesFirst
  PROVE  EntryRight(EntryOf(Searched(path, -1)))
                 /\ EntryOf(Searched(path, -1)).type # "function"
<1> DEFINE hit == Searched(path, -1)
           e == EntryOf(hit)
<1>1. path \in Paths \cup {defpath} /\ builtinloc = Locate(path)
  BY DEF ExecInv
<1>2. CASE hit = Unknown
  BY <1>2 DEF EntryOf, EntryRight, NoEntry
<1>3. CASE hit = Builtin /\ builtincmd # "no" /\ PrefixRight(path, Locate(path))
  <2>1. e = [type |-> "builtin", param |-> 0, rehash |-> FALSE]
    BY <1>3, EntriesAre
  <2> HIDE DEF e
  <2>2. e \in [type : {"builtin"}, param : {0}, rehash : BOOLEAN] /\ e.rehash = FALSE
    BY <2>1
  <2>3. BuiltinEntry(e)
    BY <1>1, <1>3, <2>2 DEF BuiltinEntry
  <2>4. EntryRight(e) /\ e.type # "function"
    BY <2>1, <2>3 DEF EntryRight
  <2> QED BY <2>4 DEF e
<1>4. ASSUME NEW k \in Places(path), hit = Normal(k), PrefixRight(path, k)
      PROVE  EntryRight(e) /\ e.type # "function"
  <2>1. e = [type |-> "normal", param |-> k, rehash |-> FALSE]
    BY <1>4, EntriesAre
  <2> HIDE DEF e
  <2>2. e \in [type : {"normal"}, param : Places(path), rehash : BOOLEAN] /\ e.param = k
    BY <1>4, <2>1
  <2>3. NormalEntry(e)
    BY <1>4, <2>2 DEF NormalEntry
  <2>4. EntryRight(e) /\ e.type # "function"
    BY <2>1, <2>3 DEF EntryRight
  <2> QED BY <2>4 DEF e
<1>5. \/ hit = Unknown
      \/ hit = Builtin /\ builtincmd # "no" /\ PrefixRight(path, Locate(path))
      \/ \E k \in Places(path) : hit = Normal(k) /\ PrefixRight(path, k)
  BY <1>1, SearchedIs
<1> QED BY <1>2, <1>3, <1>4, <1>5

LEMMA EntryOfBuiltin ==
  ASSUME builtincmd # "no", BuiltinComesFirst
  PROVE  EntryRight(Entry(Builtin)) /\ Entry(Builtin).type # "function"
<1>1. Entry(Builtin) = [type |-> "builtin", param |-> 0, rehash |-> FALSE]
  BY DEF Entry, Builtin
<1>2. BuiltinEntry(Entry(Builtin))
  BY <1>1 DEF BuiltinEntry
<1> QED BY <1>1, <1>2 DEF EntryRight

\* Found by its cases: found, forbidden, trusted, a builtin that comes first,
\* not to be found yet, searched for.
LEMMA FoundIs ==
  ASSUME NEW act
  PROVE  LET forbidden == act \cap Forbids(cmdentry.type)
             usable    == cmdentry.type # "none" /\ forbidden = {}
             updatetbl == "ALTPATH" \notin act /\ forbidden = {}
             prev      == IF ~usable THEN -1
                          ELSE IF cmdentry.type = "builtin" THEN builtinloc ELSE cmdentry.param
             searched  == Searched(IF "ALTPATH" \in act THEN defpath ELSE path, prev)
         IN  Found(act) =
               IF "REGBLTIN" \in forbidden THEN [found |-> Unknown, entry |-> cmdentry]
               ELSE IF usable /\ ~cmdentry.rehash
               THEN [found |-> [type |-> cmdentry.type, param |-> cmdentry.param],
                     entry |-> cmdentry]
               ELSE IF builtincmd # "no" /\ BuiltinFirst(act)
               THEN [found |-> Builtin, entry |-> IF updatetbl THEN Entry(Builtin) ELSE cmdentry]
               ELSE IF "REGBLTIN" \in act THEN [found |-> Unknown, entry |-> cmdentry]
               ELSE [found |-> searched,
                     entry |-> IF updatetbl THEN EntryOf(searched) ELSE cmdentry]
<1>1. Builtin # Unknown
  BY DEF Builtin, Unknown
<1> QED BY <1>1 DEF Found, EntryOf

\* The command that find_command finds, and the entry it leaves.
LEMMA FoundRight ==
  ASSUME ExecInv, NEW act \in Acts
  PROVE  /\ EntryRight(Found(act).entry)
         /\ act # {"REGBLTIN"} => Found(act).found = Proper(act)
         /\ \/ Found(act).entry = cmdentry
            \/ cmdentry.type # "function" /\ Found(act).entry.type # "function"
<1> DEFINE forbidden == act \cap Forbids(cmdentry.type)
           usable    == cmdentry.type # "none" /\ forbidden = {}
           updatetbl == "ALTPATH" \notin act /\ forbidden = {}
           prev      == IF ~usable THEN -1
                        ELSE IF cmdentry.type = "builtin" THEN builtinloc ELSE cmdentry.param
           p         == IF "ALTPATH" \in act THEN defpath ELSE path
           searched  == Searched(p, prev)
           first     == builtincmd = "regular"
                          \/ (builtincmd = "other" /\ BuiltinPlace(p) \in {0, Len(p)})
<1>1. Found(act) =
        IF "REGBLTIN" \in forbidden THEN [found |-> Unknown, entry |-> cmdentry]
        ELSE IF usable /\ ~cmdentry.rehash
        THEN [found |-> [type |-> cmdentry.type, param |-> cmdentry.param],
              entry |-> cmdentry]
        ELSE IF builtincmd # "no" /\ BuiltinFirst(act)
        THEN [found |-> Builtin, entry |-> IF updatetbl THEN Entry(Builtin) ELSE cmdentry]
        ELSE IF "REGBLTIN" \in act THEN [found |-> Unknown, entry |-> cmdentry]
        ELSE [found |-> searched,
              entry |-> IF updatetbl THEN EntryOf(searched) ELSE cmdentry]
  BY FoundIs
<1>2. /\ builtincmd \in {"no", "regular", "other"}
      /\ path \in Paths \cup {defpath} /\ builtinloc = Locate(path)
      /\ EntryRight(cmdentry)
  BY DEF ExecInv
<1>3. /\ "REGBLTIN" \in act <=> act = {"REGBLTIN"}
      /\ "ALTPATH" \in act => "NOFUNC" \in act
      /\ "REGBLTIN" \in act => "ALTPATH" \notin act /\ "NOFUNC" \notin act
  BY DEF Acts
<1>4. /\ cmdentry.type = "function" =>
           forbidden = act \cap {"NOFUNC"} /\ cmdentry.rehash = FALSE
      /\ cmdentry.type = "normal" => forbidden = act \cap {"ALTPATH", "REGBLTIN"}
      /\ cmdentry.type = "builtin" => forbidden = {} \/ "REGBLTIN" \in forbidden
      /\ cmdentry.type \in {"none", "function", "builtin", "normal"}
  <2>1. cmdentry.type = "builtin" => forbidden = {} \/ "REGBLTIN" \in forbidden
    <3>1. CASE cmdentry.type = "builtin" /\ builtincmd = "regular"
      BY <3>1 DEF Forbids
    <3>2. CASE cmdentry.type = "builtin" /\ builtincmd # "regular"
      <4>1. forbidden = act \cap {"REGBLTIN"}
        BY <3>2 DEF Forbids
      <4> QED BY <4>1
    <3> QED BY <3>1, <3>2
  <2>2. cmdentry.type = "function" => forbidden = act \cap {"NOFUNC"}
    BY DEF Forbids
  <2>3. cmdentry.type = "normal" => forbidden = act \cap {"ALTPATH", "REGBLTIN"}
    BY DEF Forbids
  <2>4. cmdentry.type = "function" => cmdentry.rehash = FALSE
    BY <1>2, EntryTypes DEF FunctionEntry
  <2>5. cmdentry.type \in {"none", "function", "builtin", "normal"}
    BY <1>2, EntryTypes
  <2> HIDE DEF forbidden
  <2> QED BY <2>1, <2>2, <2>3, <2>4, <2>5
<1>5. /\ p \in Paths \cup {defpath}
      /\ BuiltinPlace(p) \in {0, Len(p)} <=> Locate(p) <= 0
      /\ "ALTPATH" \in act => Locate(p) = -1
      /\ "ALTPATH" \notin act => p = path /\ builtinloc = Locate(p)
  <2>1. p \in Paths \cup {defpath}
    BY <1>2
  <2>2. BuiltinPlace(p) \in {0, Len(p)} <=> Locate(p) <= 0
    BY <2>1, LocateIs
  <2> QED BY <1>2, <2>1, <2>2, DefpathIs
<1>6. /\ first <=> builtincmd # "no" /\ BuiltinFirst(act)
      /\ "ALTPATH" \notin act => (first <=> BuiltinComesFirst)
      /\ "ALTPATH" \in act /\ builtincmd # "no" => first
  <2> HIDE DEF p
  <2>1. first <=> builtincmd = "regular" \/ (builtincmd = "other" /\ Locate(p) <= 0)
    BY <1>5
  <2> HIDE DEF first
  <2>2. CASE "ALTPATH" \in act
    <3>1. Locate(p) = -1
      BY <1>5, <2>2
    <3> QED BY <1>2, <2>1, <2>2, <3>1 DEF BuiltinFirst
  <2>3. CASE "ALTPATH" \notin act
    <3>1. builtinloc = Locate(p)
      BY <1>5, <2>3
    <3> QED BY <1>2, <2>1, <2>3, <3>1 DEF BuiltinFirst, BuiltinComesFirst
  <2> QED BY <2>2, <2>3
<1>7. Proper(act) = IF cmdentry.type = "function" /\ "NOFUNC" \notin act
                    THEN [type |-> "function", param |-> cmdentry.param]
                    ELSE IF first THEN Builtin ELSE Searched(p, -1)
  BY DEF Proper, Defined
<1> HIDE DEF forbidden, p, first
<1>8. CASE "REGBLTIN" \in forbidden
  <2>1. act = {"REGBLTIN"}
    BY <1>3, <1>8 DEF forbidden
  <2> QED BY <1>1, <1>2, <1>8, <2>1
<1>9. CASE usable /\ ~cmdentry.rehash
  <2>1. "REGBLTIN" \notin forbidden
    BY <1>9
  <2>2. Found(act) = [found |-> [type |-> cmdentry.type, param |-> cmdentry.param],
                      entry |-> cmdentry]
    BY <1>1, <1>9, <2>1
  <2>3. [type |-> cmdentry.type, param |-> cmdentry.param] = Proper(act)
    <3>1. CASE cmdentry.type = "function"
      <4>1. "NOFUNC" \notin act
        BY <1>4, <1>9, <3>1
      <4> QED BY <1>7, <3>1, <4>1
    <3>2. CASE cmdentry.type = "builtin"
      <4>1. BuiltinEntry(cmdentry)
        BY <1>2, <3>2, EntryTypes
      <4>2. cmdentry.param = 0 /\ builtincmd # "no"
            /\ (BuiltinComesFirst \/ Searched(path, -1) = Builtin)
        BY <1>9, <4>1 DEF BuiltinEntry
      <4>3. first \/ Searched(p, -1) = Builtin
        BY <1>5, <1>6, <4>2
      <4> QED BY <1>7, <3>2, <4>2, <4>3 DEF Builtin
    <3>3. CASE cmdentry.type = "normal"
      <4>1. NormalEntry(cmdentry)
        BY <1>2, <3>3, EntryTypes
      <4>2. "ALTPATH" \notin act
        BY <1>4, <1>9, <3>3
      <4>3. ~first /\ Searched(p, -1) = Normal(cmdentry.param)
        BY <1>5, <1>6, <1>9, <4>1, <4>2 DEF NormalEntry
      <4> QED BY <1>7, <3>3, <4>3 DEF Normal
    <3> QED BY <1>4, <1>9, <3>1, <3>2, <3>3
  <2> QED BY <1>2, <2>2, <2>3
<1>10. CASE "REGBLTIN" \notin forbidden /\ ~(usable /\ ~cmdentry.rehash) /\ first
  <2>1. Found(act) = [found |-> Builtin,
                      entry |-> IF updatetbl THEN Entry(Builtin) ELSE cmdentry]
    BY <1>1, <1>6, <1>10
  <2>2. ~(cmdentry.type = "function" /\ "NOFUNC" \notin act)
    BY <1>4, <1>10
  <2>3. updatetbl => EntryRight(Entry(Builtin)) /\ Entry(Builtin).type # "function"
    BY <1>6, <1>10, EntryOfBuiltin
  <2>4. updatetbl => cmdentry.type # "function"
    BY <1>4, <1>10
  <2> QED BY <1>2, <1>7, <1>10, <2>1, <2>2, <2>3, <2>4
<1>11. CASE "REGBLTIN" \notin forbidden /\ ~(usable /\ ~cmdentry.rehash) /\ ~first
            /\ "REGBLTIN" \in act
  <2>1. Found(act) = [found |-> Unknown, entry |-> cmdentry]
    BY <1>1, <1>6, <1>11
  <2> QED BY <1>2, <1>3, <1>11, <2>1
<1>12. CASE "REGBLTIN" \notin forbidden /\ ~(usable /\ ~cmdentry.rehash) /\ ~first
            /\ "REGBLTIN" \notin act
  <2>1. Found(act) = [found |-> searched,
                      entry |-> IF updatetbl THEN EntryOf(searched) ELSE cmdentry]
    BY <1>1, <1>6, <1>12
  <2>2. ~(cmdentry.type = "function" /\ "NOFUNC" \notin act)
    BY <1>4, <1>12
  <2>3. prev \in Int /\ (prev = -1 \/ PrefixRight(p, prev))
    <3>1. CASE ~usable
      BY <3>1
    <3>2. CASE usable /\ cmdentry.type = "builtin"
      <4>1. BuiltinEntry(cmdentry)
        BY <1>2, <3>2, EntryTypes
      <4>2. builtincmd # "no" /\ "ALTPATH" \notin act
        BY <1>6, <1>12, <4>1 DEF BuiltinEntry
      <4>3. PrefixRight(p, builtinloc)
        BY <1>5, <1>6, <1>12, <4>1, <4>2 DEF BuiltinEntry
      <4>4. builtinloc \in Int
        <5>1. Locate(path) = -1 \/ Locate(path) \in Places(path)
          BY <1>2, LocateIs
        <5> QED BY <1>2, <5>1, PathIs
      <4> QED BY <3>2, <4>3, <4>4
    <3>3. CASE usable /\ cmdentry.type = "normal"
      <4>1. NormalEntry(cmdentry)
        BY <1>2, <3>3, EntryTypes
      <4>2. "ALTPATH" \notin act
        BY <1>4, <3>3
      <4>3. PrefixRight(p, cmdentry.param) /\ cmdentry.param \in Places(path)
        BY <1>5, <4>1, <4>2 DEF NormalEntry
      <4>4. cmdentry.param \in Int
        BY <1>2, <4>3, PathIs
      <4> QED BY <3>3, <4>3, <4>4
    <3>4. CASE usable /\ cmdentry.type = "function"
      BY <1>4, <1>12, <3>4
    <3> HIDE DEF prev
    <3> QED BY <1>4, <3>1, <3>2, <3>3, <3>4
  <2>4. searched = Searched(p, -1)
    BY <1>5, <2>3, TrustedIs
  <2> HIDE DEF searched
  <2>5. updatetbl => EntryRight(EntryOf(searched)) /\ EntryOf(searched).type # "function"
    BY <1>5, <1>6, <1>12, <2>4, EntryOfSearched
  <2>6. updatetbl => cmdentry.type # "function"
    BY <1>4, <1>12
  <2> QED BY <1>2, <1>7, <1>12, <2>1, <2>2, <2>4, <2>5, <2>6
<1> QED BY <1>8, <1>9, <1>10, <1>11, <1>12

LEMMA ExecInitHolds == ExecInit => ExecInv
<1> SUFFICES ASSUME ExecInit PROVE ExecInv
  OBVIOUS
<1>1. /\ builtincmd \in {"no", "regular", "other"} /\ path = defpath /\ builtinloc = -1
      /\ cmdentry = NoEntry /\ fcount = [f \in Functions |-> -1] /\ running = <<>>
  BY DEF ExecInit
<1>2. builtinloc = Locate(path)
  BY <1>1, DefpathIs
<1>3. EntryRight(cmdentry)
  BY <1>1 DEF EntryRight
<1>4. CountsRight(fcount, running, cmdentry)
  <2>1. ASSUME NEW f \in Functions PROVE Runs(f, running) = {}
    BY <1>1 DEF Runs
  <2>2. Cardinality({}) = 0
    BY FS_EmptySet
  <2>3. cmdentry.type # "function"
    BY <1>1 DEF NoEntry
  <2>4. running \in Seq(Functions) /\ fcount \in [Functions -> Int]
    BY <1>1
  <2>5. ASSUME NEW f \in Functions
        PROVE  fcount[f] = Cardinality(Runs(f, running))
                             - (IF cmdentry.type = "function" /\ cmdentry.param = f THEN 0 ELSE 1)
    <3>1. fcount[f] = -1 /\ Cardinality(Runs(f, running)) = 0
      BY <1>1, <2>1, <2>2
    <3> QED BY <2>3, <3>1
  <2> QED BY <2>4, <2>5 DEF CountsRight
<1> QED BY <1>1, <1>2, <1>3, <1>4 DEF ExecInv

\* An entry that is right stays so where nothing changes that it depends on.
LEMMA EntryKept ==
  ASSUME UNCHANGED <<builtincmd, files, path, builtinloc, cwd>>, EntryRight(cmdentry')
  PROVE  EntryRight(cmdentry)'
<1>1. BuiltinComesFirst' <=> BuiltinComesFirst
  BY DEF BuiltinComesFirst
<1>2. \A k : PrefixRight(path, k)' <=> PrefixRight(path, k)
  BY DEF PrefixRight
<1>3. Searched(path, -1)' = Searched(path, -1)
  BY DEF Searched, IsAt
<1>4. FunctionEntry(cmdentry)' <=> FunctionEntry(cmdentry')
  BY DEF FunctionEntry
<1>5. BuiltinEntry(cmdentry)' <=> BuiltinEntry(cmdentry')
  BY <1>1, <1>2, <1>3 DEF BuiltinEntry, PrefixRight
<1>6. NormalEntry(cmdentry)' <=> NormalEntry(cmdentry')
  BY <1>1, <1>2, <1>3 DEF NormalEntry, PrefixRight
<1> QED BY <1>4, <1>5, <1>6 DEF EntryRight

\* The counts are right where no function is defined or undefined.
LEMMA CountsKept ==
  ASSUME CountsRight(fcount, running, cmdentry), UNCHANGED <<fcount, running>>,
         \/ cmdentry' = cmdentry
         \/ cmdentry.type # "function" /\ cmdentry'.type # "function"
  PROVE  CountsRight(fcount, running, cmdentry)'
BY DEF CountsRight, Runs

LEMMA find_commandKeeps ==
  ASSUME ExecInv, NEW act \in Acts, find_command(act)
  PROVE  ExecInv'
<1>1. cmdentry' = Found(act).entry /\ UNCHANGED <<builtincmd, files, path, builtinloc, cwd>>
      /\ UNCHANGED <<fcount, running>>
  BY DEF find_command
<1>2. EntryRight(cmdentry')
      /\ (cmdentry' = cmdentry \/ (cmdentry.type # "function" /\ cmdentry'.type # "function"))
  BY <1>1, FoundRight
<1>3. EntryRight(cmdentry)'
  BY <1>1, <1>2, EntryKept
<1>4. CountsRight(fcount, running, cmdentry)'
  BY <1>1, <1>2, CountsKept DEF ExecInv
<1>5. /\ builtincmd' \in {"no", "regular", "other"}
      /\ path' \in Paths \cup {defpath} /\ builtinloc' = Locate(path)'
  BY <1>1 DEF ExecInv, Locate, BuiltinPlace
<1> QED BY <1>3, <1>4, <1>5 DEF ExecInv

LEMMA hashcmdKeeps ==
  ASSUME ExecInv, hashcmd_r \/ hashcmd
  PROVE  ExecInv'
<1>1. UNCHANGED <<builtincmd, files, path, builtinloc, cwd>> /\ UNCHANGED <<fcount, running>>
  BY DEF hashcmd, hashcmd_r
<1>0. /\ EntryRight(cmdentry) /\ builtincmd \in {"no", "regular", "other"}
      /\ EntryRight(NoEntry) /\ NoEntry.type # "function"
  BY DEF ExecInv, EntryRight, NoEntry
<1>2. EntryRight(cmdentry')
      /\ (cmdentry' = cmdentry \/ (cmdentry.type # "function" /\ cmdentry'.type # "function"))
  <2>1. Depends(builtinloc) => cmdentry.type # "function"
    BY DEF Depends
  <2>2. CASE hashcmd_r
    <3>1. cmdentry' = IF Depends(builtinloc) THEN NoEntry ELSE cmdentry
      BY <2>2 DEF hashcmd_r, Cleared
    <3> QED BY <1>0, <2>1, <3>1
  <2>3. CASE hashcmd /\ builtincmd # "no" /\ BuiltinFirst({})
    <3>1. Depends(builtinloc) /\ cmdentry' = Entry(Builtin)
      BY <2>3 DEF hashcmd
    <3>2. BuiltinComesFirst
      BY <1>0, <2>3 DEF BuiltinComesFirst, BuiltinFirst
    <3> QED BY <2>1, <2>3, <3>1, <3>2, EntryOfBuiltin
  <2>4. CASE hashcmd /\ ~(builtincmd # "no" /\ BuiltinFirst({}))
    <3>1. Depends(builtinloc) /\ cmdentry' = EntryOf(Searched(path, -1))
      BY <2>4 DEF hashcmd, EntryOf
    <3>2. ~BuiltinComesFirst
      BY <1>0, <2>4 DEF BuiltinComesFirst, BuiltinFirst
    <3> QED BY <2>1, <3>1, <3>2, EntryOfSearched
  <2> QED BY <2>2, <2>3, <2>4
<1>3. EntryRight(cmdentry)'
  BY <1>1, <1>2, EntryKept
<1>4. CountsRight(fcount, running, cmdentry)'
  BY <1>1, <1>2, CountsKept DEF ExecInv
<1>5. /\ builtincmd' \in {"no", "regular", "other"}
      /\ path' \in Paths \cup {defpath} /\ builtinloc' = Locate(path)'
  BY <1>1 DEF ExecInv, Locate, BuiltinPlace
<1> QED BY <1>3, <1>4, <1>5 DEF ExecInv

\* What changes with PATH or the directory is forgotten or to be found again.
LEMMA changepathKeeps ==
  ASSUME ExecInv, NEW p \in Paths, changepath(p)
  PROVE  ExecInv'
<1>1. /\ path' = p /\ builtinloc' = Locate(p) /\ cmdentry' = Cleared(builtinloc')
      /\ UNCHANGED <<builtincmd, files, cwd, fcount, running>>
  BY DEF changepath, Locate
<1>2. path' \in Paths \cup {defpath} /\ builtinloc' = Locate(path)'
  BY <1>1 DEF Locate, BuiltinPlace
<1>3. EntryRight(cmdentry) /\ builtincmd \in {"no", "regular", "other"}
  BY DEF ExecInv
<1>4. NoEntry.type # "function" /\ EntryRight(NoEntry)'
  BY DEF NoEntry, EntryRight
<1>5. CASE Depends(builtinloc')
  <2>1. cmdentry' = NoEntry /\ cmdentry.type # "function"
    BY <1>1, <1>5 DEF Cleared, Depends
  <2>2. EntryRight(cmdentry)'
    BY <2>1 DEF EntryRight
  <2> QED BY <1>1, <1>2, <1>4, <2>1, <2>2, CountsKept DEF ExecInv
<1>6. CASE ~Depends(builtinloc')
  <2>1. cmdentry' = cmdentry /\ cmdentry.type # "normal"
        /\ (cmdentry.type = "builtin" => builtincmd # "other" \/ ~(builtinloc' > 0))
    BY <1>1, <1>6 DEF Cleared, Depends
  <2>2. EntryRight(cmdentry)'
    <3>1. CASE cmdentry.type = "builtin"
      <4>1. BuiltinEntry(cmdentry)
        BY <1>3, <3>1, EntryTypes
      <4>2. Locate(p) \in Int
        <5>1. Locate(p) = -1 \/ Locate(p) \in Places(p)
          BY LocateIs
        <5> QED BY <5>1, PathIs
      <4>3. BuiltinComesFirst'
        BY <1>1, <1>3, <2>1, <3>1, <4>1, <4>2 DEF BuiltinComesFirst, BuiltinEntry
      <4>4. BuiltinEntry(cmdentry)'
        BY <1>1, <2>1, <4>1, <4>3 DEF BuiltinEntry
      <4> QED BY <4>4 DEF EntryRight
    <3>2. CASE cmdentry.type = "function" \/ cmdentry.type = "none"
      <4>1. FunctionEntry(cmdentry) \/ cmdentry = NoEntry
        BY <1>3, <3>2, EntryTypes
      <4> QED BY <2>1, <4>1 DEF EntryRight, FunctionEntry
    <3> QED BY <1>3, <2>1, <3>1, <3>2, EntryTypes
  <2> QED BY <1>1, <1>2, <2>1, <2>2, CountsKept DEF ExecInv
<1> QED BY <1>5, <1>6

LEMMA docdKeeps ==
  ASSUME ExecInv, NEW dir, docd(dir)
  PROVE  ExecInv'
<1>1. UNCHANGED <<builtincmd, files, path, builtinloc, fcount, running>>
      /\ cmdentry' = IF Depends(builtinloc) THEN [cmdentry EXCEPT !.rehash = TRUE] ELSE cmdentry
  BY DEF docd
<1>2. /\ EntryRight(cmdentry) /\ builtincmd \in {"no", "regular", "other"}
      /\ path \in Paths \cup {defpath} /\ builtinloc = Locate(path)
  BY DEF ExecInv
<1>3. /\ BuiltinComesFirst' <=> BuiltinComesFirst
      /\ \A k : PrefixRight(path, k)' <=> PrefixRight(path, k)
      /\ builtinloc' = Locate(path)'
  BY <1>1, <1>2 DEF BuiltinComesFirst, PrefixRight, Locate, BuiltinPlace
<1>4. CASE cmdentry.type \in {"none", "function"}
  <2>1. cmdentry' = cmdentry
    BY <1>1, <1>4 DEF Depends
  <2>2. FunctionEntry(cmdentry) \/ cmdentry = NoEntry
    BY <1>2, <1>4, EntryTypes
  <2>3. EntryRight(cmdentry)'
    BY <2>1, <2>2 DEF EntryRight, FunctionEntry
  <2> QED BY <1>1, <1>2, <1>3, <2>1, <2>3, CountsKept DEF ExecInv
<1>5. CASE cmdentry.type = "builtin"
  <2>1. BuiltinEntry(cmdentry)
    BY <1>2, <1>5, EntryTypes
  <2>2. cmdentry' \in [type : {"builtin"}, param : {0}, rehash : BOOLEAN]
        /\ cmdentry'.type = "builtin"
    BY <1>1, <2>1 DEF BuiltinEntry
  <2>3. cmdentry'.rehash \/ BuiltinComesFirst
    <3>1. builtinloc \in Int
      <4>1. Locate(path) = -1 \/ Locate(path) \in Places(path)
        BY <1>2, LocateIs
      <4> QED BY <1>2, <4>1, PathIs
    <3>2. Depends(builtinloc) \/ BuiltinComesFirst
      BY <1>2, <1>5, <2>1, <3>1 DEF Depends, BuiltinComesFirst, BuiltinEntry
    <3>3. cmdentry \in [type : {"builtin"}, param : {0}, rehash : BOOLEAN]
      BY <2>1 DEF BuiltinEntry
    <3> QED BY <1>1, <3>2, <3>3
  <2>4. BuiltinEntry(cmdentry)'
    BY <1>1, <1>3, <2>1, <2>2, <2>3 DEF BuiltinEntry, PrefixRight
  <2>5. EntryRight(cmdentry)'
    BY <2>4 DEF EntryRight
  <2> QED BY <1>1, <1>2, <1>3, <1>5, <2>2, <2>5, CountsKept DEF ExecInv
<1>6. CASE cmdentry.type = "normal"
  <2>1. NormalEntry(cmdentry)
    BY <1>2, <1>6, EntryTypes
  <2>2. cmdentry' = [cmdentry EXCEPT !.rehash = TRUE]
    BY <1>1, <1>6 DEF Depends
  <2>3. cmdentry' \in [type : {"normal"}, param : Places(path), rehash : BOOLEAN]
        /\ cmdentry'.type = "normal" /\ cmdentry'.rehash /\ cmdentry'.param = cmdentry.param
    BY <2>1, <2>2 DEF NormalEntry
  <2>4. NormalEntry(cmdentry)'
    BY <1>1, <1>3, <2>1, <2>3 DEF NormalEntry, PrefixRight
  <2>5. EntryRight(cmdentry)'
    BY <2>4 DEF EntryRight
  <2> QED BY <1>1, <1>2, <1>3, <1>6, <2>3, <2>5, CountsKept DEF ExecInv
<1> QED BY <1>2, <1>4, <1>5, <1>6, EntryTypes

\* The calls that run of a function, when one more begins and the last ends.
LEMMA RunsAre ==
  ASSUME NEW runs \in Seq(Functions), NEW f \in Functions
  PROVE  /\ Cardinality(Runs(f, runs)) \in Nat
         /\ Cardinality(Runs(f, runs)) = 0 <=> f \notin ToSet(runs)
         /\ \A g \in Functions :
              /\ Append(runs, g) \in Seq(Functions)
              /\ Cardinality(Runs(f, Append(runs, g)))
                   = Cardinality(Runs(f, runs)) + (IF f = g THEN 1 ELSE 0)
         /\ runs # <<>> =>
              /\ Last(runs) \in Functions /\ Front(runs) \in Seq(Functions)
              /\ Cardinality(Runs(f, Front(runs)))
                   = Cardinality(Runs(f, runs)) - (IF f = Last(runs) THEN 1 ELSE 0)
<1> DEFINE n == Len(runs)
           these == Runs(f, runs)
<1>1. n \in Nat /\ DOMAIN runs = 1..n /\ \A i \in 1..n : runs[i] \in Functions
  OBVIOUS
<1>2. IsFiniteSet(1..n)
  BY <1>1, FS_Interval
<1>3. these \subseteq 1..n /\ IsFiniteSet(these) /\ Cardinality(these) \in Nat
  BY <1>2, FS_Subset, FS_CardinalityType DEF Runs
<1>4. Cardinality(these) = 0 <=> f \notin ToSet(runs)
  <2>1. these = {} <=> f \notin ToSet(runs)
    BY <1>1 DEF Runs, ToSet
  <2>2. Cardinality(these) = 0 <=> these = {}
    BY <1>3, FS_EmptySet
  <2> QED BY <2>1, <2>2
<1>5. ASSUME NEW g \in Functions
      PROVE  /\ Append(runs, g) \in Seq(Functions)
             /\ Cardinality(Runs(f, Append(runs, g))) = Cardinality(these) + (IF f = g THEN 1 ELSE 0)
  <2>1. Append(runs, g) \in Seq(Functions) /\ Len(Append(runs, g)) = n + 1
        /\ (\A i \in 1..n : Append(runs, g)[i] = runs[i]) /\ Append(runs, g)[n + 1] = g
    OBVIOUS
  <2>2. CASE f = g
    <3>1. Runs(f, Append(runs, g)) = these \cup {n + 1}
      BY <1>1, <2>1, <2>2 DEF Runs
    <3>2. n + 1 \notin these
      BY <1>1, <1>3
    <3>3. Cardinality(these \cup {n + 1}) = Cardinality(these) + 1
      BY <1>3, <3>2, FS_AddElement
    <3> HIDE DEF these
    <3> QED BY <2>1, <2>2, <3>1, <3>3
  <2>3. CASE f # g
    <3>1. Runs(f, Append(runs, g)) = these
      BY <1>1, <2>1, <2>3 DEF Runs
    <3> HIDE DEF these
    <3> QED BY <1>3, <2>1, <2>3, <3>1
  <2> QED BY <2>2, <2>3
<1>6. ASSUME runs # <<>>
      PROVE  /\ Last(runs) \in Functions /\ Front(runs) \in Seq(Functions)
             /\ Cardinality(Runs(f, Front(runs)))
                  = Cardinality(these) - (IF f = Last(runs) THEN 1 ELSE 0)
  <2>1. n \in Nat \ {0} /\ Last(runs) = runs[n]
    BY <1>1, <1>6 DEF Last
  <2>2. Front(runs) = [i \in 1..(n - 1) |-> runs[i]]
    BY <1>1, <2>1 DEF Front
  <2>3. \A i \in 1..(n - 1) : runs[i] \in Functions
    BY <1>1, <2>1
  <2>4. n - 1 \in Nat
    BY <2>1
  <2>5. /\ Front(runs) \in Seq(Functions) /\ Len(Front(runs)) = n - 1
        /\ \A i \in 1..(n - 1) : Front(runs)[i] = runs[i]
    BY <2>2, <2>3, <2>4
  <2>6. CASE f = Last(runs)
    <3>1. Runs(f, Front(runs)) = these \ {n}
      BY <1>1, <2>1, <2>5 DEF Runs
    <3>2. n \in these
      BY <2>1, <2>6 DEF Runs
    <3>3. Cardinality(these \ {n}) = Cardinality(these) - 1
      BY <1>3, <3>2, FS_RemoveElement
    <3> HIDE DEF these
    <3> QED BY <1>1, <2>1, <2>5, <2>6, <3>1, <3>3
  <2>7. CASE f # Last(runs)
    <3>1. Runs(f, Front(runs)) = these
      BY <1>1, <2>1, <2>5, <2>7 DEF Runs
    <3> HIDE DEF these
    <3> QED BY <1>1, <1>3, <2>1, <2>5, <2>7, <3>1
  <2> QED BY <2>6, <2>7
<1> HIDE DEF these
<1>7. these = Runs(f, runs)
  BY DEF these
<1> QED BY <1>3, <1>4, <1>5, <1>6, <1>7

\* What a definition, an unset and a call leave of the rest.
LEMMA LookupKept ==
  ASSUME ExecInv, UNCHANGED <<builtincmd, files, path, builtinloc, cwd>>, EntryRight(cmdentry'),
         CountsRight(fcount, running, cmdentry)'
  PROVE  ExecInv'
<1>1. EntryRight(cmdentry)'
  BY EntryKept
<1>2. /\ builtincmd' \in {"no", "regular", "other"}
      /\ path' \in Paths \cup {defpath} /\ builtinloc' = Locate(path)'
  BY DEF ExecInv, Locate, BuiltinPlace
<1> QED BY <1>1, <1>2 DEF ExecInv

LEMMA DefinedIs ==
  ASSUME ExecInv
  PROVE  /\ Defined => cmdentry.param \in Functions /\ FunctionEntry(cmdentry)
         /\ CountsRight(fcount, running, cmdentry) /\ EntryRight(cmdentry)
BY EntryTypes DEF ExecInv, Defined, FunctionEntry

LEMMA defunKeeps ==
  ASSUME ExecInv, defun
  PROVE  ExecInv'
<1>1. PICK f \in Functions :
        /\ f = Min({g \in Functions : fcount[g] = -1} \cup {Max(Functions) + 1})
        /\ fcount' = [IF Defined THEN freefunc(fcount, cmdentry.param) ELSE fcount EXCEPT ![f] = 0]
        /\ cmdentry' = [type |-> "function", param |-> f, rehash |-> FALSE]
        /\ UNCHANGED <<builtincmd, files, path, builtinloc, cwd, running>>
  BY DEF defun
<1>2. /\ running \in Seq(Functions) /\ fcount \in [Functions -> Int]
      /\ \A g \in Functions :
           fcount[g] = Cardinality(Runs(g, running))
                         - (IF cmdentry.type = "function" /\ cmdentry.param = g THEN 0 ELSE 1)
      /\ Defined => cmdentry.param \in Functions
  BY DefinedIs DEF CountsRight
<1>3. fcount[f] = -1
  <2> DEFINE N == Cardinality(Functions)
             S == {g \in Functions : fcount[g] = -1} \cup {N + 1}
  <2>1. Functions = 1..N /\ N \in Nat
    BY ExecAssumption, FS_CardinalityType
  <2> HIDE DEF N
  <2>2. Max(Functions) = N
    <3>1. \E m \in Functions : \A y \in Functions : m >= y
      <4>1. N \in Functions /\ \A y \in Functions : N >= y
        BY <2>1
      <4> QED BY <4>1
    <3>2. Max(Functions) \in Functions /\ \A y \in Functions : Max(Functions) >= y
      BY <3>1 DEF Max
    <3>3. N \in Functions
      BY <2>1
    <3> QED BY <2>1, <3>2, <3>3
  <2>3. S \in SUBSET Nat /\ S # {}
    BY <2>1
  <2>4. Min(S) \in S
    BY <2>3, MinIs
  <2>5. f = Min(S)
    BY <1>1, <2>2
  <2>6. f # N + 1
    BY <2>1
  <2> QED BY <2>4, <2>5, <2>6
<1>4. FunctionEntry(cmdentry') /\ cmdentry'.type = "function" /\ cmdentry'.param = f
  BY <1>1 DEF FunctionEntry
<1>5. CountsRight(fcount, running, cmdentry)'
  <2>1. fcount' \in [Functions -> Int]
    BY <1>1, <1>2 DEF freefunc
  <2>2. ASSUME NEW g \in Functions
        PROVE  fcount'[g] = Cardinality(Runs(g, running)) - (IF f = g THEN 0 ELSE 1)
    <3>1. Cardinality(Runs(g, running)) \in Nat
      BY <1>2, RunsAre
    <3>2. CASE g = f
      <4>1. Cardinality(Runs(f, running)) = 0
        BY <1>2, <1>3, <3>1, <3>2
      <4>2. fcount'[f] = 0
        BY <1>1, <1>2 DEF freefunc
      <4> QED BY <3>2, <4>1, <4>2
    <3>3. CASE g # f /\ Defined /\ cmdentry.param = g
      <4>1. fcount'[g] = fcount[g] - 1
        BY <1>1, <1>2, <3>3 DEF freefunc
      <4> QED BY <1>2, <3>1, <3>3, <4>1 DEF Defined
    <3>4. CASE g # f /\ ~(Defined /\ cmdentry.param = g)
      <4>1. fcount'[g] = fcount[g]
        BY <1>1, <1>2, <3>4 DEF freefunc
      <4> QED BY <1>2, <3>1, <3>4, <4>1 DEF Defined
    <3> QED BY <3>2, <3>3, <3>4
  <2>3. running' = running
    BY <1>1
  <2> QED BY <1>2, <1>4, <2>1, <2>2, <2>3 DEF CountsRight, Runs
<1>6. EntryRight(cmdentry')
  BY <1>4 DEF EntryRight
<1> QED BY <1>1, <1>5, <1>6, LookupKept

LEMMA unsetfuncKeeps ==
  ASSUME ExecInv, unsetfunc
  PROVE  ExecInv'
<1>1. /\ Defined /\ cmdentry' = NoEntry /\ fcount' = freefunc(fcount, cmdentry.param)
      /\ UNCHANGED <<builtincmd, files, path, builtinloc, cwd>> /\ running' = running
  BY DEF unsetfunc
<1>2. /\ running \in Seq(Functions) /\ fcount \in [Functions -> Int]
      /\ \A g \in Functions :
           fcount[g] = Cardinality(Runs(g, running))
                         - (IF cmdentry.type = "function" /\ cmdentry.param = g THEN 0 ELSE 1)
      /\ cmdentry.param \in Functions
  BY <1>1, DefinedIs DEF CountsRight
<1>3. CountsRight(fcount, running, cmdentry)'
  <2>1. fcount' = [fcount EXCEPT ![cmdentry.param] = @ - 1]
    BY <1>1 DEF freefunc
  <2>2. ASSUME NEW g \in Functions
        PROVE  fcount'[g] = Cardinality(Runs(g, running)) - 1
    <3>1. Cardinality(Runs(g, running)) \in Nat
      BY <1>2, RunsAre
    <3> QED BY <1>1, <1>2, <2>1, <3>1 DEF Defined
  <2>3. cmdentry'.type # "function" /\ fcount' \in [Functions -> Int]
    BY <1>1, <1>2, <2>1 DEF NoEntry
  <2> QED BY <1>1, <1>2, <2>2, <2>3 DEF CountsRight, Runs
<1>4. EntryRight(cmdentry')
  BY <1>1 DEF EntryRight
<1> QED BY <1>1, <1>3, <1>4, LookupKept

LEMMA functionKeeps ==
  ASSUME ExecInv, evalfun_begins \/ evalfun_ends
  PROVE  ExecInv'
<1>1. /\ running \in Seq(Functions) /\ fcount \in [Functions -> Int]
      /\ \A g \in Functions :
           fcount[g] = Cardinality(Runs(g, running))
                         - (IF cmdentry.type = "function" /\ cmdentry.param = g THEN 0 ELSE 1)
      /\ Defined => cmdentry.param \in Functions
  BY DefinedIs DEF CountsRight
<1>2. UNCHANGED <<builtincmd, files, path, builtinloc, cwd>> /\ cmdentry' = cmdentry
  BY DEF evalfun_begins, evalfun_ends
<1>3. ASSUME evalfun_begins PROVE CountsRight(fcount, running, cmdentry)'
  <2> DEFINE f == cmdentry.param
  <2>1. f \in Functions /\ running' = Append(running, f) /\ fcount' = [fcount EXCEPT ![f] = @ + 1]
    BY <1>1, <1>3 DEF evalfun_begins, Counted
  <2>2. running' \in Seq(Functions) /\ fcount' \in [Functions -> Int]
    BY <1>1, <2>1
  <2>3. ASSUME NEW g \in Functions
        PROVE  fcount'[g] = Cardinality(Runs(g, running'))
                              - (IF cmdentry.type = "function" /\ cmdentry.param = g THEN 0 ELSE 1)
    <3>1. /\ Cardinality(Runs(g, running)) \in Nat
          /\ Cardinality(Runs(g, running')) = Cardinality(Runs(g, running)) + (IF g = f THEN 1 ELSE 0)
      BY <1>1, <2>1, RunsAre
    <3>2. fcount'[g] = fcount[g] + (IF g = f THEN 1 ELSE 0)
      BY <1>1, <2>1
    <3> QED BY <1>1, <3>1, <3>2
  <2> QED BY <1>2, <2>2, <2>3 DEF CountsRight, Runs
<1>4. ASSUME evalfun_ends PROVE CountsRight(fcount, running, cmdentry)'
  <2> DEFINE f == Last(running)
  <2>1. running # <<>> /\ running' = Front(running) /\ fcount' = [fcount EXCEPT ![f] = @ - 1]
    BY <1>4 DEF evalfun_ends, freefunc
  <2>2. ASSUME NEW g \in Functions
        PROVE  /\ f \in Functions /\ running' \in Seq(Functions)
               /\ Cardinality(Runs(g, running)) \in Nat
               /\ Cardinality(Runs(g, running'))
                    = Cardinality(Runs(g, running)) - (IF g = f THEN 1 ELSE 0)
    BY <1>1, <2>1, RunsAre
  <2> HIDE DEF f
  <2>3. Functions # {}
    <3>1. Len(running) \in 1..Len(running)
      BY <1>1, <2>1
    <3>2. running[Len(running)] \in Functions
      BY <1>1, <3>1
    <3> QED BY <3>2
  <2>4. f \in Functions /\ running' \in Seq(Functions)
    BY <2>2, <2>3
  <2>5. fcount' \in [Functions -> Int]
    BY <1>1, <2>1, <2>4
  <2>6. ASSUME NEW g \in Functions
        PROVE  fcount'[g] = Cardinality(Runs(g, running'))
                              - (IF cmdentry.type = "function" /\ cmdentry.param = g THEN 0 ELSE 1)
    <3>1. fcount'[g] = fcount[g] - (IF g = f THEN 1 ELSE 0)
      BY <1>1, <2>1, <2>4
    <3> QED BY <1>1, <2>2, <3>1
  <2> QED BY <1>2, <2>4, <2>5, <2>6 DEF CountsRight, Runs
<1>5. CountsRight(fcount, running, cmdentry)'
  BY <1>3, <1>4
<1>6. EntryRight(cmdentry')
  BY <1>2, DefinedIs
<1> QED BY <1>2, <1>5, <1>6, LookupKept

LEMMA ExecNextKeeps ==
  ASSUME ExecInv, ExecNext
  PROVE  ExecInv'
BY find_commandKeeps, changepathKeeps, docdKeeps, hashcmdKeeps, defunKeeps, unsetfuncKeeps,
   functionKeeps DEF ExecNext

LEMMA ExecInvSound ==
  ASSUME ExecInv
  PROVE  CommandsSound
<1>1. LookupRight
  BY FoundRight DEF LookupRight
<1>2. DescribedRight
  <2>1. {} \in Acts /\ {} # {"REGBLTIN"}
    BY DEF Acts
  <2>2. Found({}).found = Proper({})
    BY <2>1, FoundRight
  <2>3. cmdentry.type # "none" /\ ~cmdentry.rehash =>
          Found({}).found = [type |-> cmdentry.type, param |-> cmdentry.param]
    BY FoundIs
  <2> QED BY <2>2, <2>3 DEF DescribedRight, Described
<1>3. FunctionsCounted
  <2>1. CountsRight(fcount, running, cmdentry)
    BY DefinedIs
  <2>2. running \in Seq(Functions)
    BY <2>1 DEF CountsRight
  <2>3. ASSUME NEW f \in Functions
        PROVE  fcount[f] >= 0 <=> f \in ToSet(running) \/ (Defined /\ f = cmdentry.param)
    <3>1. /\ Cardinality(Runs(f, running)) \in Nat
          /\ Cardinality(Runs(f, running)) = 0 <=> f \notin ToSet(running)
      BY <2>2, RunsAre
    <3>2. fcount[f] = Cardinality(Runs(f, running))
                        - (IF cmdentry.type = "function" /\ cmdentry.param = f THEN 0 ELSE 1)
      BY <2>1 DEF CountsRight
    <3> QED BY <3>1, <3>2 DEF Defined
  <2>4. ToSet(running) \subseteq Functions
    BY <2>2 DEF ToSet
  <2>5. Defined => cmdentry.param \in Functions
    BY DefinedIs
  <2> QED BY <2>3, <2>4, <2>5 DEF FunctionsCounted
<1> QED BY <1>1, <1>2, <1>3 DEF CommandsSound

-----------------------------------------------------------------------------
\* The other parts leave the jobs, the redirections, the traps, the input and
\* the commands alone.
LEMMA RedirKept ==
  ASSUME RedirInv, [ProcessesNext]_processesVars
  PROVE  RedirInv'
<1>1. CASE RedirNext
  BY <1>1, RedirNextKeeps
<1>2. CASE UNCHANGED redirVars
  BY <1>2 DEF redirVars, RedirInv
<1>3. RedirNext \/ UNCHANGED redirVars
  BY DEF ProcessesNext, processesVars, JobsStep, InJobs, RedirStep, TrapStep, InputStep,
       ExecStep
<1> QED BY <1>1, <1>2, <1>3

LEMMA TrapKept ==
  ASSUME TrapInv, [ProcessesNext]_processesVars
  PROVE  TrapInv'
<1>1. CASE TrapNext
  BY <1>1, TrapNextKeeps
<1>2. CASE UNCHANGED trapVars
  BY <1>2 DEF trapVars, TrapInv
<1>3. TrapNext \/ UNCHANGED trapVars
  BY DEF ProcessesNext, processesVars, JobsStep, InJobs, RedirStep, TrapStep, InputStep,
       ExecStep
<1> QED BY <1>1, <1>2, <1>3

LEMMA JobsKept ==
  ASSUME JobsInv, [ProcessesNext]_processesVars
  PROVE  JobsInv'
<1>1. CASE JobsNext
  BY <1>1, JobsNextKeeps
<1>2. CASE UNCHANGED jobsVars
  BY <1>2 DEF jobsVars, JobsInv
<1>3. JobsNext \/ UNCHANGED jobsVars
  BY DEF ProcessesNext, processesVars, JobsStep, InJobs, RedirStep, TrapStep, InputStep,
       ExecStep
<1> QED BY <1>1, <1>2, <1>3

LEMMA InputStepOrRest ==
  ASSUME [ProcessesNext]_processesVars
  PROVE  InputNext \/ UNCHANGED inputVars
BY DEF ProcessesNext, processesVars, JobsStep, InJobs, RedirStep, TrapStep, InputStep,
       ExecStep

LEMMA InputKept ==
  ASSUME InputInv, [ProcessesNext]_processesVars
  PROVE  InputInv'
<1>1. CASE InputNext
  BY <1>1, InputNextKeeps
<1>2. CASE UNCHANGED inputVars
  BY <1>2 DEF inputVars, InputInv
<1> QED BY <1>1, <1>2, InputStepOrRest

LEMMA ExecKept ==
  ASSUME ExecInv, [ProcessesNext]_processesVars
  PROVE  ExecInv'
<1>1. CASE ExecNext
  BY <1>1, ExecNextKeeps
<1>2. CASE UNCHANGED execVars
  <2>1. UNCHANGED <<builtincmd, files, path, builtinloc, cwd, cmdentry, fcount, running>>
    BY <1>2 DEF execVars
  <2>2. EntryRight(cmdentry)'
    BY <2>1, EntryKept DEF ExecInv
  <2>3. CountsRight(fcount, running, cmdentry)'
    BY <2>1, CountsKept DEF ExecInv
  <2>4. /\ builtincmd' \in {"no", "regular", "other"}
        /\ path' \in Paths \cup {defpath} /\ builtinloc' = Locate(path)'
    BY <2>1 DEF ExecInv, Locate, BuiltinPlace
  <2> QED BY <2>2, <2>3, <2>4 DEF ExecInv
<1>3. ExecNext \/ UNCHANGED execVars
  BY DEF ProcessesNext, processesVars, JobsStep, InJobs, RedirStep, TrapStep, InputStep,
         ExecStep
<1> QED BY <1>1, <1>2, <1>3

-----------------------------------------------------------------------------
\* The invariant the jobs are sound by: the list has the jobs in use, each
\* once; no pid is in two places of the table, and a process of a job is a
\* child until its end is noted; what is not an orphan is in a job that is not
\* done; and what dowait waits for is a job in use (jobs.c).
THEOREM JobsInvariance == ProcessesSpec => []JobsInv
<1>1. ProcessesInit => JobsInv
  BY JobsInitHolds DEF ProcessesInit
<1>2. JobsInv /\ [ProcessesNext]_processesVars => JobsInv'
  BY JobsKept
<1> QED BY <1>1, <1>2, PTL DEF ProcessesSpec

\* The list has the jobs, a job's state is that of its processes, no child is
\* forgotten, and dowait returns with its job changed, in whatever order
\* children end, stop and go on (jobs.c).
THEOREM JobsStaySound == ProcessesSpec => []JobsSound
<1>1. JobsInv => JobsSound
  BY JobsInvSound
<1> QED BY <1>1, JobsInvariance, PTL

-----------------------------------------------------------------------------
\* The invariant the redirections are undone by: the copies that the tables
\* hold are open, one for each descriptor a table took, and each is still what
\* that descriptor was before (redir.c).
THEOREM RedirInvariance == ProcessesSpec => []RedirInv
<1>1. ProcessesInit => RedirInv
  BY RedirInitHolds DEF ProcessesInit
<1>2. RedirInv /\ [ProcessesNext]_processesVars => RedirInv'
  BY RedirKept
<1> QED BY <1>1, <1>2, PTL DEF ProcessesSpec

\* Within a shell no descriptor leaks and none is saved twice, and in a
\* subshell only the copies stay open that the tables it forgot had made;
\* what is marked closed is closed, whatever nests, fails half way or is made
\* permanent by exec (redir.c).
THEOREM DescriptorsStaySound == ProcessesSpec => []DescriptorsSound
<1>1. RedirInv => DescriptorsSound
  BY RedirInvSound
<1> QED BY <1>1, RedirInvariance, PTL

\* popredir brings every descriptor its table took back to what it was and
\* touches no other (redir.c).
THEOREM RedirectionsComeUndone == ProcessesSpec => RedirectionsUndone
<1>1. RedirInv /\ [ProcessesNext]_processesVars
        => [popredir(FALSE) =>
              \A fd \in LowFds \ overlooked :
                fds'[fd] = IF RedirTop.renamed[fd] = EMPTY THEN fds[fd]
                           ELSE RedirTop.before[fd]]_redirVars
  BY popredirKeeps
<1> QED BY <1>1, RedirInvariance, PTL DEF ProcessesSpec, RedirectionsUndone

\* The invariant the traps are sound by: sigmode and the kernel agree, each
\* signal is treated as its trap and what was found on entry allow, and a
\* caught signal is remembered until its trap runs (trap.c).
THEOREM TrapInvariance == ProcessesSpec => []TrapInv
<1>1. ProcessesInit => TrapInv
  BY TrapInitHolds DEF ProcessesInit
<1>2. TrapInv /\ [ProcessesNext]_processesVars => TrapInv'
  BY TrapKept
<1> QED BY <1>1, <1>2, PTL DEF ProcessesSpec

\* Traps are counted, each is in force where it may be, commands inherit what
\* they must, and no signal is forgotten, in any nesting of traps, subshells
\* and errors (trap.c).
THEOREM TrapsStaySound == ProcessesSpec => []TrapsSound
<1>1. TrapInv => TrapsSound
  BY TrapInvSound
<1> QED BY <1>1, TrapInvariance, PTL

-----------------------------------------------------------------------------
\* The invariant the shell reads by: no alias is in use twice, in the texts of
\* one file or of two, and what is read of it is allocated and nobody else's;
\* lastc holds what was given back, in every text that was interrupted
\* (input.c, alias.c).
THEOREM InputInvariance == ProcessesSpec => []InputInv
<1>1. ProcessesInit => InputInv
  BY InputInitHolds DEF ProcessesInit
<1>2. InputInv /\ [ProcessesNext]_processesVars => InputInv'
  BY InputKept
<1> QED BY <1>1, <1>2, PTL DEF ProcessesSpec

\* However texts and files nest, aliases are set again or removed while they
\* are read, and errors go back to the top, an alias is in use exactly while a
\* text of it is, and no value that is read is freed (alias.c:62, input.c:383).
THEOREM AliasesStaySound == ProcessesSpec => []AliasesSound
<1>1. InputInv => AliasesSound
  BY InputInvSound
<1> QED BY <1>1, InputInvariance, PTL

\* The character pgetc reads next after pungetc is the one that was given back
\* first, also when it belongs to a text below one that is done by then
\* (input.c:79-180, 330-400).
THEOREM UngotIsReadAgain == ProcessesSpec => UngotComesBack
<1>1. InputInv /\ [ProcessesNext]_processesVars
        => [pgetc /\ ReadNext(parsefile).unget > 0 =>
              Head(parsefile'.last) = Head(ReadNext(parsefile).back)]_inputVars
  BY pgetcStep
<1> QED BY <1>1, InputInvariance, PTL DEF ProcessesSpec, UngotComesBack

-----------------------------------------------------------------------------
\* The invariant commands are found by: the entry of the table is one that the
\* path as it is now leads to, or has to be looked up again, and every function
\* is counted as often as it runs or is defined (exec.c, eval.c:996-1030).
THEOREM ExecInvariance == ProcessesSpec => []ExecInv
<1>1. ProcessesInit => ExecInv
  BY ExecInitHolds DEF ProcessesInit
<1>2. ExecInv /\ [ProcessesNext]_processesVars => ExecInv'
  BY ExecKept
<1> QED BY <1>1, <1>2, PTL DEF ProcessesSpec

\* Whatever has been defined, hashed and executed, and however PATH and the
\* working directory have changed, a command is found as a search of the path
\* would find it, is described as it would be run, and a function lives for as
\* long as it is defined or running (exec.c:313-487).
THEOREM CommandsStaySound == ProcessesSpec => []CommandsSound
<1>1. ExecInv => CommandsSound
  BY ExecInvSound
<1> QED BY <1>1, ExecInvariance, PTL
=============================================================================
