------------------------------- MODULE Pcfrac -------------------------------
(***************************************************************************)
(* The factoring program of bench/cfrac: Morrison and Brillhart's method   *)
(* as pcfrac.c has it.  The convergents A of the continued fraction of the *)
(* square root of k*n give Q with A^2 = (-1)^s Q modulo n.  A Q that       *)
(* factors over the factor base, or two that leave the same large rest,    *)
(* become a relation; Gaussian elimination over the exponents modulo 2     *)
(* combines relations to x^2 = y^2.  Numbers are integers here: Calculator *)
(* is about the routines that compute with them.  What floating point      *)
(* arithmetic decides (the multiplier k, the bounds of the early aborts)   *)
(* is a parameter, for it may only make the search longer.                 *)
(***************************************************************************)
EXTENDS Integers, Sequences, FiniteSetsExt, SequencesExt

CONSTANTS
  Composites,  \* the numbers to factor
  Multipliers, \* what findk may choose for k
  BaseSizes,   \* how many primes the factor base has: m
  PrimeLimit,  \* bound: the primes in the table
  EarlyAborts, \* what getEas computes: a sequence of [pval, bound]
  MaxCount     \* bound: iterations

ASSUME PcfracAssumption ==
  /\ \A n \in Composites : n \in Nat /\ n > 3
  /\ \A k \in Multipliers : k \in Nat \ {0}
  /\ \A m \in BaseSizes : m \in Nat /\ m > 1
  /\ MaxCount \in Nat \ {0}

VARIABLES
  phase,     \* where pcfrac is
  task,      \* [n, k, pm]
  fraction,  \* the expansion: [An, lastAn, Qn, lastQn, u, lastU, qn, s, twog]
  current,   \* the relation at hand: [x, t, e], and h once it is eliminated
  oddt,      \* relations with a rest
  b,         \* relations by the highest odd exponent
  count,
  res

pcfracVars == <<phase, task, fraction, current, oddt, b, count, res>>

-----------------------------------------------------------------------------
IsPrime(p) == \A d \in 2..p - 1 : d * d <= p => p % d # 0

primes == SelectSeq([p \in 1..PrimeLimit |-> p], LAMBDA p : p > 1 /\ IsPrime(p))

PowerMod(a, j, n) ==
  LET pow[i \in Nat] ==
        IF i = 0 THEN 1
        ELSE LET w == pow[i \div 2]
             IN (((w * w) % n) * (IF i % 2 = 1 THEN a ELSE 1)) % n
  IN pow[j]

\* 1 for a residue, p - 1 for a non-residue, 0 if p divides a.
plegendre(a, p) == PowerMod(a % p, (p - 1) \div 2, p)

\* Two, and the primes modulo which k*n is a square (or zero), m at most.
pfactorbase(n, k, m) ==
  LET good == SelectSeq(Tail(primes), LAMBDA p : plegendre(n * k, p) <= 1)
  IN <<2>> \o SubSeq(good, 1, Min({m - 1, Len(good)}))

\* How often p divides t, and what is left of t without the first j primes.
Power(t, p) ==
  LET times[q \in Nat] == IF q % p = 0 THEN 1 + times[q \div p] ELSE 0 IN times[t]

Rest(t, pm, j) == FoldLeft(LAMBDA w, p : w \div p^Power(w, p), t, SubSeq(pm, 1, j))

\* The first prime that is large enough for each bound, as long as there is
\* one.
getEas(pm) ==
  LET From(pval) == {j \in DOMAIN pm : pm[j] >= pval}
      aborts == Max({0} \cup {i \in DOMAIN EarlyAborts :
                              \A c \in 1..i : From(EarlyAborts[c].pval) # {}})
  IN [i \in 1..aborts |-> [at    |-> Min(From(EarlyAborts[i].pval)),
                           bound |-> EarlyAborts[i].bound]]

\* The early aborts are looked at one after the other, each before its prime;
\* one that comes no later than the one before, or at the first prime, is
\* waited for in vain.
GivesUp(t, pm) ==
  \E eas \in {getEas(pm)} : \E a \in DOMAIN eas :
    /\ \A c \in 1..a : eas[c].at > (IF c = 1 THEN 1 ELSE eas[c - 1].at)
    /\ Rest(t, pm, eas[a].at - 1) > eas[a].bound

\* -2: given up, -1: does not factor, 0: but for a rest, 1: factors.
pfactorQ(t, pm) ==
  LET rest == Rest(t, pm, Len(pm))
  IN IF GivesUp(t, pm) THEN -2
     ELSE IF rest = 1 THEN 1
     ELSE IF rest \div Last(pm) <= Last(pm) THEN 0 ELSE -1

Sqrt(t) == Max({r \in 0..t : r * r <= t})

-----------------------------------------------------------------------------
(* Relations.  e[1] is the sign's exponent, e[j + 1] that of pm[j].        *)

\* What combineSoln multiplies t by for the exponents it reduces modulo 2,
\* and a mutant that forgets all but one of the squares.
RootOnce(e, pm, n) ==
  FoldLeft(LAMBDA w, j : IF e[j + 1] >= 2 THEN (w * pm[j]) % n ELSE w,
           1, [j \in DOMAIN pm |-> j])

Root(e, pm, n) ==
  FoldLeft(LAMBDA w, j : (w * PowerMod(pm[j], e[j + 1] \div 2, n)) % n,
           1, [j \in DOMAIN pm |-> j])

NoSoln == [x |-> 1, t |-> 1, r |-> 1, e |-> <<>>]

\* combineSoln; without a second relation it only normalizes the first.
combineSoln(sol, bp) ==
  LET n == task.n
      e == [j \in DOMAIN sol.e |-> sol.e[j] + (IF bp.e = <<>> THEN 0 ELSE bp.e[j])]
      t == (sol.t * bp.t) % n
  IN [x |-> (sol.x * bp.x) % n,
      t |-> (((t * bp.r) % n) * Root(e, task.pm, n)) % n,
      e |-> [j \in DOMAIN e |-> e[j] % 2]]

\* newSoln: the rest stays apart from the root of the squares.
newSoln(sol) ==
  [x |-> sol.x, t |-> sol.t, r |-> Root(sol.e, task.pm, task.n),
   e |-> [j \in DOMAIN sol.e |-> sol.e[j] % 2]]

findSoln(t) == {i \in DOMAIN oddt : oddt[i].t = t}

-----------------------------------------------------------------------------
\* Floating point arithmetic chooses the multiplier.
findk == Multipliers

NoTask == [n |-> 1, k |-> 1, pm |-> <<2>>]

PcfracInit ==
  /\ phase = "idle" /\ task = NoTask
  /\ fraction = [An |-> 1, lastAn |-> 1, Qn |-> 1, lastQn |-> 1, u |-> 0, lastU |-> 0,
                 qn |-> 0, s |-> 0, twog |-> 0]
  /\ current = [x |-> 1, t |-> 1, e |-> <<>>, h |-> 0]
  /\ oddt = <<>> /\ b = <<>> /\ count = MaxCount /\ res = 1

\* main: findk, pcfracInit, and pcfrac up to its loop.
start(n, k, m) ==
  /\ phase = "idle" /\ phase' = "F2"
  /\ task' = [n |-> n, k |-> k, pm |-> pfactorbase(n, k, m)]
  /\ \E r \in {Sqrt(n * k)} :
       fraction' = [An |-> 1, lastAn |-> r, Qn |-> 1, lastQn |-> n * k - r * r,
                    u |-> 2 * r, lastU |-> 2 * r, qn |-> 0, s |-> 0, twog |-> 2 * r]
  /\ b' = [j \in 1..Len(task'.pm) + 1 |-> NoSoln]
  /\ res' = n
  /\ UNCHANGED <<current, oddt, count>>

\* The next convergent, equations (4) to (7), and a mutant that takes u for
\* the one before.
NextQForgets(f) == f.qn * f.u + f.lastQn
NextQ(f) == f.qn * (f.lastU - f.u) + f.lastQn

Expanded(f, Qn) ==
  LET q == IF f.u - Qn >= Qn THEN f.u \div Qn ELSE 1
  IN [An |-> (f.qn * f.An + f.lastAn) % task.n, lastAn |-> f.An,
      Qn |-> Qn, lastQn |-> f.Qn, lastU |-> f.u, qn |-> q,
      u |-> f.twog - (f.u - q * Qn), s |-> 1 - f.s, twog |-> f.twog]

bail == /\ phase = "F2" /\ count = 1
        /\ phase' = "gave up" /\ count' = 0
        /\ UNCHANGED <<task, fraction, current, oddt, b, res>>

\* k*n is a square: pdivmod divides by zero, which errorp reports.
divides_by_zero ==
  /\ phase = "F2" /\ count > 1 /\ NextQ(fraction) = 0
  /\ phase' = "error" /\ count' = count - 1
  /\ UNCHANGED <<task, fraction, current, oddt, b, res>>

iterate ==
  /\ phase = "F2" /\ count > 1
  /\ count' = count - 1
  /\ \E Qn \in {NextQ(fraction)} \ {0} :
       /\ fraction' = Expanded(fraction, Qn)
       /\ \E i \in {pfactorQ(Qn, task.pm)} :
            /\ phase' = IF Qn = 1 THEN "error"
                        ELSE IF i < 0 THEN "F2"
                        ELSE IF i = 0 THEN "partial" ELSE "full"
            /\ current' = IF i < 0 THEN current
                 ELSE [x |-> fraction'.An, t |-> Rest(Qn, task.pm, Len(task.pm)),
                       e |-> <<fraction'.s>> \o [j \in DOMAIN task.pm |-> Power(Qn, task.pm[j])],
                       h |-> 0]
  /\ UNCHANGED <<task, oddt, b, res>>

\* After combineSoln the elimination begins above the highest exponent; and a
\* mutant that begins at it, and so below.
FirstRowLow == Len(task.pm) + 1
FirstRow == Len(task.pm) + 2

Eliminating(sol) == sol @@ [h |-> FirstRow]

\* A rest that has not occurred yet is kept until it occurs again.
keep_partial ==
  /\ phase = "partial" /\ findSoln(current.t) = {}
  /\ phase' = "F2" /\ oddt' = <<newSoln(current)>> \o oddt
  /\ UNCHANGED <<task, fraction, current, b, count, res>>

\* Two relations with the same rest: it is a square now.
TakesRoot(sol) == [sol EXCEPT !.t = 1]

use_partial ==
  /\ phase = "partial"
  /\ \E i \in findSoln(current.t) :
       current' = Eliminating(combineSoln(TakesRoot(current), oddt[i]))
  /\ phase' = "eliminate"
  /\ UNCHANGED <<task, fraction, oddt, b, count, res>>

use_full ==
  /\ phase = "full" /\ phase' = "eliminate"
  /\ current' = Eliminating(combineSoln(current, NoSoln))
  /\ UNCHANGED <<task, fraction, oddt, b, count, res>>

\* F3, F4: the next row, and a mutant that never comes to the sign.
NotTheSign == IF current.h > 2 THEN current.h - 1 ELSE 2
NextRow == current.h - 1

eliminate ==
  /\ phase = "eliminate" /\ current.h > 1
  /\ LET h == NextRow IN
       IF current.e[h] = 0
       THEN current' = [current EXCEPT !.h = h] /\ UNCHANGED <<phase, b>>
       ELSE IF b[h] = NoSoln
       THEN b' = [b EXCEPT ![h] = newSoln(current)] /\ phase' = "F2" /\ UNCHANGED current
       ELSE current' = combineSoln(current, b[h]) @@ [h |-> h] /\ UNCHANGED <<phase, b>>
  /\ UNCHANGED <<task, fraction, oddt, count, res>>

\* F5, with y the t at hand: again if x is y or -y, and a mutant that only
\* knows y.
TrivialEqual(x, y) == x = y
Trivial(x, y) == x = y \/ x + y = task.n

Gcd(i, j) == Max({d \in 1..j : i % d = 0 /\ j % d = 0})

try_to_factor ==
  /\ phase = "eliminate" /\ current.h = 1
  /\ IF Trivial(current.x, current.t)
     THEN phase' = "F2" /\ UNCHANGED res
     ELSE phase' = "found" /\ res' = Gcd(current.x + current.t, task.n)
  /\ UNCHANGED <<task, fraction, current, oddt, b, count>>

Ended == phase \in {"found", "gave up", "error"}

PcfracNext ==
  \/ \E n \in Composites, k \in findk, m \in BaseSizes : start(n, k, m)
  \/ bail \/ divides_by_zero \/ iterate
  \/ keep_partial \/ use_partial \/ use_full
  \/ eliminate \/ try_to_factor

-----------------------------------------------------------------------------
(* Properties. *)

Square(x) == (x * x) % task.n
Sign(s) == IF s = 1 THEN task.n - 1 ELSE 1

(* A^2 = (-1)^s Q modulo n for this convergent and the one before, and Q is *)
(* positive and small: the seven statements of the loop that hand values    *)
(* from one iteration to the next do it in the right order (pcfrac.c:582).  *)
ConvergentsSquare ==
  phase # "idle" =>
    /\ Square(fraction.An) = (Sign(fraction.s) * fraction.Qn) % task.n
    /\ Square(fraction.lastAn) = (Sign(1 - fraction.s) * fraction.lastQn) % task.n
    /\ fraction.Qn \in 1..fraction.twog /\ fraction.lastQn >= 0

\* The product the exponents of a relation stand for, modulo n.
Product(e) ==
  (Sign(e[1]) * FoldLeft(LAMBDA w, j : (w * PowerMod(task.pm[j], e[j + 1], task.n)) % task.n,
                         1, [j \in DOMAIN task.pm |-> j])) % task.n

(* Every relation stays one, however often it was combined: x^2 is t times  *)
(* the product for a new one, t^2 times the product once the rest is in     *)
(* pairs, and in b with the root that newSoln put aside (combineSoln).      *)
RelationsHold ==
  /\ phase \in {"partial", "full"} =>
       Square(current.x) = (current.t * Product(current.e)) % task.n
  /\ phase = "eliminate" =>
       Square(current.x) = (Square(current.t) * Product(current.e)) % task.n
  /\ \A o \in ToSet(oddt) :
       Square(o.x) = (((o.t * Square(o.r)) % task.n) * Product(o.e)) % task.n
  /\ \A o \in ToSet(b) \ {NoSoln} :
       Square(o.x) = (((Square(o.t) * Square(o.r)) % task.n) * Product(o.e)) % task.n

(* The rows are in echelon form: the exponents above h of the relation at   *)
(* hand are even, and b[h] has its highest odd exponent at h, the other way *)
(* round from the comment (pcfrac.c:640).  No two kept rests are the same.  *)
Echelon ==
  /\ phase = "eliminate" =>
       /\ \A j \in DOMAIN current.e : current.e[j] \in 0..1
       /\ \A j \in DOMAIN current.e : j >= current.h => current.e[j] = 0
  /\ \A h \in DOMAIN b : b[h] # NoSoln =>
       b[h].e[h] = 1 /\ \A j \in DOMAIN b[h].e : j > h => b[h].e[j] = 0
  /\ \A i, j \in DOMAIN oddt : oddt[i].t = oddt[j].t => i = j

(* What is found is a factor, neither 1 nor n: the test for a degenerate    *)
(* solution (pcfrac.c:688), after which the program aborts, never succeeds. *)
(* When it gives up the result is n.                                        *)
NeverDegenerate ==
  IF phase = "found" THEN res \in 2..task.n - 1 /\ task.n % res = 0 ELSE res = task.n

(* pcfrac ends once it was started, with a factor, an error, or because it  *)
(* gave up: combining never goes on for ever and the count is always spent. *)
PcfracEnds == phase # "idle" ~> Ended

(* From the continued fraction to the factor, what is taken for a relation *)
(* is one, and the elimination loses none (pcfrac.c:579-691).              *)
RelationsSound ==
  /\ ConvergentsSquare
  /\ RelationsHold
  /\ Echelon
  /\ NeverDegenerate
=============================================================================
