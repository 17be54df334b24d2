--------------------------- MODULE PrecisionText ---------------------------
(***************************************************************************)
(* Numbers and their text: atop and fgetp read a number in clumps of       *)
(* aDigitLog characters, ptoa writes it in such clumps from the right into *)
(* a buffer whose size it computes beforehand.  A text is the sequence of  *)
(* its digits, most significant first, and whether a minus comes before.   *)
(***************************************************************************)
EXTENDS Precision

CONSTANTS
  aBase,       \* base of the text
  aDigitLog,   \* digits in a clump
  aDigits,     \* aDigits characters for every pDigits digits of a number
  pDigits

aDigit == aBase^aDigitLog

ASSUME TextAssumption ==
  /\ {aBase, aDigitLog, aDigits, pDigits} \subseteq Nat \ {0}
  /\ aBase > 1
  /\ Base <= aDigit /\ aDigit < Wide
  /\ Base^pDigits <= aBase^aDigits

ClumpValue(ds) == FoldLeft(LAMBDA t, d : (t * aBase + d) % Wide, 0, ds)

\* What the last clump, one that is not full, is worth; and a mutant that
\* takes every clump for a full one.
ScaleFull(n) == aDigit
Scale(n) == aBase^n

\* atop, and fgetp, which reads the same from a stream.
atop[minus \in BOOLEAN, ds \in Digits] ==
  LET full == Len(ds) \div aDigitLog
      res[k \in 0..full] ==
        IF k = 0 THEN pzero
        ELSE padd[pmul[res[k - 1], utop(aDigit)],
                  utop(ClumpValue(SubSeq(ds, (k - 1) * aDigitLog + 1, k * aDigitLog)))]
      rest  == SubSeq(ds, full * aDigitLog + 1, Len(ds))
      whole == IF rest = <<>> THEN res[full]
               ELSE padd[pmul[res[full], utop(Scale(Len(rest)))], utop(ClumpValue(rest))]
  IN IF minus THEN pneg(whole) ELSE whole

\* The bytes ptoa allocates.
Consize(u) == (Size(u) * aDigits) \div pDigits + aDigitLog + 2

\* The clumps of a number, the least significant first.
Clumps[v \in Number] ==
  <<ptou[pmod[v, utop(aDigit)]]>>
  \o (IF pcmpz(pdiv[v, utop(aDigit)]) = 0 THEN <<>> ELSE Clumps[pdiv[v, utop(aDigit)]])

\* The text of the clumps without its leading zeros, and how many bytes were
\* in use at the most.
Written[minus \in BOOLEAN, clumps \in Digits] ==
  LET length    == Len(clumps) * aDigitLog
      digit(i)  == (clumps[Len(clumps) - (i - 1) \div aDigitLog]
                    \div aBase^((length - i) % aDigitLog)) % aBase
      leading   == Min({length} \cup {i \in 1..length : digit(i) # 0})
  IN [minus  |-> minus,
      digits |-> [i \in 1..length - leading + 1 |-> digit(leading + i - 1)],
      bytes  |-> Max({length + 1, length - leading + 2 + (IF minus THEN 1 ELSE 0)})]

ptoa[u \in Number] == Written[u.sign, Clumps[pabs(u)]]

=============================================================================
