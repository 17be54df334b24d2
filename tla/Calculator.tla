----------------------------- MODULE Calculator ----------------------------
(***************************************************************************)
(* A program that uses the multiple precision library of bench/cfrac: it   *)
(* has two numbers and may call any routine on them.  What the routines    *)
(* return is the subject of the properties; the numbers are all those of   *)
(* few digits, a negative zero among them, for psub makes one of two       *)
(* equal negative numbers.                                                 *)
(***************************************************************************)
EXTENDS PrecisionText

CONSTANTS
  MaxDigits,   \* bound: digits of an operand
  MaxText,     \* bound: digits of a text
  MaxPower     \* bound: base, exponent and modulus of ppowmod

ASSUME CalculatorAssumption ==
  MaxDigits \in Nat \ {0} /\ MaxText \in Nat /\ MaxPower \in 1..Wide - 1

VARIABLES
  acc, arg,   \* the two numbers the program has
  text        \* what it reads a number from: a sign and digits

calculatorVars == <<acc, arg, text>>

NoText == [minus |-> FALSE, digits |-> <<>>]

Texts == [minus : BOOLEAN, digits : UNION {[1..n -> 0..aBase - 1] : n \in 1..MaxText}]

Normalized(u) == /\ u.value # <<>>
                 /\ \A i \in DOMAIN u.value : u.value[i] \in 0..Base - 1
                 /\ Size(u) > 1 => Last(u.value) # 0

Operands ==
  {u \in [sign : BOOLEAN, value : UNION {[1..n -> 0..Base - 1] : n \in 1..MaxDigits}] :
     Normalized(u)}

CalculatorInit == acc = pzero /\ arg = pzero /\ text = NoText

\* The program gets hold of another number, or goes on with the last one.
Obtain == arg' \in Operands /\ arg = pzero /\ text = NoText /\ UNCHANGED <<acc, text>>
Proceed == acc' = arg /\ arg' = pzero /\ UNCHANGED text

\* The program reads a text, with atop or fgetp.
Read == /\ acc = pzero /\ arg = pzero /\ text = NoText
        /\ text' \in Texts
        /\ UNCHANGED <<acc, arg>>

CalculatorNext == Obtain \/ Proceed \/ Read

-----------------------------------------------------------------------------
(* Properties.                                                             *)

\* The integer a number stands for.
Worth(u) ==
  LET n == FoldLeft(LAMBDA t, d : t * Base + d, 0, Reverse(u.value))
  IN IF u.sign THEN -n ELSE n

A == Worth(acc)
B == Worth(arg)

NegativeZero(u) == u.sign /\ IsZero(u)
Opposite(i, n) == (i < 0 <=> n < 0) /\ (i > 0 <=> n > 0)

\* Sums, differences and products are those of the integers, and come without
\* leading zeros, the form pcmp relies on.  padd and psub are right on a
\* negative zero, as the comment of padd promises; a product or a negation
\* that is zero is positive if its operands were (padd.c, psub.c, pmul.c).
SumsExact ==
  LET sum == padd[acc, arg]  difference == psub[acc, arg]
      product == pmul[acc, arg]  negation == pneg(acc)
  IN /\ Worth(sum) = A + B /\ Worth(difference) = A - B
     /\ Worth(product) = A * B /\ Worth(negation) = -A
     /\ \A w \in {sum, difference, product, negation, pabs(acc)} : Normalized(w)
     /\ ~NegativeZero(product)
     /\ ~NegativeZero(acc) => ~NegativeZero(negation)

\* Division truncates toward zero, the remainder has the sign of the dividend:
\* u = q*v + r, whatever digits had to be guessed and added back.  Quotient
\* and remainder are normalized (pdivmod.c).
DivisionExact ==
  B # 0 =>
    \A s \in {pdivmod[acc, arg]} :
       /\ A = Worth(s.q) * B + Worth(s.r)
       /\ AbsInt(Worth(s.r)) < AbsInt(B) /\ A * Worth(s.r) >= 0
       /\ Normalized(s.q) /\ Normalized(s.r)
       /\ ~NegativeZero(s.q)

\* The short cuts for int arguments of one digit agree with the general
\* routines (pidiv.c, pimod.c, picmp.c, podd.c, phalf.c, itop.c).
SingleDigitAgrees ==
  /\ \A v \in -(Base - 1)..Base - 1 :
       /\ ~NegativeZero(acc) => Opposite(picmp(acc, v), pcmp[acc, itop(v)])
       /\ v # 0 => /\ pidiv(acc, v) = pdiv[acc, itop(v)]
                   /\ pimod(acc, v) = Worth(pmod[acc, itop(v)])
  /\ podd(acc) = (pcmpz(pmod[acc, ptwo]) # 0)
  /\ IF AbsInt(A) < Wide THEN ptou[pabs(acc)] = AbsInt(A) ELSE ptou[pabs(acc)] = Overflow

\* Comparison orders the numbers as the integers, negative zero apart, which
\* it takes for less than zero; pcmpz is right on that, too (pcmp.c).
ComparisonRight ==
  /\ Opposite(pcmpz(acc), A)
  /\ ~NegativeZero(acc) /\ ~NegativeZero(arg) => Opposite(pcmp[acc, arg], A - B)

\* atop and fgetp read the number a text stands for however its digits fall
\* into clumps; ptoa writes a text that stands for its number, begins with no
\* zero, and never reaches below the buffer it has allocated (atop.c, pio.c,
\* ptoa.c).
TextValue(t) ==
  LET n == FoldLeft(LAMBDA w, d : w * aBase + d, 0, t.digits)
  IN IF t.minus THEN -n ELSE n

TextExact ==
  /\ arg = pzero =>
       \A t \in {ptoa[acc]} :
          /\ TextValue(t) = A
          /\ Len(t.digits) > 1 => Head(t.digits) # 0
          /\ t.bytes <= Consize(acc)
  /\ text # NoText => Worth(atop[text.minus, text.digits]) = TextValue(text)

\* The loops end, and with what their comments say: the greatest common
\* divisor, the square root rounded down, the power modulo m (pgcd.c, psqrt.c,
\* ppowmod.c).  0 modulo 1 is left out: ppowmod does not reduce its first 1.
LoopsExact ==
  \A a \in {A}, b \in {B} :
    /\ a > 0 /\ b # 0 =>
         \A g \in {Worth(pgcd[acc, arg])} :
           /\ g > 0 /\ a % g = 0 /\ b % g = 0
           /\ \A d \in g + 1..a : ~(a % d = 0 /\ b % d = 0)
    /\ a >= 0 /\ b = 0 => \A w \in {Worth(psqrt[acc])} : w * w <= a /\ a < (w + 1) * (w + 1)
    /\ a \in 0..MaxPower /\ b \in 1..MaxPower =>
         \A m \in 1..MaxPower : Worth(ppowmod[acc, arg, utop(m)]) = a^b % m

(* The integers of the library are the integers, whatever the digits.      *)
ArithmeticExact ==
  /\ SumsExact
  /\ DivisionExact
  /\ SingleDigitAgrees
  /\ ComparisonRight
  /\ LoopsExact
=============================================================================
