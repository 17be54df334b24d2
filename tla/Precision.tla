----------------------------- MODULE Precision -----------------------------
(***************************************************************************)
(* The multiple precision integers of the factoring benchmark              *)
(* (bench/cfrac).  A number is a sign and its digits, least significant    *)
(* first; the arithmetic goes digit by digit in an accumulator of two      *)
(* digits, and every routine is responsible for the form of its result:    *)
(* no leading zeros, and no negative zero.  The routines are functions, for *)
(* a function's arguments are values: TLC works them out once.             *)
(***************************************************************************)
EXTENDS Integers, Sequences, FiniteSets, SequencesExt

CONSTANT Base    \* BASE

ASSUME PrecisionAssumption == Base \in Nat \ {0, 2} /\ Base % 2 = 0

\* What fits in an accumulator: u32 for digits of u16.
Wide == Base * Base

pzero == [sign |-> FALSE, value |-> <<0>>]
pone  == [sign |-> FALSE, value |-> <<1>>]

Number == [sign : BOOLEAN, value : Seq(0..Base - 1)]
Digits == Seq(Nat)

Size(u) == Len(u.value)
Negated(u) == [u EXCEPT !.sign = ~@]

-----------------------------------------------------------------------------
(* Loops over digits.                                                      *)

\* From the least significant of n digits upwards: t(i, c) is what comes out
\* at digit i with a carry of c from below.
Ripple(n, t(_, _), first) ==
  LET go[value \in Digits, carry \in Nat] ==
        LET temp == t(Len(value) + 1, carry) % Wide
        IN IF Len(value) = n THEN [value |-> value, carry |-> carry]
           ELSE go[Append(value, temp % Base), temp \div Base]
  IN go[<<>>, first]

\* All digits that came out, the last carry among them.
AllDigits(w) == Append(w.value, w.carry)

\* From the most significant digit downwards: division by one digit.
Shorten[value \in Digits, d \in Nat] ==
  LET go[quotient \in Digits, hi \in Nat] ==
        LET i    == Len(value) - Len(quotient)
            temp == (hi * Base + value[i]) % Wide
        IN IF i = 0 THEN [quotient |-> quotient, remainder |-> hi]
           ELSE go[<<temp \div d>> \o quotient, temp % d]
  IN go[<<>>, 0]

\* Without leading zeros.
Stripped(value) == SubSeq(value, 1, Max({1} \cup {i \in DOMAIN value : value[i] # 0}))

IsZero(u) == \A i \in DOMAIN u.value : u.value[i] = 0

pnorm(u) == [sign |-> u.sign /\ ~IsZero(u), value |-> Stripped(u.value)]

-----------------------------------------------------------------------------
(* Comparison.                                                             *)

pcmpz(u) == IF IsZero(u) THEN 0 ELSE IF u.sign THEN -1 ELSE 1

\* The difference of the sizes or, between numbers of one size, the first
\* digit from the top at which they differ; and a mutant that looks from
\* below.
CmpMagnitudesBelow(u, v) ==
  LET differ == {i \in 1..Size(u) : u.value[i] # v.value[i]}
  IN IF Size(u) # Size(v) THEN Size(u) - Size(v)
     ELSE IF differ = {} THEN 0
     ELSE IF u.value[Min(differ)] > v.value[Min(differ)] THEN 1 ELSE -1

CmpMagnitudes(u, v) ==
  LET differ == {i \in 1..Size(u) : u.value[i] # v.value[i]}
  IN IF Size(u) # Size(v) THEN Size(u) - Size(v)
     ELSE IF differ = {} THEN 0
     ELSE IF u.value[Max(differ)] > v.value[Max(differ)] THEN 1 ELSE -1

pcmp[u \in Number, v \in Number] ==
  IF u.sign # v.sign THEN IF u.sign THEN -1 ELSE 1
  ELSE IF u.sign THEN -CmpMagnitudes(u, v) ELSE CmpMagnitudes(u, v)

\* Comparison with an int of one digit.
picmp(u, v) ==
  IF u.sign THEN IF v < 0 /\ Size(u) = 1 THEN -u.value[1] - v ELSE -1
  ELSE IF v >= 0 /\ Size(u) = 1 THEN u.value[1] - v ELSE 1

podd(u) == u.value[1] % 2 = 1

-----------------------------------------------------------------------------
(* Addition and subtraction.  Sum and Difference take arguments of one     *)
(* sign and look at magnitudes only.                                       *)

Sum(u, v) ==
  LET big   == IF Size(u) < Size(v) THEN v ELSE u
      small == IF Size(u) < Size(v) THEN u ELSE v
      w     == Ripple(Size(big),
                      LAMBDA i, c : big.value[i]
                                    + (IF i <= Size(small) THEN small.value[i] ELSE 0) + c,
                      0)
  IN [sign  |-> big.sign,
      value |-> w.value \o (IF w.carry = 0 THEN <<>> ELSE <<w.carry>>)]

\* How the result of a subtraction is normalised, and a mutant that takes off
\* one leading zero only, as the addition and the multiplication may.
NormalizeOnce(value) ==
  IF Len(value) > 1 /\ Last(value) = 0 THEN Front(value) ELSE value

NormalizeDifference(value) == Stripped(value)

Difference(u, v) ==
  LET i     == IF u.sign THEN -pcmp[u, v] ELSE pcmp[u, v]
      big   == IF i < 0 THEN v ELSE u
      small == IF i < 0 THEN u ELSE v
      w     == Ripple(Size(big),
                      LAMBDA k, noborrow :
                        (Base - 1) - (IF k <= Size(small) THEN small.value[k] ELSE 0)
                        + big.value[k] + noborrow,
                      1)
  IN [sign |-> IF i < 0 THEN ~big.sign ELSE big.sign, value |-> NormalizeDifference(w.value)]

padd[u \in Number, v \in Number] ==
  IF u.sign = v.sign THEN Sum(u, v)
  ELSE IF v.sign THEN Difference(u, Negated(v)) ELSE Difference(v, Negated(u))

psub[u \in Number, v \in Number] ==
  IF u.sign # v.sign THEN Sum(u, Negated(v)) ELSE Difference(u, v)

pneg(u) == [u EXCEPT !.sign = (u.sign # (pcmpz(u) # 0))]
pabs(u) == [u EXCEPT !.sign = FALSE]

-----------------------------------------------------------------------------
(* Multiplication, one digit of v after the other.                         *)

\* Without the leading digit if that is zero.
Shortened(digits) == IF Last(digits) = 0 THEN Front(digits) ELSE digits

pmul[u \in Number, v \in Number] ==
  LET big   == IF Size(u) < Size(v) THEN v ELSE u
      small == IF Size(u) < Size(v) THEN u ELSE v
      rows[j \in Nat, w \in Digits] ==
        LET r == Ripple(Size(big), LAMBDA i, hi : small.value[j] * big.value[i]
                                                  + w[j + i - 1] + hi, 0)
        IN IF j > Size(small) THEN w
           ELSE rows[j + 1, SubSeq(w, 1, j - 1) \o AllDigits(r)]
  IN IF pcmpz(u) = 0 \/ pcmpz(v) = 0 THEN pzero
     ELSE [sign  |-> u.sign # v.sign, value |-> Shortened(rows[1, [i \in 1..Size(big) |-> 0]])]

-----------------------------------------------------------------------------
(* Division.  The divisor is not zero: errorp would have aborted.          *)

\* The digit guessed from the two leading digits of u and the leading one of
\* v, and lowered while the second digit of v says it is too large.  u[j] is
\* the digit of weight 1 of the step, and x the divisor.
Guess(u, x, j) ==
  LET n     == Len(x)
      top   == u[j + n]
      two   == top * Base + u[j + n - 1]
      qd    == two \div x[n]
      left(k) == (two % x[n]) + k * x[n]
      fits(k) == x[n - 1] * (qd - k) <= left(k) * Base + u[j + n - 2]
  IN IF top = x[n] THEN Base - 1
     ELSE qd - Min({k \in 0..qd : fits(k) \/ (k > 0 /\ left(k) >= Base)})

\* The digits of u from j on replaced.
Patched(u, j, digits) == SubSeq(u, 1, j - 1) \o digits \o SubSeq(u, j + Len(digits), Len(u))

\* Adding back when the guess was one too large, and a mutant without.
NoAddBack(u, x, j, qd, s) == [u |-> Patched(u, j, s.value), qd |-> qd]

AddBack(u, x, j, qd, s) ==
  LET n == Len(x)
      a == Ripple(n, LAMBDA i, c : s.value[i] + x[i] + c, s.carry)
      top(w) == Append(w.value, (s.value[n + 1] + w.carry - Base) % Base)
  IN IF s.carry = 1 THEN [u |-> Patched(u, j, s.value), qd |-> qd]
     ELSE [u |-> Patched(u, j, top(a)), qd |-> qd - 1]

\* Multiply, subtract and perhaps add back.
Subtract[u \in Digits, x \in Digits, j \in Nat, qd \in Nat] ==
  LET n == Len(x)
      p == AllDigits(Ripple(n, LAMBDA i, hi : qd * x[i] + hi, 0))
      s == Ripple(n + 1, LAMBDA i, c : (Base - 1) - p[i] + u[j + i - 1] + c, 1)
  IN AddBack(u, x, j, qd, s)

\* One digit of the quotient after the other, from the highest.
LongDivision[u \in Digits, v \in Digits] ==
  LET n  == Len(v)
      d  == Base \div (Last(v) + 1)
      steps[rest \in Digits, x \in Digits, q \in Digits] ==
        LET j == Len(u) - n + 1 - Len(q)
            after(s) == steps[s.u, x, <<s.qd>> \o q]
        IN IF j = 0 THEN [q |-> q, r |-> Shorten[SubSeq(rest, 1, n), d].quotient]
           ELSE after(Subtract[rest, x, j, Guess(rest, x, j)])
      start(x) == steps[AllDigits(Ripple(Len(u), LAMBDA i, hi : u[i] * d + hi, x.carry)),
                        x.value, <<>>]
  IN start(Ripple(n, LAMBDA i, hi : v[i] * d + hi, 0))

Quotient(sign, value) ==
  LET signed(q) == [sign |-> sign /\ q # <<0>>, value |-> q]
  IN signed(IF Len(value) > 1 /\ Last(value) = 0 THEN Front(value) ELSE value)

pdivmod[u \in Number, v \in Number] ==
  IF Size(u) < Size(v) THEN [q |-> pzero, r |-> u]
  ELSE LET short(s) == [q |-> Quotient(u.sign # v.sign, s.quotient),
                        r |-> [sign |-> u.sign, value |-> <<s.remainder>>]]
           long(s)  == [q |-> Quotient(u.sign # v.sign, s.q),
                        r |-> pnorm([sign |-> u.sign, value |-> s.r])]
       IN IF Size(v) = 1 THEN short(Shorten[u.value, v.value[1]])
          ELSE long(LongDivision[u.value, v.value])

pdiv[u \in Number, v \in Number] == pdivmod[u, v].q
pmod[u \in Number, v \in Number] == pdivmod[u, v].r

-----------------------------------------------------------------------------
(* Conversion from and to an int, and division by one.                     *)

AbsInt(i) == IF i < 0 THEN -i ELSE i

\* Digits until nothing is left: one or two (INTSIZE).
DigitsOf(i) == IF i < Base THEN <<i>> ELSE <<i % Base, i \div Base>>

itop(i) == [sign |-> i < 0, value |-> DigitsOf(AbsInt(i))]
utop(i) == [sign |-> FALSE, value |-> DigitsOf(i)]

ptwo == [sign |-> FALSE, value |-> <<2>>]
phalf[u \in Number] == pdiv[u, ptwo]

\* The low digit of the divisor is all that is used.
pidiv(u, v) ==
  Quotient(u.sign # (v < 0), Shorten[u.value, AbsInt(v) % Base].quotient)

\* The remainder takes the sign of u; and a mutant that gives it none.
pimodUnsigned(u, v) == Shorten[u.value, AbsInt(v) % Base].remainder

pimod(u, v) ==
  LET r == Shorten[u.value, AbsInt(v) % Base].remainder IN IF u.sign THEN -r ELSE r

\* From a number to an unsigned int; an overflow is reported as soon as
\* another digit does not fit.
Overflow == -1

ptou[u \in Number] ==
  LET go[i \in Nat, t \in Int] ==
        IF i = 0 \/ t = Overflow THEN t
        ELSE go[i - 1, IF t > (Wide - 1 - u.value[i]) \div Base THEN Overflow
                       ELSE t * Base + u.value[i]]
  IN go[Size(u), 0]

-----------------------------------------------------------------------------
(* The routines that loop over the others.                                 *)

pgcd[u \in Number, v \in Number] ==
  LET round[p \in Number \X Number] ==
        IF pcmpz(p[2]) = 0 THEN p[1] ELSE round[<<p[2], pmod[p[1], p[2]]>>]
  IN round[<<pabs(u), pabs(v)>>]

\* Another round for the root is worth it while the root gets smaller, and a
\* mutant that does one round only.
NeverAgain(x, lastx) == FALSE
Again(x, lastx) == pcmp[x, lastx] < 0

\* Of a number that is not negative: errorp would have aborted.
psqrt[y \in Number] ==
  LET root[lastx \in Number] ==
        LET next(x) == IF Again(x, lastx) THEN root[x] ELSE lastx
        IN next(phalf[padd[lastx, pdiv[y, lastx]]])
  IN IF pcmpz(y) = 0 THEN pzero ELSE root[y]

ppowmod[u \in Number, v \in Number, m \in Number] ==
  LET power[i \in Number, n \in Number, j \in Number] ==
        LET next(half, product) == IF pcmpz(half) = 0 THEN product
                                   ELSE power[pmod[pmul[i, i], m], half, product]
        IN next(phalf[n], IF podd(n) THEN pmod[pmul[i, j], m] ELSE j)
  IN power[u, v, pone]

=============================================================================
