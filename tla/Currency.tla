------------------------------ MODULE Currency ------------------------------
(***************************************************************************)
(* Currency: an unsigned number of two machine words, with the carries and *)
(* borrows of its arithmetic.  The code has words of 64 bits; here a word  *)
(* has Bits bits.  Every operation is written as the code computes it, and *)
(* compared with arithmetic on the naturals.                               *)
(***************************************************************************)
EXTENDS Naturals

CONSTANTS Bits, Word

ASSUME WordAssumption == Bits \in Nat /\ Word \in Nat /\ Word > 1

Words == 0..(Word - 1)
Currency == [Lo : Words, Hi : Words]

NewCurrency(lo, hi) == [Lo |-> lo, Hi |-> hi]
NewCurrency64(c) == NewCurrency(c, 0)
ZeroCurrency == NewCurrency(0, 0)

\* The number a Currency stands for.
Big(c) == c.Hi * Word + c.Lo

-----------------------------------------------------------------------------
(* The package math/bits.                                                  *)

Add64(x, y, carry) == [sum |-> (x + y + carry) % Word, carry |-> (x + y + carry) \div Word]

Sub64(x, y, borrow) ==
    IF x >= y + borrow THEN [diff |-> x - (y + borrow), borrow |-> 0]
    ELSE [diff |-> x + Word - (y + borrow), borrow |-> 1]

Mul64Full(x, y) == [hi |-> (x * y) \div Word, lo |-> (x * y) % Word]

\* Defined, that is without a panic, only when hi < y.
Div64Full(hi, lo, y) == [quo |-> (hi * Word + lo) \div y, rem |-> (hi * Word + lo) % y]

LeadingZeros64(x) == CHOOSE n \in 0..Bits : x * 2^n < Word /\ (n = Bits \/ x * 2^(n + 1) >= Word)

-----------------------------------------------------------------------------
(* Currency arithmetic.                                                    *)

Cmp(c, v) ==
    IF c = v THEN 0
    ELSE IF c.Hi < v.Hi \/ (c.Hi = v.Hi /\ c.Lo < v.Lo) THEN 0 - 1
    ELSE 1

\* Mutant: the carry of the low words is lost.
AddWithoutCarry(c, v) ==
    LET lo == Add64(c.Lo, v.Lo, 0)
        hi == Add64(c.Hi, v.Hi, 0)
    IN  [val |-> NewCurrency(lo.sum, hi.sum), overflow |-> hi.carry # 0]

AddWithOverflow(c, v) ==
    LET lo == Add64(c.Lo, v.Lo, 0)
        hi == Add64(c.Hi, v.Hi, lo.carry)
    IN  [val |-> NewCurrency(lo.sum, hi.sum), overflow |-> hi.carry # 0]

SubWithUnderflow(c, v) ==
    LET lo == Sub64(c.Lo, v.Lo, 0)
        hi == Sub64(c.Hi, v.Hi, lo.borrow)
    IN  [val |-> NewCurrency(lo.diff, hi.diff), underflow |-> hi.borrow # 0]

MulWithOverflow(c, v) ==
    LET p  == Mul64Full(c.Lo, v.Lo)
        p0 == Mul64Full(c.Hi, v.Lo)
        p2 == Mul64Full(c.Lo, v.Hi)
        h1 == Add64(p.hi, p0.lo, 0)
        h2 == Add64(h1.sum, p2.lo, h1.carry)
    IN  [val |-> NewCurrency(p.lo, h2.sum),
         overflow |-> (c.Hi # 0 /\ v.Hi # 0) \/ p0.hi # 0 \/ p2.hi # 0 \/ h2.carry # 0]

Mul64WithOverflow(c, v) ==
    LET p  == Mul64Full(c.Lo, v)
        p1 == Mul64Full(c.Hi, v)
        h2 == Add64(p.hi, p1.lo, 0)
    IN  [val |-> NewCurrency(p.lo, h2.sum), overflow |-> p1.hi # 0 \/ h2.carry # 0]

QuoRem64(c, v) ==
    IF c.Hi < v
    THEN LET d == Div64Full(c.Hi, c.Lo, v)
         IN  [quo |-> NewCurrency(d.quo, 0), rem |-> d.rem]
    ELSE LET dh == Div64Full(0, c.Hi, v)
             dl == Div64Full(dh.rem, c.Lo, v)
         IN  [quo |-> NewCurrency(dl.quo, dh.quo), rem |-> dl.rem]

\* The divisor shifted until its high word is full, the dividend halved, and
\* the quotient of the high parts, which is at most one too large.
TrialQuotient(c, v) ==
    LET n  == LeadingZeros64(v.Hi)
        v1 == (Big(v) * 2^n) \div Word
        u1 == Big(c) \div 2
        tq == Div64Full(u1 \div Word, u1 % Word, v1).quo \div 2^(Bits - 1 - n)
    IN  IF tq # 0 THEN tq - 1 ELSE tq

\* Mutant: the remainder is not adjusted when it reaches the divisor.
QuoRemUnadjusted(c, v) ==
    IF v.Hi = 0
    THEN LET d == QuoRem64(c, v.Lo) IN [quo |-> d.quo, rem |-> NewCurrency64(d.rem)]
    ELSE LET tq == TrialQuotient(c, v)
         IN  [quo |-> NewCurrency64(tq), rem |-> SubWithUnderflow(c, Mul64WithOverflow(v, tq).val).val]

QuoRem(c, v) ==
    IF v.Hi = 0
    THEN LET d == QuoRem64(c, v.Lo) IN [quo |-> d.quo, rem |-> NewCurrency64(d.rem)]
    ELSE LET tq == TrialQuotient(c, v)
             r  == SubWithUnderflow(c, Mul64WithOverflow(v, tq).val).val
         IN  IF Cmp(r, v) >= 0
             THEN [quo |-> NewCurrency((tq + 1) % Word, IF (tq + 1) % Word = 0 THEN 1 ELSE 0),
                   rem |-> SubWithUnderflow(r, v).val]
             ELSE [quo |-> NewCurrency64(tq), rem |-> r]

-----------------------------------------------------------------------------
(* The operands of one operation; a caller may use them in either order.   *)

VARIABLES c, v

CurrencyInit == c \in Currency /\ v \in Currency

Swap == c' = v /\ v' = c

CurrencySpec == CurrencyInit /\ [][Swap]_<<c, v>>

-----------------------------------------------------------------------------
(* Properties.                                                             *)

\* Add and Sub are exact and report overflow and underflow exactly when it
\* happens; Cmp orders as the numbers are ordered.
SumsExact ==
    LET s == AddWithOverflow(c, v)
        d == SubWithUnderflow(c, v)
    IN  /\ s.val \in Currency
        /\ s.overflow <=> Big(c) + Big(v) >= Word * Word
        /\ ~s.overflow => Big(s.val) = Big(c) + Big(v)
        /\ s.overflow => Big(s.val) = (Big(c) + Big(v)) - Word * Word
        /\ d.val \in Currency
        /\ d.underflow <=> Big(c) < Big(v)
        /\ ~d.underflow => Big(d.val) = Big(c) - Big(v)
        /\ Cmp(c, v) < 0 <=> Big(c) < Big(v)
        /\ Cmp(c, v) = 0 <=> Big(c) = Big(v)

\* Mul64 reports overflow exactly when the product does not fit, and is exact
\* otherwise.
ProductsExact ==
    LET p == Mul64WithOverflow(c, v.Lo)
    IN  /\ p.overflow <=> Big(c) * v.Lo >= Word * Word
        /\ ~p.overflow => Big(p.val) = Big(c) * v.Lo

\* "Mul returns c*v. If the result would overflow, Mul panics."  The code adds
\* the carry of the first sum of high words into the second sum, where it has
\* the weight of a low word's carry, instead of reporting it.
MulExact ==
    LET p == MulWithOverflow(c, v)
    IN  ~p.overflow => Big(p.val) = Big(c) * Big(v)

\* Div64 is exact, and never asks the machine for a quotient of two words.
ShortQuotientsExact ==
    v.Lo # 0 =>
        LET q == QuoRem64(c, v.Lo)
        IN  /\ q.quo \in Currency
            /\ Big(q.quo) = Big(c) \div v.Lo
            /\ q.rem = Big(c) % v.Lo

\* Div is exact: "a trial quotient, guaranteed to be within 1 of the actual
\* quotient" is adjusted to the quotient, and no intermediate Sub or Mul64
\* of the adjustment panics.
QuotientsExact ==
    Big(v) # 0 =>
        LET q == QuoRem(c, v)
        IN  /\ Big(q.quo) = Big(c) \div Big(v)
            /\ Big(q.rem) = Big(c) % Big(v)
            /\ v.Hi # 0 => Big(v) * TrialQuotient(c, v) <= Big(c)

=============================================================================
