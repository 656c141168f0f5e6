--------------------------- MODULE CurrencyProofs ---------------------------
(***************************************************************************)
(* The sums and differences of Currency for every word size, and so for    *)
(* the code's words of 64 bits.                                            *)
(***************************************************************************)
EXTENDS Currency, ArithmeticLemmas, TLAPS

\* bits.Add64 returns the two digits of the sum.
LEMMA Add64Exact ==
    ASSUME NEW x \in Words, NEW y \in Words, NEW k \in {0, 1}
    PROVE  LET a == Add64(x, y, k) IN
           /\ a.sum \in Words
           /\ a.carry \in {0, 1}
           /\ x + y + k = a.carry * Word + a.sum
<1> DEFINE n == x + y + k
<1>1. n \in Nat /\ n < 2 * Word /\ Word \in Nat /\ Word > 1
  BY WordAssumption DEF Words
<1>2. CASE n < Word
  <2>1. n \div Word = 0 /\ n % Word = n
    BY <1>1, <1>2
  <2> QED BY <2>1, <1>1, <1>2 DEF Add64, Words
<1>3. CASE n >= Word
  <2>1. n \div Word = 1 /\ n % Word = n - Word
    BY <1>1, <1>3
  <2> QED BY <2>1, <1>1, <1>3 DEF Add64, Words
<1> QED BY <1>1, <1>2, <1>3

\* bits.Sub64 borrows exactly when the difference is negative.
LEMMA Sub64Exact ==
    ASSUME NEW x \in Words, NEW y \in Words, NEW k \in {0, 1}
    PROVE  LET d == Sub64(x, y, k) IN
           /\ d.diff \in Words
           /\ d.borrow \in {0, 1}
           /\ x + d.borrow * Word = y + k + d.diff
BY WordAssumption DEF Words, Sub64

\* Every pair of operands is a pair of Currency values.
LEMMA Operands == CurrencySpec => [](c \in Currency /\ v \in Currency)
<1> DEFINE Inv == c \in Currency /\ v \in Currency
<1>1. CurrencyInit => Inv
  BY DEF CurrencyInit
<1>2. Inv /\ [Swap]_<<c, v>> => Inv'
  BY DEF Swap
<1> QED BY <1>1, <1>2, PTL DEF CurrencySpec

\* Currency values compare by their high words, then by their low words.
LEMMA Split ==
    ASSUME NEW h \in Nat, NEW l \in Words, NEW g \in Nat, NEW m \in Words
    PROVE  /\ h * Word + l < g * Word + m <=> h < g \/ (h = g /\ l < m)
           /\ h * Word + l = g * Word + m <=> h = g /\ l = m
BY SplitBase, WordAssumption DEF Words

\* Add is exact, and reports overflow exactly when the sum does not fit.
LEMMA AddExact ==
    ASSUME NEW x \in Currency, NEW y \in Currency
    PROVE  LET s == AddWithOverflow(x, y) IN
           /\ s.val \in Currency
           /\ s.overflow <=> Big(x) + Big(y) >= Word * Word
           /\ ~s.overflow => Big(s.val) = Big(x) + Big(y)
           /\ s.overflow => Big(s.val) = (Big(x) + Big(y)) - Word * Word
<1> DEFINE lo == Add64(x.Lo, y.Lo, 0)
           hi == Add64(x.Hi, y.Hi, lo.carry)
<1>1. x.Lo \in Words /\ x.Hi \in Words /\ y.Lo \in Words /\ y.Hi \in Words
  BY DEF Currency
<1>2. /\ lo.sum \in Words /\ lo.carry \in {0, 1}
      /\ x.Lo + y.Lo + 0 = lo.carry * Word + lo.sum
  BY <1>1, Add64Exact
<1>3. /\ hi.sum \in Words /\ hi.carry \in {0, 1}
      /\ x.Hi + y.Hi + lo.carry = hi.carry * Word + hi.sum
  BY <1>1, <1>2, Add64Exact
<1>4. Big(x) + Big(y) = hi.carry * (Word * Word) + (hi.sum * Word + lo.sum)
  <2>1. Big(x) + Big(y) = (x.Hi + y.Hi) * Word + (x.Lo + y.Lo)
    BY <1>1, WordAssumption DEF Big, Words
  <2>2. x.Lo + y.Lo = lo.carry * Word + lo.sum
    BY <1>1, <1>2 DEF Words
  <2>3. (x.Hi + y.Hi) * Word + lo.carry * Word = (hi.carry * Word + hi.sum) * Word
    <3>1. (x.Hi + y.Hi) * Word + lo.carry * Word = (x.Hi + y.Hi + lo.carry) * Word
      BY <1>1, <1>2, WordAssumption DEF Words
    <3> QED BY <3>1, <1>3
  <2>4. (hi.carry * Word + hi.sum) * Word = hi.carry * (Word * Word) + hi.sum * Word
    BY <1>3, WordAssumption DEF Words
  <2> HIDE DEF lo, hi
  <2> QED BY <1>1, <1>2, <1>3, <2>1, <2>2, <2>3, <2>4, WordAssumption DEF Words
<1>5. hi.sum * Word + lo.sum \in 0..(Word * Word - 1)
  <2> HIDE DEF lo, hi
  <2>0. hi.sum \in Nat /\ hi.sum < Word /\ Word \in Nat /\ 0 \in Words
    BY <1>3, WordAssumption DEF Words
  <2>1. hi.sum * Word + lo.sum < Word * Word + 0
    BY <1>2, <2>0, Split
  <2>2. hi.sum * Word \in Nat /\ Word * Word \in Nat /\ lo.sum \in Nat
    BY <1>2, <1>3, WordAssumption DEF Words
  <2> QED BY <2>1, <2>2
<1>6. /\ AddWithOverflow(x, y).val = NewCurrency(lo.sum, hi.sum)
      /\ AddWithOverflow(x, y).overflow <=> hi.carry # 0
  BY Zenon DEF AddWithOverflow
<1>7. /\ NewCurrency(lo.sum, hi.sum) \in Currency
      /\ Big(NewCurrency(lo.sum, hi.sum)) = hi.sum * Word + lo.sum
  BY <1>2, <1>3 DEF NewCurrency, Currency, Big
<1> HIDE DEF lo, hi
<1>8. Word * Word \in Nat
  BY WordAssumption
<1>9. CASE hi.carry = 0
  BY <1>4, <1>5, <1>6, <1>7, <1>8, <1>9
<1>10. CASE hi.carry = 1
  <2> DEFINE P == Word * Word
             L == hi.sum * Word + lo.sum
             S == Big(x) + Big(y)
  <2>1. S = P + L /\ P \in Nat /\ L \in 0..(P - 1) /\ Big(NewCurrency(lo.sum, hi.sum)) = L
    BY <1>4, <1>5, <1>7, <1>8, <1>10
  <2> HIDE DEF P, L, S
  <2>2. S >= P /\ L = S - P
    BY <2>1
  <2>3. AddWithOverflow(x, y).overflow
    BY <1>6, <1>10
  <2> QED BY <1>6, <1>7, <2>1, <2>2, <2>3 DEF P, S
<1> QED BY <1>3, <1>9, <1>10

\* Sub is exact, and reports underflow exactly when the difference is negative.
LEMMA SubExact ==
    ASSUME NEW x \in Currency, NEW y \in Currency
    PROVE  LET d == SubWithUnderflow(x, y) IN
           /\ d.val \in Currency
           /\ d.underflow <=> Big(x) < Big(y)
           /\ ~d.underflow => Big(d.val) = Big(x) - Big(y)
<1> DEFINE lo == Sub64(x.Lo, y.Lo, 0)
           hi == Sub64(x.Hi, y.Hi, lo.borrow)
           L  == hi.diff * Word + lo.diff
<1>1. x.Lo \in Words /\ x.Hi \in Words /\ y.Lo \in Words /\ y.Hi \in Words
  BY DEF Currency
<1>2. /\ lo.diff \in Words /\ lo.borrow \in {0, 1}
      /\ x.Lo + lo.borrow * Word = y.Lo + 0 + lo.diff
  BY <1>1, Sub64Exact
<1>3. /\ hi.diff \in Words /\ hi.borrow \in {0, 1}
      /\ x.Hi + hi.borrow * Word = y.Hi + lo.borrow + hi.diff
  BY <1>1, <1>2, Sub64Exact
<1>4. /\ SubWithUnderflow(x, y).val = NewCurrency(lo.diff, hi.diff)
      /\ SubWithUnderflow(x, y).underflow <=> hi.borrow # 0
  BY Zenon DEF SubWithUnderflow
<1>5. NewCurrency(lo.diff, hi.diff) \in Currency /\ Big(NewCurrency(lo.diff, hi.diff)) = L
  BY <1>2, <1>3 DEF NewCurrency, Currency, Big
<1> HIDE DEF lo, hi
<1>6. Big(x) + hi.borrow * (Word * Word) = Big(y) + L
  <2>1. (x.Hi + hi.borrow * Word) * Word = (y.Hi + lo.borrow + hi.diff) * Word
    BY <1>3
  <2>2. (x.Hi + hi.borrow * Word) * Word = x.Hi * Word + hi.borrow * (Word * Word)
    BY <1>1, <1>3, WordAssumption DEF Words
  <2>3. (y.Hi + lo.borrow + hi.diff) * Word = y.Hi * Word + lo.borrow * Word + hi.diff * Word
    BY <1>1, <1>2, <1>3, WordAssumption DEF Words
  <2>4. lo.borrow * Word = y.Lo + lo.diff - x.Lo
    BY <1>1, <1>2, WordAssumption DEF Words
  <2>5. x.Hi * Word + hi.borrow * (Word * Word) = y.Hi * Word + (y.Lo + lo.diff - x.Lo) + hi.diff * Word
    BY <2>1, <2>2, <2>3, <2>4
  <2>6. x.Hi * Word \in Nat /\ hi.borrow * (Word * Word) \in Nat /\ y.Hi * Word \in Nat
        /\ hi.diff * Word \in Nat /\ x.Lo \in Nat /\ y.Lo \in Nat /\ lo.diff \in Nat
    BY <1>1, <1>2, <1>3, WordAssumption DEF Words
  <2>7. x.Hi * Word + x.Lo + hi.borrow * (Word * Word)
        = y.Hi * Word + y.Lo + (hi.diff * Word + lo.diff)
    BY <2>5, <2>6
  <2> QED BY <2>6, <2>7 DEF Big
<1>7. L \in 0..(Word * Word - 1)
  <2>0. hi.diff \in Nat /\ hi.diff < Word /\ Word \in Nat /\ 0 \in Words
    BY <1>3, WordAssumption DEF Words
  <2>1. hi.diff * Word + lo.diff < Word * Word + 0
    BY <1>2, <2>0, Split
  <2>2. hi.diff * Word \in Nat /\ Word * Word \in Nat /\ lo.diff \in Nat
    BY <1>2, <1>3, WordAssumption DEF Words
  <2> QED BY <2>1, <2>2
<1>8. Big(x) \in Nat /\ Big(y) \in Nat /\ Word * Word \in Nat /\ Big(x) < Word * Word
  <2>1. Big(x) \in Nat /\ Big(y) \in Nat /\ Word * Word \in Nat
    BY <1>1, WordAssumption DEF Big, Words
  <2>2. x.Hi \in Nat /\ x.Hi < Word /\ Word \in Nat /\ 0 \in Words
    BY <1>1, WordAssumption DEF Words
  <2>3. x.Hi * Word + x.Lo < Word * Word + 0
    BY <1>1, <2>2, Split
  <2> QED BY <2>1, <2>3 DEF Big
<1> HIDE DEF L
<1>9. CASE hi.borrow = 0
  <2>1. Big(x) = Big(y) + L
    BY <1>6, <1>8, <1>9
  <2>2. L = Big(x) - Big(y) /\ ~(Big(x) < Big(y))
    BY <2>1, <1>7, <1>8
  <2> QED BY <1>4, <1>5, <1>9, <2>2
<1>10. CASE hi.borrow = 1
  <2> DEFINE P == Word * Word
  <2>1. Big(x) + P = Big(y) + L /\ P \in Nat /\ L \in 0..(P - 1)
    BY <1>6, <1>7, <1>8, <1>10
  <2> HIDE DEF P
  <2>2. Big(x) < Big(y)
    BY <2>1, <1>8
  <2> QED BY <1>4, <1>5, <1>10, <2>2
<1> QED BY <1>3, <1>9, <1>10

\* For operands of any word size, Add, Sub and Cmp agree with the naturals.
THEOREM SumsAlwaysExact == CurrencySpec => []SumsExact
<1>1. c \in Currency /\ v \in Currency => SumsExact
  <2> SUFFICES ASSUME c \in Currency, v \in Currency PROVE SumsExact
    OBVIOUS
  <2>1. c.Lo \in Words /\ c.Hi \in Words /\ v.Lo \in Words /\ v.Hi \in Words
    BY DEF Currency
  <2>2. c.Hi \in Nat /\ v.Hi \in Nat /\ c.Lo \in Nat /\ v.Lo \in Nat
    BY <2>1, WordAssumption DEF Words
  <2>3. /\ Big(c) < Big(v) <=> c.Hi < v.Hi \/ (c.Hi = v.Hi /\ c.Lo < v.Lo)
        /\ Big(c) = Big(v) <=> c.Hi = v.Hi /\ c.Lo = v.Lo
    BY <2>1, <2>2, Split DEF Big
  <2>4. c = v <=> c.Hi = v.Hi /\ c.Lo = v.Lo
    BY DEF Currency
  <2>5. /\ Cmp(c, v) < 0 <=> Big(c) < Big(v)
        /\ Cmp(c, v) = 0 <=> Big(c) = Big(v)
    BY <2>2, <2>3, <2>4 DEF Cmp
  <2> QED BY AddExact, SubExact, <2>5, Zenon DEF SumsExact
<1> QED BY <1>1, Operands, PTL
-----------------------------------------------------------------------------
\* A product of two words fills at most two words.
LEMMA Mul64Exact ==
    ASSUME NEW x \in Words, NEW y \in Words
    PROVE  LET p == Mul64Full(x, y) IN
           p.hi \in Words /\ p.lo \in Words /\ x * y = p.hi * Word + p.lo
<1>1. x \in Nat /\ y \in Nat /\ x <= Word - 1 /\ y <= Word /\ Word \in Nat \ {0}
  BY WordAssumption DEF Words
<1>2. x * y \in Nat
  BY <1>1
<1> DEFINE h == (x * y) \div Word
           l == (x * y) % Word
<1>3. h \in Nat /\ l \in 0..(Word - 1) /\ x * y = h * Word + l
  BY <1>1, <1>2, DivMod
<1>4. x * y <= (Word - 1) * Word
  <2>1. x * y <= (Word - 1) * y
    BY <1>1, MulMonotone
  <2>2. y * (Word - 1) <= Word * (Word - 1)
    BY <1>1, MulMonotone
  <2> QED BY <1>1, <2>1, <2>2
<1> HIDE DEF h, l
<1>5. h < Word
  <2> SUFFICES ASSUME h >= Word PROVE FALSE
    BY <1>1, <1>3
  <2>1. Word * Word <= h * Word
    BY <1>1, <1>3, MulMonotone
  <2>2. (Word - 1) * Word = Word * Word - Word
    BY <1>1
  <2>3. h * Word \in Nat /\ Word * Word \in Nat
    BY <1>1, <1>3
  <2> QED BY <1>1, <1>3, <1>4, <2>1, <2>2, <2>3
<1>6. h \in Words /\ l \in Words
  BY <1>1, <1>3, <1>5 DEF Words
<1> QED BY <1>3, <1>6 DEF Mul64Full, h, l

\* For operands of any word size, Mul64 is exact or reports overflow.
THEOREM ProductsAlwaysExact == CurrencySpec => []ProductsExact
<1>1. c \in Currency /\ v \in Currency => ProductsExact
  <2> SUFFICES ASSUME c \in Currency, v \in Currency PROVE ProductsExact
    OBVIOUS
  <2> DEFINE y  == v.Lo
             p  == Mul64Full(c.Lo, y)
             p1 == Mul64Full(c.Hi, y)
             h  == Add64(p.hi, p1.lo, 0)
             P  == Word * Word
             L  == h.sum * Word + p.lo
             t  == p1.hi + h.carry
  <2>1. c.Lo \in Words /\ c.Hi \in Words /\ y \in Words
    BY DEF Currency
  <2>2. p.hi \in Words /\ p.lo \in Words /\ c.Lo * y = p.hi * Word + p.lo
    BY <2>1, Mul64Exact
  <2>3. p1.hi \in Words /\ p1.lo \in Words /\ c.Hi * y = p1.hi * Word + p1.lo
    BY <2>1, Mul64Exact
  <2>4. h.sum \in Words /\ h.carry \in {0, 1} /\ p.hi + p1.lo + 0 = h.carry * Word + h.sum
    BY <2>2, <2>3, Add64Exact
  <2>5. /\ Mul64WithOverflow(c, y).val = NewCurrency(p.lo, h.sum)
        /\ Mul64WithOverflow(c, y).overflow <=> p1.hi # 0 \/ h.carry # 0
    BY Zenon DEF Mul64WithOverflow
  <2>6. Big(NewCurrency(p.lo, h.sum)) = L
    BY DEF Big, NewCurrency
  <2> HIDE DEF p, p1, h, y
  <2>7. Word \in Nat /\ p.hi \in Nat /\ p.lo \in Nat /\ p1.hi \in Nat /\ p1.lo \in Nat
        /\ h.sum \in Nat /\ h.carry \in Nat /\ c.Lo \in Nat /\ c.Hi \in Nat /\ y \in Nat
    BY <2>1, <2>2, <2>3, <2>4, WordAssumption DEF Words
  <2>8. Big(c) * y = t * P + L
    <3>1. Big(c) * y = (c.Hi * y) * Word + c.Lo * y
      BY <2>7 DEF Big
    <3>2. (c.Hi * y) * Word = p1.hi * P + p1.lo * Word
      BY <2>3, <2>7
    <3>3. (p.hi + p1.lo) * Word = (h.carry * Word + h.sum) * Word
      BY <2>4, <2>7
    <3>4. p.hi * Word + p1.lo * Word = h.carry * P + h.sum * Word
      BY <3>3, <2>7
    <3>5. t * P = p1.hi * P + h.carry * P
      BY <2>7
    <3>6. p1.hi * P \in Nat /\ p1.lo * Word \in Nat /\ p.hi * Word \in Nat
          /\ h.carry * P \in Nat /\ h.sum * Word \in Nat
      BY <2>7
    <3> DEFINE A == p1.hi * P
               B == p1.lo * Word
               C == p.hi * Word
               D == h.carry * P
               E == h.sum * Word
    <3>7. Big(c) * y = A + B + (C + p.lo) /\ C + B = D + E /\ t * P = A + D /\ L = E + p.lo
      BY <2>2, <2>7, <3>1, <3>2, <3>4, <3>5
    <3>8. A \in Nat /\ B \in Nat /\ C \in Nat /\ D \in Nat /\ E \in Nat
      BY <3>6
    <3> HIDE DEF A, B, C, D, E, P, L, t
    <3> QED BY <2>7, <3>7, <3>8
  <2>9. L \in 0..(P - 1)
    <3>1. h.sum < Word /\ 0 \in Words
      BY <2>4, WordAssumption DEF Words
    <3>2. h.sum * Word + p.lo < Word * Word + 0
      BY <2>2, <2>7, <3>1, Split
    <3>3. h.sum * Word \in Nat /\ Word * Word \in Nat
      BY <2>7
    <3> QED BY <2>7, <3>2, <3>3
  <2>10. P \in Nat /\ t \in Nat
    BY <2>7
  <2>11. t = 0 <=> ~(p1.hi # 0 \/ h.carry # 0)
    BY <2>7
  <2> HIDE DEF P, L, t
  <2>12. Big(c) * y >= P <=> t # 0
    <3>1. CASE t = 0
      BY <2>8, <2>9, <2>10, <3>1
    <3>2. CASE t # 0
      <4>1. 1 * P <= t * P /\ t * P \in Nat
        BY <2>10, <3>2, MulMonotone
      <4> QED BY <2>8, <2>9, <2>10, <3>2, <4>1
    <3> QED BY <3>1, <3>2
  <2>13. t = 0 => Big(c) * y = L
    BY <2>8, <2>9, <2>10
  <2>14. Mul64WithOverflow(c, y).overflow <=> Big(c) * y >= Word * Word
    BY <2>5, <2>11, <2>12 DEF P
  <2>15. ~Mul64WithOverflow(c, y).overflow => Big(Mul64WithOverflow(c, y).val) = Big(c) * y
    BY <2>5, <2>6, <2>11, <2>13
  <2> QED BY <2>14, <2>15, Zenon DEF ProductsExact, y
<1> QED BY <1>1, Operands, PTL

\* The machine's division: a dividend below y words has a one-word quotient.
LEMMA Div64Exact ==
    ASSUME NEW h \in Nat, NEW l \in Words, NEW y \in Words \ {0}, h < y
    PROVE  LET d == Div64Full(h, l, y) IN
           d.quo \in Words /\ d.rem \in 0..(y - 1) /\ h * Word + l = d.quo * y + d.rem
<1> DEFINE n == h * Word + l
           q == n \div y
           r == n % y
<1>1. n \in Nat /\ y \in Nat \ {0} /\ Word \in Nat /\ l \in Nat /\ l < Word
  BY WordAssumption DEF Words
<1>2. q \in Nat /\ r \in 0..(y - 1) /\ n = q * y + r
  BY <1>1, DivMod
<1>3. n < y * Word
  <2>1. (h + 1) * Word <= y * Word /\ (h + 1) * Word = h * Word + Word /\ y * Word \in Nat /\ h * Word \in Nat
    BY <1>1, MulMonotone
  <2> QED BY <1>1, <2>1
<1> HIDE DEF q, r
<1>4. q < Word
  <2> SUFFICES ASSUME q >= Word PROVE FALSE
    BY <1>1, <1>2
  <2>1. Word * y <= q * y /\ Word * y \in Nat /\ q * y \in Nat
    BY <1>1, <1>2, MulMonotone
  <2>2. Word * y = y * Word
    BY <1>1
  <2> HIDE DEF n
  <2> QED BY <1>1, <1>2, <1>3, <2>1, <2>2
<1>5. q \in Words
  BY <1>1, <1>2, <1>4 DEF Words
<1> QED BY <1>2, <1>5 DEF Div64Full, q, r

\* For operands of any word size, Div64 is exact.
THEOREM ShortQuotientsAlwaysExact == CurrencySpec => []ShortQuotientsExact
<1>1. c \in Currency /\ v \in Currency => ShortQuotientsExact
  <2> SUFFICES ASSUME c \in Currency, v \in Currency, v.Lo # 0 PROVE ShortQuotientsExact
    BY DEF ShortQuotientsExact
  <2> DEFINE y == v.Lo
             Q == QuoRem64(c, y)
  <2>1. /\ c.Lo \in Words /\ c.Hi \in Words /\ y \in Words \ {0}
        /\ c.Lo \in Nat /\ c.Hi \in Nat /\ y \in Nat \ {0} /\ Word \in Nat /\ 0 \in Words
    BY WordAssumption DEF Currency, Words
  <2>2. Big(c) = c.Hi * Word + c.Lo /\ Big(c) \in Nat
    BY <2>1 DEF Big
  <2>3. Q.quo \in Currency /\ Q.rem \in 0..(y - 1) /\ Big(c) = Big(Q.quo) * y + Q.rem
    <3>1. CASE c.Hi < y
      <4> DEFINE d == Div64Full(c.Hi, c.Lo, y)
      <4>1. d.quo \in Words /\ d.rem \in 0..(y - 1) /\ c.Hi * Word + c.Lo = d.quo * y + d.rem
        BY <2>1, <3>1, Div64Exact
      <4>2. Q.quo = NewCurrency(d.quo, 0) /\ Q.rem = d.rem
        BY <3>1 DEF QuoRem64
      <4>3. Big(NewCurrency(d.quo, 0)) = d.quo /\ NewCurrency(d.quo, 0) \in Currency
        BY <2>1, <4>1 DEF Big, NewCurrency, Currency, Words
      <4> HIDE DEF d, Q
      <4> QED BY <2>2, <4>1, <4>2, <4>3
    <3>2. CASE ~(c.Hi < y)
      <4> DEFINE dh == Div64Full(0, c.Hi, y)
                 dl == Div64Full(dh.rem, c.Lo, y)
      <4>1. dh.quo \in Words /\ dh.rem \in 0..(y - 1) /\ 0 * Word + c.Hi = dh.quo * y + dh.rem
        BY <2>1, Div64Exact
      <4>2. dl.quo \in Words /\ dl.rem \in 0..(y - 1) /\ dh.rem * Word + c.Lo = dl.quo * y + dl.rem
        <5>1. dh.rem \in Nat /\ dh.rem < y
          BY <2>1, <4>1
        <5> HIDE DEF dh
        <5> QED BY <2>1, <5>1, Div64Exact
      <4>3. Q.quo = NewCurrency(dl.quo, dh.quo) /\ Q.rem = dl.rem
        BY <3>2 DEF QuoRem64
      <4>4. /\ Big(NewCurrency(dl.quo, dh.quo)) = dh.quo * Word + dl.quo
            /\ NewCurrency(dl.quo, dh.quo) \in Currency
        BY <4>1, <4>2 DEF Big, NewCurrency, Currency
      <4> HIDE DEF dh, dl, Q
      <4>5. dh.quo \in Nat /\ dl.quo \in Nat /\ dh.rem \in Nat /\ dl.rem \in Nat
        BY <2>1, <4>1, <4>2 DEF Words
      <4>6. c.Hi * Word = (dh.quo * Word) * y + dh.rem * Word
        <5>1. c.Hi * Word = (dh.quo * y + dh.rem) * Word
          BY <2>1, <4>1, <4>5
        <5> QED BY <5>1, <2>1, <4>5
      <4>7. (dh.quo * Word + dl.quo) * y = (dh.quo * Word) * y + dl.quo * y
        BY <2>1, <4>5
      <4> DEFINE A == (dh.quo * Word) * y
                 B == dh.rem * Word
                 D == dl.quo * y
      <4>8. A \in Nat /\ B \in Nat /\ D \in Nat
        BY <2>1, <4>5
      <4>9. Big(c) = A + B + c.Lo /\ B + c.Lo = D + dl.rem /\ (dh.quo * Word + dl.quo) * y = A + D
        BY <2>2, <4>2, <4>6, <4>7
      <4> HIDE DEF A, B, D
      <4>10. Big(c) = (dh.quo * Word + dl.quo) * y + dl.rem
        BY <2>1, <4>5, <4>8, <4>9
      <4> QED BY <4>2, <4>3, <4>4, <4>10
    <3> QED BY <3>1, <3>2
  <2>4. Big(Q.quo) \in Nat
    BY <2>1, <2>3 DEF Big, Currency, Words
  <2> HIDE DEF Q, y
  <2>5. Big(c) \div y = Big(Q.quo) /\ Big(c) % y = Q.rem
    BY <2>1, <2>2, <2>3, <2>4, DivUnique
  <2> QED BY <2>3, <2>5 DEF ShortQuotientsExact, Q, y
<1> QED BY <1>1, Operands, PTL
=============================================================================
