-------------------------- MODULE ArithmeticLemmas --------------------------
(***************************************************************************)
(* Facts about products, quotients and remainders of naturals.             *)
(***************************************************************************)
EXTENDS Integers, TLAPS

\* Comparing numbers split by a base: the quotient decides, then the remainder.
LEMMA SplitBase ==
    ASSUME NEW d \in Nat \ {0}, NEW h \in Nat, NEW l \in 0..(d - 1), NEW g \in Nat, NEW m \in 0..(d - 1)
    PROVE  /\ h * d + l < g * d + m <=> h < g \/ (h = g /\ l < m)
           /\ h * d + l = g * d + m <=> h = g /\ l = m
<1>1. ASSUME NEW i \in Nat, NEW j \in Nat, i < j PROVE i * d + d <= j * d
  <2>1. j * d = i * d + (j - i) * d /\ j - i \in Nat /\ j - i >= 1
    BY <1>1
  <2>2. (j - i) * d >= d
    BY <2>1
  <2> QED BY <2>1, <2>2
<1>2. h * d \in Nat /\ g * d \in Nat
  OBVIOUS
<1>3. CASE h < g
  BY <1>1, <1>2, <1>3
<1>4. CASE g < h
  BY <1>1, <1>2, <1>4
<1>5. CASE h = g
  BY <1>2, <1>5
<1> QED BY <1>3, <1>4, <1>5

\* Quotient and remainder determine the dividend.
LEMMA DivMod ==
    ASSUME NEW n \in Nat, NEW d \in Nat \ {0}
    PROVE  /\ n \div d \in Nat /\ n % d \in 0..(d - 1)
           /\ n = (n \div d) * d + (n % d)
OBVIOUS

\* They are the only ones that do.
LEMMA DivUnique ==
    ASSUME NEW n \in Nat, NEW d \in Nat \ {0}, NEW q \in Nat, NEW r \in 0..(d - 1),
           n = q * d + r
    PROVE  n \div d = q /\ n % d = r
<1>1. n \div d \in Nat /\ n % d \in 0..(d - 1) /\ n = (n \div d) * d + (n % d)
  BY DivMod
<1> QED BY <1>1, SplitBase

\* Products grow with their first factor.
LEMMA MulMonotone ==
    ASSUME NEW i \in Nat, NEW j \in Nat, NEW k \in Nat, i <= j
    PROVE  i * k <= j * k /\ i * k \in Nat /\ j * k \in Nat
<1>1. j - i \in Nat /\ j * k = i * k + (j - i) * k
  OBVIOUS
<1>2. (j - i) * k \in Nat
  BY <1>1
<1>3. i * k \in Nat /\ j * k \in Nat
  OBVIOUS
<1> QED BY <1>1, <1>2, <1>3

\* Quotients grow with the dividend.
LEMMA DivMonotone ==
    ASSUME NEW m \in Nat, NEW n \in Nat, NEW d \in Nat \ {0}, m <= n
    PROVE  m \div d <= n \div d
<1> DEFINE q == m \div d
           p == n \div d
<1>1. q \in Nat /\ m % d \in 0..(d - 1) /\ m = q * d + (m % d)
  BY DivMod
<1>2. p \in Nat /\ n % d \in 0..(d - 1) /\ n = p * d + (n % d)
  BY DivMod
<1> HIDE DEF q, p
<1> SUFFICES ASSUME p < q PROVE FALSE
  BY <1>1, <1>2 DEF p, q
<1>3. p * d + (n % d) < q * d + (m % d)
  BY <1>1, <1>2, SplitBase
<1> QED BY <1>1, <1>2, <1>3

\* A quotient is the largest number whose product with the divisor fits.
LEMMA DivFloor ==
    ASSUME NEW n \in Nat, NEW d \in Nat \ {0}
    PROVE  (n \div d) * d <= n /\ n < (n \div d + 1) * d
<1> DEFINE q == n \div d
<1>1. q \in Nat /\ n % d \in 0..(d - 1) /\ n = q * d + (n % d)
  BY DivMod
<1> HIDE DEF q
<1>2. (q + 1) * d = q * d + d /\ q * d \in Nat
  BY <1>1
<1> QED BY <1>1, <1>2 DEF q
=============================================================================
