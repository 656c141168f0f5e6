-------------------------- MODULE QdayDecayProofs ---------------------------
(***************************************************************************)
(* The decay of an output for all parameters that QdayParams.Validate      *)
(* accepts, all values, birth heights and activation heights.              *)
(***************************************************************************)
EXTENDS QdayDecay, ArithmeticLemmas, TLAPS

\* Quotient and Remainder split a value by DecayBlocks.
LEMMA ValueSplit ==
    ASSUME NEW x \in Nat
    PROVE  /\ Quotient(x) \in Nat
           /\ Remainder(x) \in 0..(DecayBlocks - 1)
           /\ x = Quotient(x) * DecayBlocks + Remainder(x)
<1>1. DecayBlocks \in Nat \ {0}
  BY DecayAssumption
<1>2. x \div DecayBlocks \in Nat /\ x % DecayBlocks \in 0..(DecayBlocks - 1)
      /\ x = (x \div DecayBlocks) * DecayBlocks + (x % DecayBlocks)
  BY <1>1, DivMod
<1>3. (x \div DecayBlocks) * DecayBlocks \in Nat
  BY <1>1, <1>2
<1> QED BY <1>1, <1>2, <1>3 DEF Quotient, Remainder

\* The two summands of Scale, and their bounds for a legal remaining time.
LEMMA ScaleParts ==
    ASSUME NEW x \in Nat, NEW k \in 0..DecayBlocks
    PROVE  /\ Quotient(x) * k \in Nat
           /\ Quotient(x) * k <= Quotient(x) * DecayBlocks
           /\ Remainder(x) * k \in Nat
           /\ Remainder(x) * k <= Remainder(x) * DecayBlocks
           /\ (Remainder(x) * k) \div DecayBlocks \in Nat
           /\ (Remainder(x) * k) \div DecayBlocks <= Remainder(x)
<1> DEFINE q == Quotient(x)
           r == Remainder(x)
           D == DecayBlocks
<1>1. q \in Nat /\ r \in Nat /\ D \in Nat \ {0} /\ k \in Nat /\ k <= D
  BY ValueSplit, DecayAssumption
<1> HIDE DEF q, r, D
<1>2. k * q <= D * q /\ k * r <= D * r
  BY <1>1, MulMonotone
<1>3. k * q = q * k /\ D * q = q * D /\ k * r = r * k /\ D * r = r * D
      /\ q * k \in Nat /\ q * D \in Nat /\ r * k \in Nat /\ r * D \in Nat
  BY <1>1
<1>4. q * k <= q * D /\ r * k <= r * D
  BY <1>2, <1>3
<1>5. (r * k) \div D \in Nat
  BY <1>1, <1>3, DivMod
<1>6. (r * k) \div D <= (r * D) \div D
  BY <1>1, <1>3, <1>4, DivMonotone
<1>7. (r * D) \div D = r
  <2>1. r * D = r * D + 0 /\ 0 \in 0..(D - 1)
    BY <1>1, <1>3
  <2> QED BY <1>1, <1>3, <2>1, DivUnique
<1> QED BY <1>3, <1>4, <1>5, <1>6, <1>7 DEF q, r, D

\* Scale is a natural number and at most the value.
LEMMA ScaleBounded ==
    ASSUME NEW x \in Nat, NEW k \in 0..DecayBlocks
    PROVE  Scale(x, k) \in Nat /\ Scale(x, k) <= x
<1> DEFINE A == Quotient(x) * k
           B == (Remainder(x) * k) \div DecayBlocks
           C == Quotient(x) * DecayBlocks
           r == Remainder(x)
<1>1. A \in Nat /\ A <= C /\ B \in Nat /\ B <= r
  BY ScaleParts
<1>2. x = C + r /\ C \in Nat /\ r \in Nat
  BY ValueSplit, DecayAssumption
<1>3. Scale(x, k) = A + B
  BY DEF Scale
<1> HIDE DEF A, B, C, r
<1> QED BY <1>1, <1>2, <1>3

\* Scale grows with the remaining time.
LEMMA ScaleMonotone ==
    ASSUME NEW x \in Nat, NEW j \in 0..DecayBlocks, NEW k \in 0..DecayBlocks, j <= k
    PROVE  Scale(x, j) <= Scale(x, k)
<1> DEFINE q == Quotient(x)
           r == Remainder(x)
           D == DecayBlocks
<1>1. q \in Nat /\ r \in Nat /\ D \in Nat \ {0} /\ j \in Nat /\ k \in Nat
  BY ValueSplit, DecayAssumption
<1> HIDE DEF q, r, D
<1>2. j * q <= k * q /\ j * r <= k * r
  BY <1>1, MulMonotone
<1>3. j * q = q * j /\ k * q = q * k /\ j * r = r * j /\ k * r = r * k
      /\ q * j \in Nat /\ q * k \in Nat /\ r * j \in Nat /\ r * k \in Nat
  BY <1>1
<1>4. q * j <= q * k /\ r * j <= r * k
  BY <1>2, <1>3
<1>5. (r * j) \div D <= (r * k) \div D
  BY <1>1, <1>3, <1>4, DivMonotone
<1>6. (r * j) \div D \in Nat /\ (r * k) \div D \in Nat
  BY <1>1, <1>3, DivMod
<1> DEFINE A == q * j
           B == q * k
           F == (r * j) \div D
           G == (r * k) \div D
<1>7. A \in Nat /\ B \in Nat /\ F \in Nat /\ G \in Nat /\ A <= B /\ F <= G
  BY <1>3, <1>4, <1>5, <1>6
<1>8. Scale(x, j) = A + F /\ Scale(x, k) = B + G
  BY DEF Scale, q, r, D
<1> HIDE DEF A, B, F, G
<1> QED BY <1>7, <1>8

\* Scale is the integer part of x * k / DecayBlocks.
LEMMA ScaleExact ==
    ASSUME NEW x \in Nat, NEW k \in 0..DecayBlocks
    PROVE  /\ Scale(x, k) * DecayBlocks <= x * k
           /\ x * k < (Scale(x, k) + 1) * DecayBlocks
<1> DEFINE q == Quotient(x)
           r == Remainder(x)
           D == DecayBlocks
           B == (r * k) \div D
<1>1. q \in Nat /\ r \in Nat /\ D \in Nat \ {0} /\ k \in Nat /\ x = q * D + r
  BY ValueSplit, DecayAssumption
<1>2. Scale(x, k) = q * k + B
  BY DEF Scale
<1> HIDE DEF q, r, D
<1>3. r * k \in Nat /\ B \in Nat
  <2>1. r * k \in Nat
    BY <1>1
  <2> QED BY <1>1, <2>1, DivMod
<1>4. B * D <= r * k /\ r * k < (B + 1) * D
  BY <1>1, <1>3, DivFloor
<1> HIDE DEF B
<1> DEFINE E == (q * k) * D
<1>5. x * k = E + r * k
  <2>1. x * k = (q * D + r) * k
    BY <1>1
  <2>2. (q * D + r) * k = (q * D) * k + r * k
    BY <1>1
  <2>3. (q * D) * k = (q * k) * D
    BY <1>1
  <2> QED BY <2>1, <2>2, <2>3
<1>6. Scale(x, k) * D = E + B * D /\ (Scale(x, k) + 1) * D = E + (B + 1) * D
  <2>1. q * k \in Nat
    BY <1>1
  <2> DEFINE p == q * k
  <2>2. (p + B) * D = p * D + B * D /\ ((p + B) + 1) * D = p * D + (B + 1) * D
    <3> HIDE DEF p
    <3>1. p \in Nat
      BY <2>1 DEF p
    <3> QED BY <1>1, <1>3, <3>1
  <2> QED BY <1>2, <2>2
<1>7. E \in Nat /\ B * D \in Nat /\ (B + 1) * D \in Nat
  BY <1>1, <1>3
<1> DEFINE F == B * D
           G == (B + 1) * D
           H == r * k
<1>8. /\ E \in Nat /\ F \in Nat /\ G \in Nat /\ H \in Nat /\ F <= H /\ H < G
      /\ x * k = E + H /\ Scale(x, k) * D = E + F /\ (Scale(x, k) + 1) * D = E + G
  BY <1>3, <1>4, <1>5, <1>6, <1>7
<1> HIDE DEF E, F, G, H
<1>9. Scale(x, k) * D <= x * k /\ x * k < (Scale(x, k) + 1) * D
  BY <1>8
<1> QED BY <1>9 DEF D

-----------------------------------------------------------------------------
\* The remaining time of a decaying output is at most DecayBlocks, and it does
\* not grow with the height.
LEMMA RemainingBounded ==
    ASSUME NEW b \in Nat, NEW q \in Nat, NEW h \in Nat, ~Shielded(b, q, h)
    PROVE  /\ DecayRemaining(b, q, h) \in 0..DecayBlocks
           /\ ~Shielded(b, q, h + 1)
           /\ DecayRemaining(b, q, h + 1) <= DecayRemaining(b, q, h)
<1> DEFINE s == DecayStart(b, q) + ShieldBlocks
           m == (h - s) \div DecayStep
           n == ((h + 1) - s) \div DecayStep
<1>1. s \in Nat /\ h - s \in Nat /\ (h + 1) - s \in Nat /\ ~Shielded(b, q, h + 1)
  BY DecayAssumption DEF Shielded, DecayStart
<1>2. DecayStep \in Nat \ {0} /\ DecayBlocks \in Nat
  BY DecayAssumption
<1>3. DecayAge(b, q, h) = m * DecayStep /\ DecayAge(b, q, h + 1) = n * DecayStep
  BY DEF DecayAge
<1>4. m \in Nat /\ n \in Nat
  BY <1>1, <1>2, DivMod
<1>5. m <= n
  <2>1. h - s <= (h + 1) - s
    BY <1>1
  <2> HIDE DEF s
  <2> QED BY <1>1, <1>2, <2>1, DivMonotone
<1> HIDE DEF m, n, s
<1>6. m * DecayStep <= n * DecayStep /\ m * DecayStep \in Nat /\ n * DecayStep \in Nat
  BY <1>2, <1>4, <1>5, MulMonotone
<1>7. DecayAge(b, q, h) \in Nat /\ DecayAge(b, q, h + 1) \in Nat
      /\ DecayAge(b, q, h) <= DecayAge(b, q, h + 1)
  BY <1>3, <1>6
<1> QED BY <1>1, <1>2, <1>7 DEF DecayRemaining

\* An output is never worth more than its nominal value.
LEMMA WorthBounded ==
    ASSUME NEW x \in Nat, NEW b \in Nat, NEW q \in Nat, NEW h \in Nat
    PROVE  QdayValue(x, b, q, h) \in Nat /\ QdayValue(x, b, q, h) <= x
<1>1. CASE ~QdayActive(q, h) \/ Shielded(b, q, h)
  BY <1>1 DEF QdayValue
<1>2. CASE QdayActive(q, h) /\ ~Shielded(b, q, h)
  <2>1. DecayRemaining(b, q, h) \in 0..DecayBlocks
    BY <1>2, RemainingBounded
  <2>2. Scale(x, DecayRemaining(b, q, h)) \in Nat /\ Scale(x, DecayRemaining(b, q, h)) <= x
    BY <2>1, ScaleBounded
  <2>3. QED
    BY <1>2, <2>2 DEF QdayValue
<1>3. QED
  BY <1>1, <1>2

\* A block does not make an output worth more.
LEMMA WorthMonotone ==
    ASSUME NEW x \in Nat, NEW b \in Nat, NEW q \in Nat, NEW h \in Nat
    PROVE  QdayValue(x, b, q, h + 1) <= QdayValue(x, b, q, h)
<1>1. CASE ~QdayActive(q, h) \/ Shielded(b, q, h)
  <2>1. QdayValue(x, b, q, h) = x
    BY <1>1 DEF QdayValue
  <2> QED BY <2>1, WorthBounded
<1>2. CASE QdayActive(q, h) /\ ~Shielded(b, q, h)
  <2> DEFINE j == DecayRemaining(b, q, h + 1)
             k == DecayRemaining(b, q, h)
  <2>1. QdayActive(q, h + 1)
    BY <1>2 DEF QdayActive
  <2>2. ~Shielded(b, q, h + 1) /\ j <= k /\ k \in 0..DecayBlocks
    BY <1>2, RemainingBounded
  <2>3. j \in 0..DecayBlocks
    BY <2>2, RemainingBounded
  <2>4. QdayValue(x, b, q, h) = Scale(x, k) /\ QdayValue(x, b, q, h + 1) = Scale(x, j)
    BY <1>2, <2>1, <2>2 DEF QdayValue
  <2> HIDE DEF j, k
  <2> QED BY <2>2, <2>3, <2>4, ScaleMonotone
<1> QED BY <1>1, <1>2

\* The types of the variables.
LEMMA DecayTypes == DecaySpec => []DecayTypeOK
<1>1. DecayInit => DecayTypeOK
  BY BoundAssumption DEF DecayInit, DecayTypeOK
<1>2. DecayTypeOK /\ [DecayNext]_decayVars => DecayTypeOK'
  BY DecayAssumption DEF DecayTypeOK, DecayNext, Connect, ConnectProof, decayVars
<1> QED BY <1>1, <1>2, PTL DEF DecaySpec

\* QdayValue computes the integer part of value * remaining / DecayBlocks, for
\* every value, every height and all parameters.
THEOREM WorthAlwaysExact == DecaySpec => []WorthExact
<1>1. DecayTypeOK => WorthExact
  <2> SUFFICES ASSUME DecayTypeOK, Decaying
               PROVE  /\ Worth * DecayBlocks <= value * Remaining
                      /\ value * Remaining < (Worth + 1) * DecayBlocks
    BY DEF WorthExact
  <2>1. value \in Nat /\ birth \in Nat /\ qday \in Nat /\ height \in Nat
    BY BoundAssumption DEF DecayTypeOK
  <2>2. Remaining \in 0..DecayBlocks
    BY <2>1, RemainingBounded DEF Decaying, Remaining
  <2>3. Worth = Scale(value, Remaining)
    BY DEF Worth, QdayValue, Decaying, Remaining
  <2> QED BY <2>1, <2>2, <2>3, ScaleExact
<1> QED BY <1>1, DecayTypes, PTL

\* No intermediate result of QdayValue leaves the Currency type.
THEOREM DecayNeverOverflows == DecaySpec => []NoOverflow
<1>1. DecayTypeOK => NoOverflow
  <2> SUFFICES ASSUME DecayTypeOK, Decaying
               PROVE  /\ Quotient(value) * DecayBlocks <= value
                      /\ Quotient(value) * Remaining <= MaxValue
                      /\ Remainder(value) * Remaining <= MaxValue
                      /\ Scale(value, Remaining) <= value
    BY DEF NoOverflow
  <2>1. /\ value \in Nat /\ birth \in Nat /\ qday \in Nat /\ height \in Nat
        /\ MaxValue \in Nat /\ value <= MaxValue
    BY BoundAssumption DEF DecayTypeOK
  <2>2. Remaining \in 0..DecayBlocks
    BY <2>1, RemainingBounded DEF Decaying, Remaining
  <2> DEFINE C == Quotient(value) * DecayBlocks
             r == Remainder(value)
  <2>3. value = C + r /\ C \in Nat /\ r \in 0..(DecayBlocks - 1) /\ DecayBlocks \in Nat
    BY <2>1, ValueSplit, DecayAssumption
  <2>4. /\ Quotient(value) * Remaining \in Nat /\ Quotient(value) * Remaining <= C
        /\ r * Remaining \in Nat /\ r * Remaining <= r * DecayBlocks
    BY <2>1, <2>2, ScaleParts
  <2>5. r * DecayBlocks <= DecayBlocks * DecayBlocks /\ r * DecayBlocks \in Nat
        /\ DecayBlocks * DecayBlocks \in Nat
    BY <2>3, MulMonotone
  <2>6. Scale(value, Remaining) <= value
    BY <2>1, <2>2, ScaleBounded
  <2>7. C <= value
    <3> HIDE DEF C, r
    <3> QED BY <2>1, <2>3
  <2>8. Quotient(value) * Remaining <= MaxValue
    <3> HIDE DEF C
    <3> DEFINE A == Quotient(value) * Remaining
    <3>1. A \in Nat /\ A <= C /\ C <= value /\ C \in Nat
      BY <2>3, <2>4, <2>7
    <3> HIDE DEF A
    <3>2. A <= MaxValue
      BY <2>1, <3>1
    <3> QED BY <3>2 DEF A
  <2>9. r * Remaining <= MaxValue
    <3> DEFINE A == r * Remaining
               B == r * DecayBlocks
               E == DecayBlocks * DecayBlocks
    <3>1. A \in Nat /\ A <= B /\ B \in Nat /\ B <= E /\ E \in Nat /\ E <= MaxValue
      BY <2>4, <2>5, BoundAssumption
    <3> HIDE DEF A, B, E
    <3>2. A <= MaxValue
      BY <2>1, <3>1
    <3> QED BY <3>2 DEF A
  <2> QED BY <2>6, <2>7, <2>8, <2>9
<1> QED BY <1>1, DecayTypes, PTL

\* Connecting a block, with or without the proof, never makes an output worth
\* more than before.
THEOREM WorthNeverGrows == DecaySpec => NeverGrows
<1>1. DecayTypeOK /\ [DecayNext]_decayVars => [Worth' <= Worth]_decayVars
  <2> SUFFICES ASSUME DecayTypeOK, DecayNext PROVE Worth' <= Worth
    BY DEF decayVars
  <2>1. value \in Nat /\ birth \in Nat /\ qday \in Nat /\ height \in Nat
    BY BoundAssumption DEF DecayTypeOK
  <2>2. CASE Connect
    BY <2>1, <2>2, WorthMonotone DEF Connect, Worth
  <2>3. CASE ConnectProof
    <3>1. Worth = value
      BY <2>3 DEF ConnectProof, Worth, QdayValue, QdayActive
    <3>2. qday' \in Nat /\ height' \in Nat /\ value' = value /\ birth' = birth
      BY <2>1, <2>3, DecayAssumption DEF ConnectProof
    <3>3. QdayValue(value, birth, qday', height') <= value
      BY <2>1, <3>2, WorthBounded
    <3> QED BY <3>1, <3>2, <3>3 DEF Worth
  <2> QED BY <2>2, <2>3 DEF DecayNext
<1> QED BY <1>1, DecayTypes, PTL DEF DecaySpec, NeverGrows
=============================================================================
