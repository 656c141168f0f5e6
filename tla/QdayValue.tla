----------------------------- MODULE QdayValue ------------------------------
(***************************************************************************)
(* The decay of unmoved coins after QDAY.  A confirmed canary proof fixes  *)
(* the height at which the rules change; from then on an output keeps its  *)
(* value for ShieldBlocks blocks and then loses it in steps over           *)
(* DecayBlocks blocks.  The value is computed when the output is spent,    *)
(* from its nominal value and its birth height alone.                      *)
(***************************************************************************)
EXTENDS Naturals

CONSTANTS
    ShieldBlocks,    \* blocks during which an output keeps its value
    DecayBlocks,     \* blocks over which it then decays
    DecayStep,       \* blocks between two decreases
    ActivationDelay  \* blocks between the proof and the new rules

ASSUME DecayAssumption ==
    /\ ShieldBlocks \in Nat \ {0}
    /\ DecayBlocks \in Nat \ {0}
    /\ DecayStep \in Nat \ {0}
    /\ DecayBlocks % DecayStep = 0
    /\ ActivationDelay \in Nat \ {0}

\* Mutant: an unset activation height counts as activated.
ActiveUnset(qday, height) == height >= qday

\* qday is State.QdayHeight: 0 until a proof has been confirmed.
QdayActive(qday, height) == qday # 0 /\ height >= qday

DecayStart(birth, qday) == IF birth > qday THEN birth ELSE qday

Shielded(birth, qday, height) ==
    LET start == DecayStart(birth, qday)
    IN  height <= start \/ height - start <= ShieldBlocks

\* The age in blocks, rounded down to whole steps.
DecayAge(birth, qday, height) ==
    ((height - (DecayStart(birth, qday) + ShieldBlocks)) \div DecayStep) * DecayStep

\* The blocks of value that are left, none at the end of the decay.
DecayRemaining(birth, qday, height) ==
    LET age == DecayAge(birth, qday, height)
    IN  IF age >= DecayBlocks THEN 0 ELSE DecayBlocks - age

Quotient(value) == value \div DecayBlocks
Remainder(value) == value - Quotient(value) * DecayBlocks

\* Mutant: the remainder's share is forgotten.
ScaleQuotient(value, remaining) == Quotient(value) * remaining

\* value * remaining / DecayBlocks without the large product.
Scale(value, remaining) ==
    Quotient(value) * remaining + ((Remainder(value) * remaining) \div DecayBlocks)

\* Mutant: decay starts with the activation, without a shield.
UnshieldedValue(value, birth, qday, height) ==
    IF ~QdayActive(qday, height) \/ height <= DecayStart(birth, qday) THEN value
    ELSE Scale(value, DecayRemaining(birth, qday, height + ShieldBlocks))

QdayValue(value, birth, qday, height) ==
    IF ~QdayActive(qday, height) \/ Shielded(birth, qday, height) THEN value
    ELSE Scale(value, DecayRemaining(birth, qday, height))

=============================================================================
