----------------------------- MODULE QdayDecay ------------------------------
(***************************************************************************)
(* The life of one output under QdayValue: blocks are connected, a proof   *)
(* may fix the activation height, and the spendable value is evaluated at  *)
(* every height.  MaxValue is the largest Currency.                        *)
(***************************************************************************)
EXTENDS QdayValue

CONSTANTS MaxValue, MaxBirth, MaxHeight    \* bounds of the instance

ASSUME BoundAssumption ==
    /\ MaxValue \in Nat /\ MaxBirth \in Nat /\ MaxHeight \in Nat
    /\ DecayBlocks * DecayBlocks <= MaxValue

VARIABLES value, birth, qday, height

decayVars == <<value, birth, qday, height>>

DecayInit ==
    /\ value \in 0..MaxValue
    /\ birth \in 0..MaxBirth
    /\ qday = 0
    /\ height = 1

\* A block without a proof is connected.
Connect == height' = height + 1 /\ UNCHANGED <<value, birth, qday>>

\* The block at this height carries the proof.
ConnectProof ==
    /\ qday = 0
    /\ qday' = height + ActivationDelay
    /\ height' = height + 1
    /\ UNCHANGED <<value, birth>>

DecayNext == height < MaxHeight /\ (Connect \/ ConnectProof)

DecaySpec == DecayInit /\ [][DecayNext]_decayVars

-----------------------------------------------------------------------------
Worth == QdayValue(value, birth, qday, height)

DecayTypeOK ==
    /\ value \in 0..MaxValue
    /\ birth \in Nat
    /\ qday \in Nat
    /\ height \in Nat

Decaying == QdayActive(qday, height) /\ ~Shielded(birth, qday, height)

Remaining == DecayRemaining(birth, qday, height)

\* The quotient-and-remainder computation is exact: the worth of a decaying
\* output is the integer part of value * remaining / DecayBlocks.
WorthExact ==
    Decaying =>
        /\ Worth * DecayBlocks <= value * Remaining
        /\ value * Remaining < (Worth + 1) * DecayBlocks

\* No product or sum that QdayValue computes exceeds the Currency type, even
\* for the largest value ("including max uint128", as its comment claims), and
\* the subtraction does not underflow.
NoOverflow ==
    Decaying =>
        /\ Quotient(value) * DecayBlocks <= value
        /\ Quotient(value) * Remaining <= MaxValue
        /\ Remainder(value) * Remaining <= MaxValue
        /\ Scale(value, Remaining) <= value

\* An output never becomes worth more: not at the activation, not at a step,
\* not at the end of the decay.
NeverGrows == [][Worth' <= Worth]_decayVars
=============================================================================
