---------------------------- MODULE MCAlgorithms ----------------------------
(***************************************************************************)
(* The pure algorithms over all their bounded inputs: the arithmetic of    *)
(* Currency, the decay of an output's value, and the packing of the pool   *)
(* for a peer.  A behaviour is about one of them; the others rest.         *)
(***************************************************************************)
EXTENDS Currency, QdayDecay, RelayPlan

currencyVars == <<c, v>>

CurrencyRests == c = ZeroCurrency /\ v = ZeroCurrency
DecayRests == value = 0 /\ birth = 0 /\ qday = 0 /\ height = MaxHeight
PlanRests ==
    /\ sizes = <<>> /\ parents = <<>>
    /\ i = 1 /\ packet = <<>> /\ inPacket = {} /\ packetBytes = 0
    /\ sets = <<>> /\ done = TRUE

Init ==
    \/ CurrencyInit /\ DecayRests /\ PlanRests
    \/ CurrencyRests /\ DecayInit /\ PlanRests
    \/ CurrencyRests /\ DecayRests /\ PlanInit

Next ==
    \/ Swap /\ UNCHANGED <<decayVars, planVars>>
    \/ DecayNext /\ UNCHANGED <<currencyVars, planVars>>
    \/ PlanNext /\ UNCHANGED <<currencyVars, decayVars>>

Spec == Init /\ [][Next]_<<currencyVars, decayVars, planVars>>
=============================================================================
