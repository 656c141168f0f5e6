----------------------------- MODULE BestChain ------------------------------
(***************************************************************************)
(* What the chain manager promises its callers, with nothing of how a      *)
(* reorg is carried out: the tip moves only to a fully valid chain with    *)
(* sufficiently more work, in one step; and a restart in the middle of     *)
(* such a move comes up somewhere on the way, never below the fork.        *)
(***************************************************************************)
EXTENDS Naturals

CONSTANTS
    Block, Genesis,
    Ancestors,      \* the blocks from genesis to a block, itself included
    TotalWork, Difficulty, Valid

VARIABLE tip

\* A fifth of a block more work than the tip (State.SufficientlyHeavierThan).
Outweighs(s, t) == TotalWork[s] > TotalWork[t] + Difficulty[t] \div 5

Init == tip = Genesis

Adopt(b) ==
    /\ tip' = b
    /\ Outweighs(b, tip)
    /\ Ancestors[b] \subseteq Valid

Restart(b) ==
    /\ tip' = b
    /\ b # tip
    /\ Ancestors[b] \subseteq Valid
    /\ \E target \in Block :
          /\ Outweighs(target, tip)
          /\ b \in Ancestors[tip] \cup Ancestors[target]
          /\ Ancestors[tip] \cap Ancestors[target] \subseteq Ancestors[b]

Next == \E b \in Block : Adopt(b) \/ Restart(b)

Spec == Init /\ [][Next]_tip
=============================================================================
