--------------------------- MODULE MCChainManager ---------------------------
(***************************************************************************)
(* A small tree for ChainManager:                                          *)
(*                                                                         *)
(*     g - a1 - a2 - a3          the chain the node follows first          *)
(*           \                                                             *)
(*            b2 - b3 - b4       b3 outweighs a3, but not sufficiently;    *)
(*                   \           b4 would be adopted but is invalid        *)
(*                    d4         d4 is valid and sufficiently heavier      *)
(*     x3 is a child of a2 whose header is invalid.                        *)
(***************************************************************************)
EXTENDS ChainManager

CONSTANTS g, a1, a2, a3, b2, b3, b4, d4, x3

MCBlock == {g, a1, a2, a3, b2, b3, b4, d4, x3}

MCParent ==
    [b \in MCBlock \ {g} |->
        CASE b = a1 -> g
          [] b \in {a2, b2} -> a1
          [] b \in {a3, x3} -> a2
          [] b = b3 -> b2
          [] b \in {b4, d4} -> b3]

MCDifficulty == [b \in MCBlock |-> IF b = b2 THEN 11 ELSE 10]

MCTotalWork ==
    [b \in MCBlock |->
        CASE b = g -> 1
          [] b = a1 -> 11
          [] b \in {a2, b2} -> 21
          [] b \in {a3, x3} -> 31
          [] b = b3 -> 32
          [] b \in {b4, d4} -> 42]

MCOrphanValid == MCBlock \ {x3}
MCValid == MCBlock \ {b4, x3}
MCFutureBlocks == {a3}
=============================================================================
