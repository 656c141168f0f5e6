------------------------------ MODULE MCTxPool ------------------------------
(***************************************************************************)
(* Six transactions: t2 spends the output of t1, t3 conflicts with t1,     *)
(* t4 is independent but only admissible early on, t5 spends outputs of    *)
(* both t2 and t4, and t6 is on its own.  The chains confirm t1 and t2     *)
(* together, one after the other and higher up, or not at all:             *)
(*                                                                         *)
(*     g - a1[t1 t2] - a2[t4] - x3         x3 is invalid                   *)
(*      \                                                                  *)
(*       b1[] - b2[t1] - b3[t2]                                            *)
(*        \                                                                *)
(*         c2[] - c3[] - c4[t3]                                            *)
(***************************************************************************)
EXTENDS TxPool

CONSTANTS g, a1, a2, x3, b1, b2, b3, c2, c3, c4,
          t1, t2, t3, t4, t5, t6, k0, k1, k2, k3, k4, k5, k6, k7, k8

MCBlock == {g, a1, a2, x3, b1, b2, b3, c2, c3, c4}
MCParent == [b \in MCBlock \ {g} |->
    CASE b \in {a1, b1} -> g [] b = a2 -> a1 [] b = x3 -> a2
      [] b \in {b2, c2} -> b1 [] b = b3 -> b2 [] b = c3 -> c2 [] b = c4 -> c3]
MCHeight == [b \in MCBlock |->
    CASE b = g -> 0 [] b \in {a1, b1} -> 1 [] b \in {a2, b2, c2} -> 2
      [] b \in {x3, b3, c3} -> 3 [] b = c4 -> 4]
MCValid == MCBlock \ {x3}
MCBlockTxns == [b \in MCBlock |->
    CASE b = a1 -> <<t1, t2>> [] b = a2 -> <<t4>> [] b = b2 -> <<t1>>
      [] b = b3 -> <<t2>> [] b = c4 -> <<t3>> [] OTHER -> <<>>]

MCTxn == {t1, t2, t3, t4, t5, t6}
MCInputs == [t \in MCTxn |->
    CASE t = t1 -> {k0} [] t = t2 -> {k2} [] t = t3 -> {k0} [] t = t4 -> {k1}
      [] t = t5 -> {k3, k5} [] t = t6 -> {k7}]
MCOutputs == [t \in MCTxn |->
    CASE t = t1 -> {k2} [] t = t2 -> {k3} [] t = t3 -> {k4} [] t = t4 -> {k5}
      [] t = t5 -> {k6} [] t = t6 -> {k8}]
MCAdmits == [b \in MCBlock |-> IF MCHeight[b] < 2 THEN MCTxn ELSE MCTxn \ {t4}]
MCWeight == [t \in MCTxn |-> IF t = t4 THEN 2 ELSE 1]
MCFeeRate == [t \in MCTxn |-> CASE t = t1 -> 1 [] t = t4 -> 3 [] OTHER -> 2]
MCSets == {<<t1, t2>>, <<t2>>, <<t4, t3>>, <<t6>>, <<t4, t1, t2, t5>>, <<t4, t5>>}
=============================================================================
