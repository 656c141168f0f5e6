---------------------------- MODULE MCQdayLedger ----------------------------
(***************************************************************************)
(* Small values and heights.  The transactions that a candidate block      *)
(* carries spend one or two outputs, mature or not, for all that they are  *)
(* worth or for their nominal value; a second transaction may spend the    *)
(* output of the first, or the proof may be repeated.  Among the           *)
(* candidates are blocks with a repeated input, with a wrong payout,       *)
(* without a work marker and, after QDAY, without work.                    *)
(***************************************************************************)
EXTENDS QdayLedger

Work(s) == {FALSE, QdayActive(s.qday, ChildHeight(s))}

Spend(kind, inputs, total, fee, work) ==
    [kind |-> kind, inputs |-> inputs, value |-> total - fee, fee |-> fee, work |-> work]

\* The totals a spender of these inputs may claim and pay a fee from.
Totals(s, inputs) ==
    {FoldLeft(LAMBDA sum, e : sum + Spendable(e, s), 0, inputs),
     FoldLeft(LAMBDA sum, e : sum + e.value, 0, inputs)} \ {0}

Singles(s) ==
    UNION {{Spend("transfer", <<e>>, x, f, w) : x \in Totals(s, <<e>>), f \in 0..1, w \in Work(s)}
           : e \in s.elements}

Proofs(s) ==
    UNION {{Spend("proof", <<e>>, x, ProofFee, w) : x \in Totals(s, <<e>>), w \in Work(s)}
           : e \in s.elements}

Pairs(s) ==
    UNION {{Spend("transfer", i, x, 0, TRUE \in Work(s)) : x \in Totals(s, i)}
           : i \in {SetToSeq(pair) : pair \in kSubset(2, s.elements)} \cup
                   {<<e, e>> : e \in s.elements}}

\* The output of t as the second transaction of a block is spent at once.
Then(s, t) ==
    [t EXCEPT !.inputs = <<Output(ChildHeight(s), 2, t.value, ChildHeight(s))>>,
              !.value = @ - t.fee]

Bodies(s) ==
    {<<>>} \cup {<<t>> : t \in Singles(s) \cup Proofs(s) \cup Pairs(s)}
           \cup {<<t, Then(s, t)>> : t \in {u \in Singles(s) \cup Proofs(s) : u.value > u.fee}}

MCBlocks(s) ==
    {[payout |-> BlockReward(s) + Fees(body) + extra,
      txns |-> <<Marker("coinbase")>> \o body \o end] :
        body \in Bodies(s), end \in {<<>>, <<Marker("work")>>}, extra \in 0..1}

\* Pools that hold conflicting, dependent, repeated or invalid transactions.
\* The last heights, which repeat the rules of the one before, go without.
MCPools(s) ==
    LET txns == Singles(s) \cup Proofs(s)
    IN  IF s.height > MaxHeight - 2 THEN {}
        ELSE Bodies(s) \cup {Reverse(body) : body \in Bodies(s)} \cup {<<t, u>> : t \in txns, u \in txns}
=============================================================================
