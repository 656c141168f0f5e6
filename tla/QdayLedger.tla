----------------------------- MODULE QdayLedger -----------------------------
(***************************************************************************)
(* The ledger: what blocks may do to the coins.  A block is a sequence of  *)
(* transactions that starts with a coinbase marker and, from V1Height on,  *)
(* ends with a mining work marker; the transactions in between spend and   *)
(* create outputs and one of them may carry the canary proof.  The State   *)
(* of a block commits to the unspent outputs; up to RequireHeight the      *)
(* store keeps them in a bucket too, which an applied block updates and a  *)
(* reverted one restores.                                                  *)
(*                                                                         *)
(* Merkle proofs, signatures and spend policies are taken to be right:     *)
(* the inputs of a transaction are outputs as they were created.           *)
(***************************************************************************)
EXTENDS QdayValue, Sequences, FiniteSets, SequencesExt, FiniteSetsExt

CONSTANTS
    Reward, MiningBlocks, PremineAmount, ProofFee, MaturityDelay,
    MaxBlockWeight,
    RequireHeight,  \* DBStore keeps elements up to this height; 1 in QDAY
    V1Height,       \* height of the mining-marker upgrade, 0 for never
    MaxHeight,      \* bound: the heights explored
    MaxReorg,       \* bound: the deepest reorg
    Blocks(_),      \* the blocks that may be tried on a state
    Pools(_)        \* the pool contents that a miner may build a block from

VARIABLES
    chain,      \* the last MaxReorg + 1 blocks of the best chain and their states
    bucket,     \* DBStore's siacoin element bucket
    proofAt     \* history: the height of the block with the proof, 0 if none

vars == <<chain, bucket, proofAt>>

-----------------------------------------------------------------------------
(* Outputs, states, transactions.                                          *)

Output(h, n, value, birth) == [id |-> <<h, n>>, value |-> value, birth |-> birth]

GenesisOutputs == {Output(0, 1, PremineAmount, 0)}

State == Last(chain).state
ChildHeight(s) == s.height + 1

\* The spendable value of an output in the child block of s.
Spendable(e, s) == QdayValue(e.value, e.birth, s.qday, ChildHeight(s))

SumOf(Value(_), outputs) == MapThenSumSet(Value, outputs)
NominalSum(outputs) == SumOf(LAMBDA e : e.value, outputs)
SpendableSum(outputs, s) == SumOf(LAMBDA e : Spendable(e, s), outputs)

\* Mutant: one reward too many.
LongReward(s) == IF ChildHeight(s) > MiningBlocks + 1 THEN 0 ELSE Reward

BlockReward(s) == IF ChildHeight(s) > MiningBlocks THEN 0 ELSE Reward

QdayV1Active(h) == V1Height # 0 /\ h >= V1Height

-----------------------------------------------------------------------------
(* The MidState: what the transactions so far have spent and created.      *)

NewMidState == [spent |-> {}, created |-> {}, proved |-> FALSE]

\* A transaction has at most one output here: value 0 stands for none.
ApplyV2Transaction(ms, s, n, t) ==
    [spent   |-> ms.spent \cup ToSet(t.inputs),
     created |-> ms.created \cup
                 (IF t.value = 0 THEN {} ELSE {Output(ChildHeight(s), n, t.value, ChildHeight(s))}),
     proved  |-> ms.proved \/ t.kind = "proof"]

\* Markers are out of place here, a proof counts once and pays, there is
\* something to spend, and after QDAY the transaction carries DEFEND work.
ValidateQdayTransaction(ms, s, t) ==
    /\ t.kind \in {"transfer", "proof"}
    /\ t.kind = "proof" => s.qday = 0 /\ ~ms.proved /\ t.fee >= ProofFee
    /\ t.inputs # <<>>
    /\ t.value = 0 => t.kind = "proof"
    /\ QdayActive(s.qday, ChildHeight(s)) => t.work

\* Mutant: inputs count with their nominal value.
ValidateNominal(ms, s, t) ==
    /\ ToSet(t.inputs) \cap ms.spent = {}
    /\ IsInjective(t.inputs)
    /\ ToSet(t.inputs) \subseteq s.elements \cup ms.created
    /\ \A e \in ToSet(t.inputs) : e.birth <= ChildHeight(s)
    /\ FoldLeft(LAMBDA sum, e : sum + e.value, 0, t.inputs) >= t.value + t.fee

\* Mutant: the same input may be listed twice.
ValidateRepeated(ms, s, t) ==
    /\ ToSet(t.inputs) \cap ms.spent = {}
    /\ ToSet(t.inputs) \subseteq s.elements \cup ms.created
    /\ \A e \in ToSet(t.inputs) : e.birth <= ChildHeight(s)
    /\ FoldLeft(LAMBDA sum, e : sum + Spendable(e, s), 0, t.inputs) >= t.value + t.fee

\* Inputs are unspent, mature, and worth at least the outputs and the fee;
\* what is left over is burned.
ValidateV2Siacoins(ms, s, t) ==
    /\ ToSet(t.inputs) \cap ms.spent = {}
    /\ IsInjective(t.inputs)
    /\ ToSet(t.inputs) \subseteq s.elements \cup ms.created
    /\ \A e \in ToSet(t.inputs) : e.birth <= ChildHeight(s)
    /\ FoldLeft(LAMBDA sum, e : sum + Spendable(e, s), 0, t.inputs) >= t.value + t.fee

ValidateV2Transaction(ms, s, t) ==
    ValidateQdayTransaction(ms, s, t) /\ ValidateV2Siacoins(ms, s, t)

-----------------------------------------------------------------------------
(* Blocks: a miner payout and transactions.                                *)

IsMarker(t, kind) == t.kind = kind /\ t.inputs = <<>> /\ t.value = 0 /\ t.fee = 0

\* Mutant: the last transaction is not checked to be a work marker.
AnyLastTransaction(s, b) == b.txns # <<>> /\ IsMarker(Head(b.txns), "coinbase")

ValidateQdayBlockMarkers(s, b) ==
    /\ b.txns # <<>>
    /\ IsMarker(Head(b.txns), "coinbase")
    /\ QdayV1Active(ChildHeight(s)) => Len(b.txns) >= 2 /\ IsMarker(Last(b.txns), "work")

Fees(txns) == FoldLeft(LAMBDA sum, t : sum + t.fee, 0, txns)

\* Markers weigh one unit, inputs another; a miner reserves one for the last
\* marker.
Weight(t) == 1 + Len(t.inputs)
WeightReserve == 1
BlockWeight(txns) == FoldLeft(LAMBDA sum, t : sum + Weight(t), 0, txns)

ValidateMinerPayouts(s, b) == b.payout = BlockReward(s) + Fees(b.txns)

\* The MidState before the n-th transaction.
MidStateAt(s, b, n) ==
    FoldLeft(LAMBDA ms, i : ApplyV2Transaction(ms, s, i, b.txns[i]), NewMidState,
             [i \in 1..(n - 1) |-> i])

\* The markers are applied without being validated as transactions.
ValidateBlock(s, b) ==
    /\ ValidateQdayBlockMarkers(s, b)
    /\ BlockWeight(b.txns) <= MaxBlockWeight
    /\ ValidateMinerPayouts(s, b)
    /\ \A n \in DOMAIN b.txns :
          \/ n = 1
          \/ QdayV1Active(ChildHeight(s)) /\ n = Len(b.txns)
          \/ ValidateV2Transaction(MidStateAt(s, b, n), s, b.txns[n])

\* MidState.ApplyBlock: the transactions, then the immature miner payout.
BlockDiffs(s, b) ==
    LET ms == MidStateAt(s, b, Len(b.txns) + 1)
        payout == Output(ChildHeight(s), 0, b.payout, ChildHeight(s) + MaturityDelay)
    IN  [ms EXCEPT !.created = @ \cup {payout}]

\* consensus.ApplyBlock: the state after b.
NextState(s, b) ==
    LET d == BlockDiffs(s, b)
    IN  [height   |-> ChildHeight(s),
         elements |-> (s.elements \cup d.created) \ d.spent,
         qday     |-> IF s.qday = 0 /\ d.proved THEN ChildHeight(s) + ActivationDelay ELSE s.qday]

\* DBStore.applyElements and revertElements: an output that was created and
\* spent in the same block never was in the bucket.
ApplyElements(d) == (bucket \ (d.spent \ d.created)) \cup (d.created \ d.spent)

\* Mutant: ephemeral outputs are restored like any other spent output.
RevertEphemeral(d) == (bucket \cup d.spent) \ (d.created \ d.spent)

RevertElements(d) == (bucket \cup (d.spent \ d.created)) \ (d.created \ d.spent)

-----------------------------------------------------------------------------
(* The miner.                                                              *)

Marker(kind) == [kind |-> kind, inputs |-> <<>>, value |-> 0, fee |-> 0, work |-> FALSE]

\* The empty block on s: a coinbase marker and the reward.
EmptyCandidate(s) == [payout |-> BlockReward(s), txns |-> <<Marker("coinbase")>>]

\* Mutant: a transaction is validated without the ones before it.
IncludeAlone(s, b, t) ==
    IF \/ BlockWeight(b.txns) + WeightReserve + Weight(t) > MaxBlockWeight
       \/ ~ValidateV2Transaction(NewMidState, s, t)
    THEN b
    ELSE [payout |-> b.payout + t.fee, txns |-> Append(b.txns, t)]

\* A transaction that no longer fits or no longer is valid is skipped.
Include(s, b, t) ==
    IF \/ BlockWeight(b.txns) + WeightReserve + Weight(t) > MaxBlockWeight
       \/ ~ValidateV2Transaction(MidStateAt(s, b, Len(b.txns) + 1), s, t)
    THEN b
    ELSE [payout |-> b.payout + t.fee, txns |-> Append(b.txns, t)]

Candidate(s, pool) ==
    LET b == FoldLeft(LAMBDA a, t : Include(s, a, t), EmptyCandidate(s), pool)
    IN  IF QdayV1Active(ChildHeight(s)) THEN [b EXCEPT !.txns = Append(@, Marker("work"))] ELSE b

-----------------------------------------------------------------------------
ApplyTip(b) ==
    /\ ValidateBlock(State, b)
    /\ LET next == Append(chain, [state |-> NextState(State, b), block |-> b])
       IN  chain' = IF Len(next) > MaxReorg + 1 THEN Tail(next) ELSE next
    /\ bucket' = IF ChildHeight(State) <= RequireHeight
                 THEN ApplyElements(BlockDiffs(State, b)) ELSE bucket
    /\ proofAt' = IF proofAt = 0 /\ \E t \in ToSet(b.txns) : t.kind = "proof"
                  THEN ChildHeight(State) ELSE proofAt

\* RevertBlock recomputes the diffs of the block from the parent's state, and
\* compares the parent's height: the block after RequireHeight is reverted in
\* the bucket although it was not applied there.
RevertTip ==
    /\ Len(chain) > 1
    /\ chain' = Front(chain)
    /\ LET parent == Last(chain').state
       IN  bucket' = IF parent.height <= RequireHeight
                     THEN RevertElements(BlockDiffs(parent, Last(chain).block)) ELSE bucket
    /\ proofAt' = IF proofAt = State.height THEN 0 ELSE proofAt

Init ==
    /\ chain = <<[state |-> [height |-> 0, elements |-> GenesisOutputs, qday |-> 0],
                  block |-> [payout |-> 0, txns |-> <<>>]]>>
    /\ bucket = GenesisOutputs
    /\ proofAt = 0

Next ==
    \/ State.height < MaxHeight /\ \E b \in Blocks(State) : ApplyTip(b)
    \/ RevertTip

Spec == Init /\ [][Next]_vars

-----------------------------------------------------------------------------
(* Properties.                                                             *)

\* No more coins exist than the schedule has issued: Validate's bound on the
\* gross emission, which keeps every sum of values within the Currency type,
\* holds on every chain.
SupplyBound ==
    NominalSum(State.elements) <=
        PremineAmount + Reward * (IF State.height < MiningBlocks THEN State.height ELSE MiningBlocks)

\* Decayed value is never revived: whatever a block spends, the value that
\* could be spent after it exceeds the value before it by at most the reward.
NoRevival ==
    [][State'.height > State.height =>
         SpendableSum(State'.elements, State') <= SpendableSum(State.elements, State) + BlockReward(State)]_vars

\* Owners are warned: an output is worth less than its nominal value only when
\* more than ActivationDelay + ShieldBlocks blocks have followed the proof, and
\* more than ShieldBlocks have followed its own creation.
NoticePeriod ==
    \A e \in State.elements :
        Spendable(e, State) # e.value =>
            /\ proofAt # 0
            /\ ChildHeight(State) > proofAt + ActivationDelay + ShieldBlocks
            /\ ChildHeight(State) > e.birth + ShieldBlocks

\* As long as validation may read it, the element bucket, maintained by
\* differences over applied and reverted blocks, holds exactly the unspent
\* outputs that the tip's state commits to; reverting a block that had not
\* been applied to the bucket does no harm.
BucketMatchesState == State.height <= RequireHeight => bucket = State.elements

\* A miner never wastes work: whatever the pool holds, in whatever order, the
\* candidate that is built from it is a valid block.
CandidateValid == \A pool \in Pools(State) : ValidateBlock(State, Candidate(State, pool))

=============================================================================
