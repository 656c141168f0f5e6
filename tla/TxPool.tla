------------------------------- MODULE TxPool -------------------------------
(***************************************************************************)
(* The transaction pool of the chain manager.  The pool is a sequence of   *)
(* unconfirmed transactions whose inputs carry what consensus needs to     *)
(* know about their parents: a confirmed parent has a leaf in the element  *)
(* accumulator that commits to its birth height, an ephemeral one is       *)
(* created by an earlier unconfirmed transaction and is given the height   *)
(* of the next block.  Every reverted or applied block rewrites these      *)
(* references; validity is only re-established when the pool is next read  *)
(* (revalidatePool), with the result cached in a MidState.                 *)
(*                                                                         *)
(* A reorg holds the manager's mutex from its first to its last block, so  *)
(* pool operations happen only while busy is FALSE.                        *)
(***************************************************************************)
EXTENDS Naturals, Sequences, FiniteSets, SequencesExt

CONSTANTS
    Block, Genesis, Parent, Height,
    Valid,          \* blocks that ValidateBlock accepts on their parent
    BlockTxns,      \* the transfers of a block, in order
    Txn,            \* transactions
    GenesisCoins,   \* the outputs of the genesis block
    Inputs, Outputs,\* the outputs a transaction spends and creates
    Admits,         \* Admits[b]: transactions that the rules which depend only
                    \*   on the height (policy, decay, DEFEND work) admit after b
    Weight, FeeRate,
    PoolLimit,      \* ten blocks' weight
    MaxPath,        \* longest path along which proofs are updated (144)
    Sets            \* transaction sets that callers submit

ASSUME PoolAssumption ==
    /\ Genesis \in Block
    /\ Valid \subseteq Block
    /\ \A b \in Block : BlockTxns[b] \in Seq(Txn)
    /\ \A t \in Txn : Weight[t] \in 1..PoolLimit /\ FeeRate[t] \in Nat

VARIABLES
    tip,        \* Manager.tipState.Index
    goal,       \* the block the current reorg moves to
    origin,     \* the tip the current reorg started from
    busy,       \* whether a reorg is on its way
    full,       \* blocks whose full state is stored
    txpool      \* Manager.txpool

vars == <<tip, goal, origin, busy, full, txpool>>

-----------------------------------------------------------------------------
(* The chain as the pool sees it.                                          *)

Ancestors[b \in Block] ==
    IF b = Genesis THEN {b} ELSE {b} \cup Ancestors[Parent[b]]

TxnsOf(blocks) == UNION {ToSet(BlockTxns[b]) : b \in blocks}

Confirmed[b \in Block] == TxnsOf(Ancestors[b])

CreatedBy(txns) == UNION {Outputs[t] : t \in txns}
SpentBy(txns) == UNION {Inputs[t] : t \in txns}

Created[b \in Block] == GenesisCoins \cup CreatedBy(Confirmed[b])
Spent[b \in Block] == SpentBy(Confirmed[b])

\* The height at which each output was created on the chain of b.
Birth[b \in Block] ==
    [c \in Created[b] |->
        IF c \in GenesisCoins THEN 0
        ELSE Height[CHOOSE a \in Ancestors[b] : c \in CreatedBy(ToSet(BlockTxns[a]))]]

\* A transaction as a party whose chain ends in b has it: confirmed parents
\* with their leaf and birth height, the others due in the next block.
EntryAt(b, t) ==
    [id   |-> t,
     refs |-> [c \in Inputs[t] |->
        IF c \in Created[b] THEN [leaf |-> TRUE, height |-> Birth[b][c]]
        ELSE [leaf |-> FALSE, height |-> Height[b] + 1]]]

EntriesAt(b, txns) == [i \in DOMAIN txns |-> EntryAt(b, txns[i])]

-----------------------------------------------------------------------------
(* Validation against a MidState: the coins spent and created by the       *)
(* transactions applied on top of the tip so far.                          *)

NoMidState == [none |-> TRUE]
NewMidState == [spent |-> {}, created |-> {}]

ApplyV2Transaction(ms, e) ==
    [spent   |-> ms.spent \cup Inputs[e.id],
     created |-> ms.created \cup Outputs[e.id]]

ValidateV2Transaction(ms, e) ==
    /\ e.id \in Admits[tip]
    /\ \A c \in Inputs[e.id] :
          /\ c \notin ms.spent
          /\ e.refs[c].height <= Height[tip] + 1
          /\ IF e.refs[c].leaf
             THEN c \in Created[tip] \ Spent[tip] /\ e.refs[c].height = Birth[tip][c]
             ELSE c \in ms.created /\ e.refs[c].height = Height[tip] + 1

MidStateOf(entries) == FoldLeft(ApplyV2Transaction, NewMidState, entries)

\* checkTxnSet: whether a set is valid on its own, on top of the tip.
CheckTxnSet(entries) ==
    \A i \in DOMAIN entries :
        ValidateV2Transaction(MidStateOf(SubSeq(entries, 1, i - 1)), entries[i])

WeightOf(entries) == FoldLeft(LAMBDA w, e : w + Weight[e.id], 0, entries)

IDs(entries) == {e.id : e \in ToSet(entries)}

Position(entries) ==
    [t \in IDs(entries) |-> CHOOSE i \in DOMAIN entries : entries[i].id = t]

-----------------------------------------------------------------------------
(* revalidatePool.                                                         *)

\* The pools that remain when low-fee transactions are removed until less
\* than three quarters of the limit is left: the sort leaves ties open.
Evictions(p) ==
    IF p.weight < PoolLimit THEN {p.v2txns}
    ELSE LET Left(out) == p.weight - WeightOf(SelectSeq(p.v2txns, LAMBDA e : e.id \in out))
             Enough(out) == Left(out) < (PoolLimit * 3) \div 4
             Lowest(out) == \A t \in out, u \in IDs(p.v2txns) \ out : FeeRate[t] <= FeeRate[u]
         IN  {SelectSeq(p.v2txns, LAMBDA e : e.id \notin out) :
                out \in {o \in SUBSET IDs(p.v2txns) :
                           /\ Lowest(o)
                           /\ Enough(o) \/ o = IDs(p.v2txns)
                           /\ \E t \in o : Lowest(o \ {t}) /\ ~Enough(o \ {t})}}

\* updateQdayEphemeralHeights
UpdateEphemeralHeights(entries, height) ==
    [i \in DOMAIN entries |->
        [entries[i] EXCEPT !.refs = [c \in DOMAIN @ |->
            IF @[c].leaf THEN @[c] ELSE [leaf |-> FALSE, height |-> height]]]]

\* Remove and re-add all transactions, dropping the ones that have become
\* invalid.
Refilter(entries) ==
    LET Keep(p, e) ==
            IF e.id \in DOMAIN p.indices \/ ~ValidateV2Transaction(p.ms, e) THEN p
            ELSE [v2txns  |-> Append(p.v2txns, e),
                  indices |-> [t \in DOMAIN p.indices \cup {e.id} |->
                                IF t = e.id THEN Len(p.v2txns) + 1 ELSE p.indices[t]],
                  ms      |-> ApplyV2Transaction(p.ms, e),
                  weight  |-> p.weight + Weight[e.id]]
    IN  FoldLeft(Keep,
                 [v2txns |-> <<>>, indices |-> <<>>, ms |-> NewMidState, weight |-> 0],
                 UpdateEphemeralHeights(entries, Height[tip] + 1))

\* Mutant: only the cached MidState decides whether to revalidate.
RevalidateStale(p) ==
    IF p.ms # NoMidState THEN {p} ELSE {Refilter(entries) : entries \in Evictions(p)}

RevalidatePool(p) ==
    IF p.ms # NoMidState /\ p.weight < PoolLimit THEN {p}
    ELSE {Refilter(entries) : entries \in Evictions(p)}

-----------------------------------------------------------------------------
(* AddV2PoolTransactions.                                                  *)

PathLength(from, to) ==
    Cardinality(Ancestors[from] \ Ancestors[to]) + Cardinality(Ancestors[to] \ Ancestors[from])

\* updateV2TransactionProofs fails when the states or blocks are missing, the
\* path is too long, or a reverted block created one of the inputs.
Updatable(entries, from) ==
    /\ from \in full
    /\ PathLength(from, tip) <= MaxPath
    /\ \A e \in ToSet(entries) : \A c \in Inputs[e.id] :
          e.refs[c].leaf =>
              c \notin CreatedBy(TxnsOf(Ancestors[from] \ Ancestors[tip]))

UpdateProofs(entries, from) ==
    LET applied == Ancestors[tip] \ Ancestors[from]
        Confirm(e) == [e EXCEPT !.refs = [c \in DOMAIN @ |->
            IF ~@[c].leaf /\ c \in CreatedBy(TxnsOf(applied))
            THEN [leaf |-> TRUE, height |-> Birth[tip][c]] ELSE @[c]]]
        rem == SelectSeq(entries, LAMBDA e : e.id \notin TxnsOf(applied))
        upd == [i \in DOMAIN rem |-> Confirm(rem[i])]
    IN  IF from = tip THEN upd ELSE UpdateEphemeralHeights(upd, Height[tip] + 1)

\* Mutant: the members before a conflicting one stay in the pool.
AddSetPrefix(p, entries) ==
    LET Add(q, e) ==
            IF q.ms = NoMidState \/ e.id \in DOMAIN q.indices THEN q
            ELSE IF ~ValidateV2Transaction(q.ms, e) THEN [q EXCEPT !.ms = NoMidState]
            ELSE [v2txns  |-> Append(q.v2txns, e),
                  indices |-> Position(Append(q.v2txns, e)),
                  ms      |-> ApplyV2Transaction(q.ms, e),
                  weight  |-> q.weight + Weight[e.id]]
    IN  FoldLeft(Add, p, entries)

\* Adds the members that are not yet in the pool, or none of them: a member
\* that conflicts with the pool undoes the whole set and drops the cache.
AddSet(p, entries) ==
    LET new == SelectSeq(entries, LAMBDA e : e.id \notin DOMAIN p.indices)
        Fits(i) == ValidateV2Transaction(
                      FoldLeft(ApplyV2Transaction, p.ms, SubSeq(new, 1, i - 1)), new[i])
        v2txns == p.v2txns \o new
    IN  IF \A i \in DOMAIN new : Fits(i)
        THEN [v2txns  |-> v2txns,
              indices |-> Position(v2txns),
              ms      |-> FoldLeft(ApplyV2Transaction, p.ms, new),
              weight  |-> p.weight + WeightOf(new)]
        ELSE [p EXCEPT !.ms = NoMidState]

AddV2PoolTransactions(basis, set) ==
    /\ ~busy
    /\ \E p \in RevalidatePool(txpool) :
          LET entries == EntriesAt(basis, set)
              updated == UpdateProofs(entries, basis)
              accept  == /\ ~(ToSet(set) \subseteq DOMAIN p.indices)
                         /\ Updatable(entries, basis)
                         /\ CheckTxnSet(updated)
                         /\ ~(IDs(updated) \subseteq DOMAIN p.indices)
          IN  txpool' = IF accept THEN AddSet(p, updated) ELSE p
    /\ UNCHANGED <<tip, goal, origin, busy, full>>

\* Every query of the pool revalidates it first.
PoolTransactions ==
    /\ ~busy
    /\ txpool' \in RevalidatePool(txpool)
    /\ UNCHANGED <<tip, goal, origin, busy, full>>

\* The unconfirmed ancestors of a pool transaction, in pool order, and the
\* transaction itself: what V2TransactionSet returns for broadcasting.
Parents(ids) == {t \in DOMAIN txpool.indices : Outputs[t] \cap SpentBy(ids) # {}}

AllParents[n \in Nat, ids \in SUBSET Txn] ==
    IF n = 0 THEN ids ELSE AllParents[n - 1, ids \cup Parents(ids)]

\* Mutant: the parents of a transaction are found, but not their parents.
DirectParents(t) ==
    SelectSeq(txpool.v2txns, LAMBDA e : e.id \in {t} \cup Parents({t}))

V2TransactionSet(t) ==
    SelectSeq(txpool.v2txns, LAMBDA e : e.id \in AllParents[Cardinality(Txn), {t}])

-----------------------------------------------------------------------------
(* Reorgs.                                                                 *)

StartReorg(b) ==
    /\ ~busy
    /\ Height[b] > Height[tip]
    /\ busy' = TRUE /\ goal' = b /\ origin' = tip
    /\ UNCHANGED <<tip, full, txpool>>

\* revertPoolUpdate: outputs created by the reverted block become ephemeral.
RevertPoolUpdate(entries, b) ==
    [i \in DOMAIN entries |->
        [entries[i] EXCEPT !.refs = [c \in DOMAIN @ |->
            IF c \in CreatedBy(ToSet(BlockTxns[b]))
            THEN [leaf |-> FALSE, height |-> @[c].height] ELSE @[c]]]]

\* Mutant: the reverted transactions are forgotten.
RestoreNothing(txns, entries) == [txpool EXCEPT !.v2txns = entries, !.ms = NoMidState]

\* Mutant: the reverted transactions come after the pool.
RestoreBehind(txns, entries) ==
    LET v2txns == entries \o SelectSeq(txns, LAMBDA e : e.id \notin IDs(entries))
    IN  [txpool EXCEPT !.v2txns = v2txns, !.weight = WeightOf(v2txns), !.ms = NoMidState]

\* restoreQdayPool: the reverted transactions come back ahead of the pool, up
\* to the weight limit; the first that does not fit ends each of the loops.
RestoreQdayPool(txns, entries) ==
    LET Add(r, e) ==
            IF r.stop \/ e.id \in IDs(r.v2txns) THEN r
            ELSE IF Weight[e.id] > PoolLimit - r.weight THEN [r EXCEPT !.stop = TRUE]
            ELSE [v2txns |-> Append(r.v2txns, e), weight |-> r.weight + Weight[e.id],
                  stop |-> FALSE]
        first  == FoldLeft(Add, [v2txns |-> <<>>, weight |-> 0, stop |-> FALSE], txns)
        second == FoldLeft(Add, [first EXCEPT !.stop = FALSE], entries)
    IN  [txpool EXCEPT !.v2txns = second.v2txns, !.weight = second.weight, !.ms = NoMidState]

RevertTip ==
    /\ busy
    /\ tip \notin Ancestors[goal]
    /\ tip' = Parent[tip]
    /\ txpool' = RestoreQdayPool(EntriesAt(tip', BlockTxns[tip]),
                                 RevertPoolUpdate(txpool.v2txns, tip))
    /\ UNCHANGED <<goal, origin, busy, full>>

NextBlock == CHOOSE b \in Ancestors[goal] : b # Genesis /\ Parent[b] = tip

\* Mutant: the birth height is left at the guess made before confirmation.
ApplyPoolUpdateHeightless(entries, b) ==
    [i \in DOMAIN entries |->
        [entries[i] EXCEPT !.refs = [c \in DOMAIN @ |->
            IF ~@[c].leaf /\ c \in CreatedBy(ToSet(BlockTxns[b]))
            THEN [leaf |-> TRUE, height |-> @[c].height] ELSE @[c]]]]

\* applyPoolUpdate: outputs created by the applied block get their leaf and
\* their birth height.
ApplyPoolUpdate(entries, b) ==
    [i \in DOMAIN entries |->
        [entries[i] EXCEPT !.refs = [c \in DOMAIN @ |->
            IF ~@[c].leaf /\ c \in CreatedBy(ToSet(BlockTxns[b]))
            THEN [leaf |-> TRUE, height |-> Height[b]] ELSE @[c]]]]

ApplyTip ==
    /\ busy
    /\ tip \in Ancestors[goal] /\ tip # goal
    /\ NextBlock \in Valid
    /\ tip' = NextBlock
    /\ full' = full \cup {NextBlock}
    /\ txpool' = [txpool EXCEPT !.v2txns = ApplyPoolUpdate(@, NextBlock)]
    /\ UNCHANGED <<goal, origin, busy>>

\* An invalid block sends the manager back to where it came from.
ApplyTipFails ==
    /\ busy
    /\ tip \in Ancestors[goal] /\ tip # goal
    /\ NextBlock \notin Valid
    /\ goal' = origin
    /\ UNCHANGED <<tip, origin, busy, full, txpool>>

\* Mutant: the cached MidState survives the reorg.
FinishReorgCached ==
    /\ busy
    /\ tip = goal
    /\ busy' = FALSE
    /\ origin' = tip
    /\ UNCHANGED <<tip, goal, full, txpool>>

FinishReorg ==
    /\ busy
    /\ tip = goal
    /\ busy' = FALSE
    /\ origin' = tip
    /\ txpool' = [txpool EXCEPT !.ms = NoMidState]
    /\ UNCHANGED <<tip, goal, full>>

-----------------------------------------------------------------------------
Init ==
    /\ tip = Genesis /\ goal = Genesis /\ origin = Genesis
    /\ busy = FALSE
    /\ full = {Genesis}
    /\ txpool = [v2txns |-> <<>>, indices |-> <<>>, ms |-> NoMidState, weight |-> 0]

Next ==
    \/ \E basis \in Block, set \in Sets : AddV2PoolTransactions(basis, set)
    \/ PoolTransactions
    \/ \E b \in Block : StartReorg(b)
    \/ RevertTip
    \/ ApplyTip
    \/ ApplyTipFails
    \/ FinishReorg

Spec == Init /\ [][Next]_vars

-----------------------------------------------------------------------------
(* Properties.                                                             *)

Ref == [leaf : BOOLEAN, height : Nat]

Fresh == ~busy /\ txpool.ms # NoMidState

\* "Any prefix of the returned slice constitutes a valid transaction set":
\* whatever reorgs moved the parents of pool transactions in and out of the
\* chain, what a query returns is valid on top of the current tip, in order.
PrefixesValid == Fresh => CheckTxnSet(txpool.v2txns)

\* At every step of a reorg, an input has a leaf exactly if the block that
\* creates it is on the current chain, and then the birth height it carries
\* is the one on this chain, not on a chain it was once confirmed on.
ProofsCurrent ==
    \A e \in ToSet(txpool.v2txns) : \A c \in Inputs[e.id] :
        /\ e.refs[c].leaf <=> c \in Created[tip]
        /\ e.refs[c].leaf => e.refs[c].height = Birth[tip][c]

\* The set that is broadcast for a pool transaction is complete and ordered:
\* a node with the same tip and an empty pool accepts it.
BroadcastSetValid ==
    Fresh => \A t \in DOMAIN txpool.indices : CheckTxnSet(V2TransactionSet(t))

\* A transaction set is accepted whole or not at all: if a call adds any of
\* its members then all the members are in the pool or confirmed.
AllOrNothing ==
    [][~busy /\ ~busy' =>
         LET added == IDs(txpool'.v2txns) \ IDs(txpool.v2txns) IN
         added # {} => \E set \in Sets :
             /\ added \subseteq ToSet(set)
             /\ ToSet(set) \subseteq IDs(txpool'.v2txns) \cup Confirmed[tip]]_vars

\* A block's revert brings its transactions into the pool, and no step of a
\* reorg loses a pool transaction, as long as the pool is below its limit.
ReorgKeepsTransactions ==
    [][busy =>
         LET all == IDs(txpool.v2txns) \cup (Confirmed[tip] \ Confirmed[tip']) IN
         \/ all \subseteq IDs(txpool'.v2txns)
         \/ \E t \in Txn : txpool'.weight + Weight[t] > PoolLimit]_vars

\* Whether a transaction could be added behind the transactions in p.
Addable(t, p) ==
    /\ t \in Admits[tip]
    /\ \A c \in Inputs[t] :
          /\ c \notin Spent[tip] \cup SpentBy(IDs(p.v2txns))
          /\ c \in Created[tip] \cup CreatedBy(IDs(p.v2txns))

\* Revalidation drops a transaction only for a reason: unless the pool was
\* full, what is dropped is inadmissible, spends a coin that the chain or
\* another pool transaction has spent, or lost its parent.  No transaction is
\* dropped because the pool was restored in the wrong order.
DropsJustified ==
    [][~busy /\ ~busy' /\ txpool.weight < PoolLimit =>
         \A t \in IDs(txpool.v2txns) \ IDs(txpool'.v2txns) : ~Addable(t, txpool')]_vars

\* The pool grows only from below its limit: a call adds a set only to a pool
\* that was first brought below the limit, and restoring reverted blocks stops
\* at the limit however deep the reorg is.
PoolBounded ==
    [][LET added == IDs(txpool'.v2txns) \ IDs(txpool.v2txns)
           Without(set) == SelectSeq(txpool'.v2txns, LAMBDA e : e.id \notin ToSet(set))
       IN  added # {} =>
             IF busy THEN WeightOf(txpool'.v2txns) <= PoolLimit
             ELSE \E set \in Sets : /\ added \subseteq ToSet(set)
                                    /\ WeightOf(Without(set)) < PoolLimit]_vars

=============================================================================
