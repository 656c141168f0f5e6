------------------------------ MODULE Payouts -------------------------------
(***************************************************************************)
(* Pool payouts: each carries a request ID and is recorded in a file       *)
(* before it is relayed.  The rebroadcaster keeps signed transactions in a *)
(* second file and puts them back into the transaction pool until they are *)
(* confirmed.  The chain reorganises under both, either file may fail to   *)
(* be written, and the process may crash between any two steps and lose    *)
(* its pool.                                                               *)
(*                                                                         *)
(* A transaction is a request and the coin it spends.  The chain has two   *)
(* branches from genesis.  An index is a branch and a height.              *)
(***************************************************************************)
EXTENDS Naturals, Sequences, FiniteSetsExt

CONSTANTS
    Request,            \* request IDs
    Coin,               \* the wallet's outputs, numbers ordered by value
    Rewards,            \* those created by the first block of branch "a"
    poolPayoutFinality,
    step,               \* blocks per call in updatePendingProofs
    MaxHeight, MaxReorgs, MaxCrashes,
    None

ASSUME PayoutAssumption ==
    /\ Rewards \subseteq Coin /\ Coin \subseteq Nat
    /\ {poolPayoutFinality, step, MaxHeight} \subseteq Nat \ {0}
    /\ {MaxReorgs, MaxCrashes} \subseteq Nat

Txn == [request : Request, coin : Coin]
Branch == {"a", "b"}

VARIABLES
    blocks,     \* the transactions in the blocks of each branch
    active,     \* the branch that is the best chain
    pool,       \* the transaction pool
    relayed,    \* all transactions that ever were in the pool
    records,    \* s.poolPayouts
    recordFile, \* pool-payouts.json
    pending,    \* s.rebroadcasts
    pendingFile,\* pending-transactions.json
    old,        \* transactions whose 48 hours are over
    pc, job,    \* the wallet operation under s.op, and the rebroadcaster
    snapshot,   \* what the rebroadcaster still has to visit
    dirty,      \* changed in rebroadcastPending
    reorgs, crashes

chainVars == <<blocks, active, reorgs>>
poolVars == <<pool, relayed>>
recordVars == <<records, recordFile>>
pendingVars == <<pending, pendingFile, old>>
relayVars == <<snapshot, dirty>>
vars == <<chainVars, poolVars, recordVars, pendingVars, relayVars, pc, job, crashes>>

-----------------------------------------------------------------------------
(* The chain, as the chain manager shows it.                               *)

At(br, h) == IF h = 0 THEN <<"a", 0>> ELSE <<br, h>>
Tip == At(active, Len(blocks[active]))
BestIndex(h) == IF h <= Len(blocks[active]) THEN At(active, h) ELSE None
OnBest(i) == BestIndex(i[2]) = i
Fork(i, j) == IF i[1] = j[1] THEN Min({i[2], j[2]}) ELSE 0
Between(h, j) == UNION {blocks[j[1]][n] : n \in h + 1 .. j[2]}
Exists(k, i) == k \in Rewards => i[1] = "a" /\ i[2] > 0
Unspent(k, i) == Exists(k, i) /\ \A t \in Between(0, i) : t.coin # k

\* UpdateV2TransactionSet on a single transaction: whether its proofs can be
\* moved from i to j, and whether that passes a block that confirms it.
UpdateV2TransactionSet(t, i, j) ==
    CASE i = j -> "updated"
      [] i # j /\ ~(Unspent(t.coin, i) /\ Exists(t.coin, At(i[1], Fork(i, j)))) -> "error"
      [] OTHER -> IF t \in Between(Fork(i, j), j) THEN "confirmed" ELSE "updated"

\* The best chain grows by a block with payments the network knows.
Extend(txns) ==
    /\ Len(blocks[active]) < MaxHeight
    /\ \A t \in txns : Unspent(t.coin, Tip)
    /\ \A t, u \in txns : t.coin = u.coin => t = u
    /\ blocks' = [blocks EXCEPT ![active] = Append(@, txns)]
    /\ pool' = {t \in pool : \A u \in txns : u.coin # t.coin}
    /\ UNCHANGED <<active, reorgs, relayed, recordVars, pendingVars, relayVars, pc, job, crashes>>

\* The other branch becomes the longer one.  The payments it confirms are in
\* its block h.
Reorg(h, txns) ==
    LET br == CHOOSE b \in Branch : b # active
        n == Len(blocks[active]) + 1
        top == At(br, Len(blocks[br]))
        spent == {t.coin : t \in Between(0, top) \cup txns}
    IN  /\ reorgs < MaxReorgs /\ n <= MaxHeight /\ top[2] < h /\ h <= n
        /\ \A t \in txns : Unspent(t.coin, top)
        /\ \A t, u \in txns : t.coin = u.coin => t = u
        /\ blocks' = [blocks EXCEPT ![br] =
            [m \in 1 .. n |-> IF m <= top[2] THEN @[m] ELSE IF m = h THEN txns ELSE {}]]
        /\ active' = br /\ reorgs' = reorgs + 1
        /\ pool' = {t \in pool \cup Between(0, Tip) :
                        t.coin \notin spent /\ Exists(t.coin, <<br, n>>)}
        /\ UNCHANGED <<relayed, recordVars, pendingVars, relayVars, pc, job, crashes>>

-----------------------------------------------------------------------------
(* Steps that the wallet operation and the rebroadcaster share.  A process *)
(* p works on job[p]: a transaction, the index its proofs are for, the tip *)
(* it was given, the next stop, and the record or the set it came from.    *)

Idle == [txn |-> None, from |-> None, to |-> None, next |-> None, item |-> None]
Goto(p, l) == pc' = [pc EXCEPT ![p] = l]
Job(p, f) == job' = [job EXCEPT ![p] = f]

\* An error ends the operation; the rebroadcaster goes on with the next set.
Leave(p) ==
    /\ Goto(p, IF p = "op" THEN "idle" ELSE "next")
    /\ Job(p, IF p = "op" THEN Idle ELSE [Idle EXCEPT !.to = job[p].to])

\* updatePendingProofs: one round of its loop.  Every call of the chain
\* manager takes its lock anew.  The first finds out whether the proofs are
\* for a block of the best chain.
UpdatePick(p) ==
    LET j == job[p]
        back == {h \in 0 .. j.from[2] : j.from[2] - h \in 1 .. step}
        stops == {h \in back : OnBest(At(j.from[1], h)) /\ h <= j.to[2]}
    IN  /\ pc[p] = "pick"
        /\ \/ j.from = j.to /\ Goto(p, "pool") /\ UNCHANGED job
           \/ /\ j.from # j.to /\ OnBest(j.from) /\ j.from[2] <= j.to[2]
              /\ Goto(p, "ahead") /\ UNCHANGED job
           \/ /\ j.from # j.to /\ ~(OnBest(j.from) /\ j.from[2] <= j.to[2])
              /\ Job(p, [j EXCEPT !.next =
                        At(j.from[1], IF stops # {} THEN Max(stops) ELSE Min(back))])
              /\ Goto(p, "update")

\* It was on the best chain: the next stop is a block of what is now the best
\* chain, or the destination itself.
UpdateAhead(p) ==
    LET j == job[p]
        h == Min({j.from[2] + step, j.to[2]})
        next == IF j.from[2] < j.to[2] THEN BestIndex(h) ELSE j.to
    IN  /\ pc[p] = "ahead"
        /\ IF next = None
           THEN Leave(p)
           ELSE Job(p, [j EXCEPT !.next = next]) /\ Goto(p, "update")

UpdateMove(p) ==
    LET j == job[p]
        result == UpdateV2TransactionSet(j.txn, j.from, j.next)
    IN  /\ pc[p] = "update"
        /\ CASE result = "error" -> Leave(p)
             [] result = "confirmed" -> Goto(p, "confirming") /\ UNCHANGED job
             [] result = "updated" -> Goto(p, "verify") /\ Job(p, [j EXCEPT !.from = j.next])

\* The destination may have left the best chain meanwhile.
UpdateVerify(p) ==
    /\ pc[p] = "verify"
    /\ IF OnBest(job[p].to) THEN Goto(p, "pick") /\ UNCHANGED job ELSE Leave(p)

UpdatePendingProofs(p) ==
    /\ UpdatePick(p) \/ UpdateAhead(p) \/ UpdateMove(p) \/ UpdateVerify(p)
    /\ UNCHANGED <<chainVars, poolVars, recordVars, pendingVars, relayVars, crashes>>

\* Whether the pool accepts t with proofs for i.  What was confirmed since i
\* is dropped without an error.
Accepted(t, i) ==
    LET result == UpdateV2TransactionSet(t, i, Tip)
    IN  \/ t \in pool \/ result = "confirmed"
        \/ result = "updated" /\ Unspent(t.coin, Tip) /\ \A u \in pool : u.coin # t.coin

AddV2PoolTransactions(p) ==
    LET j == job[p]
        new == IF UpdateV2TransactionSet(j.txn, j.to, Tip) = "confirmed" THEN {} ELSE {j.txn}
    IN  /\ pc[p] = "pool"
        /\ IF Accepted(j.txn, j.to)
           THEN /\ pool' = pool \cup new /\ relayed' = relayed \cup new
                /\ Goto(p, "remember") /\ UNCHANGED job
           ELSE Leave(p) /\ UNCHANGED poolVars
        /\ UNCHANGED <<chainVars, recordVars, pendingVars, relayVars, crashes>>

-----------------------------------------------------------------------------
(* The wallet operation.                                                    *)

\* The file is replaced, or writing it fails before or after the replacement.
SavePendingLocked(new) == pendingFile' = new \/ UNCHANGED pendingFile

\* Mutant: the record stays in memory although it could not be saved.
SaveRecordKept(rec, l) ==
    LET new == [records EXCEPT ![rec.txn.request] = rec]
    IN  \/ /\ records' = new /\ recordFile' = new
           /\ Goto("op", l)
           /\ Job("op", IF l = "idle" THEN Idle ELSE [job["op"] EXCEPT !.item = rec])
        \/ /\ records' = new /\ recordFile' \in {recordFile, new}
           /\ Leave("op")

\* savePoolPayoutRecord writes all records; if that fails the record in
\* memory is the previous one.
SavePoolPayoutRecord(rec, l) ==
    LET new == [records EXCEPT ![rec.txn.request] = rec]
    IN  \/ /\ records' = new /\ recordFile' = new
           /\ Goto("op", l)
           /\ Job("op", IF l = "idle" THEN Idle ELSE [job["op"] EXCEPT !.item = rec])
        \/ /\ UNCHANGED records /\ recordFile' \in {recordFile, new}
           /\ Leave("op")

\* outputs: confirmed at the tip and not spent by the pool.
Outputs == {k \in Coin : Unspent(k, Tip) /\ \A t \in pool : t.coin # k}

\* PoolPayout for a new request selects the most valuable coin and signs.
Select(r) ==
    /\ pc["op"] = "idle"
    /\ records[r] = None /\ Outputs # {}
    /\ Job("op", [Idle EXCEPT !.txn = [request |-> r, coin |-> Max(Outputs)], !.from = Tip])
    /\ Goto("op", "sign")
    /\ UNCHANGED <<chainVars, poolVars, recordVars, pendingVars, relayVars, crashes>>

\* Signing takes time: the proofs are brought to the tip after it.
Sign ==
    LET j == job["op"]
        rec == [txn |-> j.txn, basis |-> Tip, confirmedAt |-> None, status |-> "queued"]
    IN  /\ pc["op"] = "sign"
        /\ IF UpdateV2TransactionSet(j.txn, j.from, Tip) = "updated"
           THEN Job("op", [Idle EXCEPT !.txn = j.txn, !.item = rec]) /\ Goto("op", "save")
           ELSE Leave("op")
        /\ UNCHANGED <<chainVars, poolVars, recordVars, pendingVars, relayVars, crashes>>

\* The new record is saved before anyone sees the transaction.
SaveNew ==
    /\ pc["op"] = "save"
    /\ SavePoolPayoutRecord(job["op"].item, "tip")
    /\ UNCHANGED <<chainVars, poolVars, pendingVars, relayVars, crashes>>

\* PoolPayout is called again for a recorded request.
Resume(r) ==
    /\ pc["op"] = "idle" /\ records[r] # None /\ records[r].status # "confirmed"
    /\ Job("op", [Idle EXCEPT !.txn = records[r].txn, !.item = records[r]])
    /\ Goto("op", "tip")
    /\ UNCHANGED <<chainVars, poolVars, recordVars, pendingVars, relayVars, crashes>>

\* ensurePoolPayout reads the tip, ...
EnsureTip ==
    LET rec == job["op"].item
    IN  /\ pc["op"] = "tip"
        /\ Job("op", [job["op"] EXCEPT !.to = Tip, !.from = rec.basis])
        /\ Goto("op", IF rec.confirmedAt # None THEN "check" ELSE "pick")
        /\ UNCHANGED <<chainVars, poolVars, recordVars, pendingVars, relayVars, crashes>>


\* ... and whether the block at which it was seen confirmed still is on the
\* best chain and deep enough.
EnsureConfirmed ==
    LET j == job["op"]
        at == j.item.confirmedAt
    IN  /\ pc["op"] = "check"
        /\ \/ OnBest(at) /\ j.to[2] + 1 < at[2] + poolPayoutFinality /\ Leave("op")
           \/ /\ OnBest(at) /\ j.to[2] + 1 >= at[2] + poolPayoutFinality
              /\ Goto("op", "forget") /\ UNCHANGED job
           \/ /\ ~OnBest(at)
              /\ Job("op", [j EXCEPT !.item.confirmedAt = None, !.item.status = "queued"])
              /\ Goto("op", "pick")
        /\ UNCHANGED <<chainVars, poolVars, recordVars, pendingVars, relayVars, crashes>>

\* A confirmed payout is no longer rebroadcast ...
Forget ==
    /\ pc["op"] = "forget"
    /\ pending' = [pending EXCEPT ![job["op"].txn] = None]
    /\ \/ pendingFile' = pending' /\ Goto("op", "final") /\ UNCHANGED job
       \/ SavePendingLocked(pending') /\ Leave("op")
    /\ UNCHANGED <<chainVars, poolVars, recordVars, old, relayVars, crashes>>

\* ... and its record keeps only the transaction's ID.
SaveConfirmed ==
    /\ pc["op"] = "final"
    /\ SavePoolPayoutRecord([job["op"].item EXCEPT !.status = "confirmed"], "idle")
    /\ UNCHANGED <<chainVars, poolVars, pendingVars, relayVars, crashes>>

SaveConfirming ==
    LET j == job["op"]
    IN  /\ pc["op"] = "confirming"
        /\ SavePoolPayoutRecord(
               [j.item EXCEPT !.status = "confirming", !.confirmedAt = j.to], "idle")
        /\ UNCHANGED <<chainVars, poolVars, pendingVars, relayVars, crashes>>

\* rememberBroadcast: a failure to save is reported and nothing else.
RememberBroadcast ==
    LET t == job["op"].txn
    IN  /\ pc["op"] = "remember"
        /\ pending' = [pending EXCEPT ![t] = [basis |-> job["op"].to, confirmedAt |-> None]]
        /\ SavePendingLocked(pending') /\ old' = old \ {t}
        /\ Goto("op", "queued")
        /\ UNCHANGED <<job, chainVars, poolVars, recordVars, relayVars, crashes>>

SaveQueued ==
    LET j == job["op"]
    IN  /\ pc["op"] = "queued"
        /\ SavePoolPayoutRecord([j.item EXCEPT !.basis = j.to], "idle")
        /\ UNCHANGED <<chainVars, poolVars, pendingVars, relayVars, crashes>>

-----------------------------------------------------------------------------
(* The rebroadcaster.                                                       *)

\* rebroadcastPending copies the sets under the lock and works on the copy.
Snapshot ==
    /\ pc["relay"] = "idle"
    /\ snapshot' = pending /\ dirty' = FALSE
    /\ Job("relay", [Idle EXCEPT !.to = Tip]) /\ Goto("relay", "next")
    /\ UNCHANGED <<chainVars, poolVars, recordVars, pendingVars, crashes>>

\* The next set, in no particular order: it has expired, or was confirmed in
\* a block that still is on the best chain, or its proofs are updated.
Visit(t) ==
    LET set == snapshot[t]
    IN  /\ pc["relay"] = "next" /\ set # None
        /\ snapshot' = [snapshot EXCEPT ![t] = None]
        /\ \/ /\ t \in old
              /\ pending' = [pending EXCEPT ![t] = None] /\ dirty' = TRUE
              /\ UNCHANGED <<pc, job>>
           \/ /\ t \notin old /\ set.confirmedAt # None /\ OnBest(set.confirmedAt)
              /\ UNCHANGED <<pending, dirty, pc, job>>
           \/ /\ t \notin old /\ (set.confirmedAt # None => ~OnBest(set.confirmedAt))
              /\ Job("relay", [job["relay"] EXCEPT !.txn = t, !.from = set.basis, !.item = set])
              /\ Goto("relay", "pick")
              /\ UNCHANGED <<pending, dirty>>
        /\ UNCHANGED <<chainVars, poolVars, recordVars, pendingFile, old, crashes>>

MarkConfirmed ==
    LET j == job["relay"]
    IN  /\ pc["relay"] = "confirming"
        /\ pending' = [pending EXCEPT ![j.txn] = [j.item EXCEPT !.confirmedAt = j.to]]
        /\ Leave("relay")
        /\ UNCHANGED <<chainVars, poolVars, recordVars, pendingFile, old, relayVars, crashes>>

WriteBack ==
    LET j == job["relay"]
    IN  /\ pc["relay"] = "remember"
        /\ pending' = [pending EXCEPT ![j.txn] = [basis |-> j.to, confirmedAt |-> None]]
        /\ dirty' = TRUE /\ Leave("relay")
        /\ UNCHANGED <<chainVars, poolVars, recordVars, pendingFile, old, snapshot, crashes>>

EndPass ==
    /\ pc["relay"] = "next" /\ \A t \in Txn : snapshot[t] = None
    /\ IF dirty THEN SavePendingLocked(pending) ELSE UNCHANGED pendingFile
    /\ dirty' = FALSE
    /\ Goto("relay", "idle") /\ Job("relay", Idle)
    /\ UNCHANGED <<chainVars, poolVars, recordVars, pending, old, snapshot, crashes>>

-----------------------------------------------------------------------------
(* Time and restarts.                                                       *)

\* 48 hours pass.  The clock is read once per pass.
Age(t) ==
    /\ t \in relayed \ old /\ pc["relay"] = "idle"
    /\ old' = old \cup {t}
    /\ UNCHANGED <<chainVars, poolVars, recordVars, pending, pendingFile, relayVars, pc, job, crashes>>

\* A record that waits for its confirmation is a set to rebroadcast.
Unfinished(t) ==
    LET rec == recordFile[t.request]
    IN  rec # None /\ rec.txn = t /\ rec.status # "confirmed"


\* loadPendingBroadcasts and loadPoolPayouts.
LoadedPending ==
    [t \in Txn |->
        CASE pendingFile[t] # None /\ t \notin old -> [pendingFile[t] EXCEPT !.confirmedAt = None]
          [] ~(pendingFile[t] # None /\ t \notin old) /\ Unfinished(t) ->
                [basis |-> recordFile[t.request].basis, confirmedAt |-> None]
          [] OTHER -> None]

\* The node stops at any point and starts again.  The chain is on disk, the
\* pool is not.
Crash ==
    /\ crashes < MaxCrashes /\ crashes' = crashes + 1
    /\ pool' = {} /\ records' = recordFile /\ pending' = LoadedPending
    /\ pc' = [p \in {"op", "relay"} |-> "idle"] /\ job' = [p \in {"op", "relay"} |-> Idle]
    /\ snapshot' = [t \in Txn |-> None] /\ dirty' = FALSE
    /\ UNCHANGED <<chainVars, relayed, recordFile, pendingFile, old>>

-----------------------------------------------------------------------------
Init ==
    /\ blocks = [br \in Branch |-> <<>>] /\ active = "a" /\ reorgs = 0
    /\ pool = {} /\ relayed = {}
    /\ records = [r \in Request |-> None] /\ recordFile = records
    /\ pending = [t \in Txn |-> None] /\ pendingFile = pending /\ old = {}
    /\ crashes = 0
    /\ pc = [p \in {"op", "relay"} |-> "idle"] /\ job = [p \in {"op", "relay"} |-> Idle]
    /\ snapshot = pending /\ dirty = FALSE

Operation ==
    \/ UpdatePendingProofs("op") \/ AddV2PoolTransactions("op")
    \/ Sign \/ SaveNew \/ EnsureTip \/ EnsureConfirmed \/ Forget \/ SaveConfirmed
    \/ SaveConfirming \/ RememberBroadcast \/ SaveQueued

Rebroadcaster ==
    \/ UpdatePendingProofs("relay") \/ AddV2PoolTransactions("relay")
    \/ Snapshot \/ MarkConfirmed \/ WriteBack \/ EndPass
    \/ \E t \in Txn : Visit(t)

Next ==
    \/ \E r \in Request : Select(r) \/ Resume(r)
    \/ Operation \/ Rebroadcaster
    \/ \E txns \in SUBSET relayed : Extend(txns) \/ \E h \in 1 .. MaxHeight : Reorg(h, txns)
    \/ \E t \in relayed : Age(t)
    \/ Crash

\* Goroutines run, and the rebroadcaster's ticker never stops.
Spec == Init /\ [][Next]_vars /\ WF_vars(Rebroadcaster) /\ WF_vars(Operation)

-----------------------------------------------------------------------------
(* Properties.                                                              *)

\* Whatever fails or is repeated, a request is never paid twice: at most one
\* of its transactions ever leaves the node, and once one has, the file
\* holds it, so that a retry after a restart finds it.
PaidOnce ==
    \A t \in relayed :
        recordFile[t.request] # None /\ recordFile[t.request].txn = t

\* A payout is declared final only if it is in the best chain with
\* poolPayoutFinality blocks from its own block to the tip.
FinalIsBuried ==
    [][pc["op"] = "check" /\ pc'["op"] = "forget" =>
        \E h \in 1 .. Len(blocks[active]) :
            /\ job["op"].txn \in blocks[active][h]
            /\ h + poolPayoutFinality <= Len(blocks[active]) + 1]_vars

\* A payout that once was in the pool returns to it after crashes and reorgs,
\* even if the rebroadcaster's file could not be written, unless it is
\* confirmed, its coin is gone or taken by another payment, or its time is
\* over.
Settled(t) ==
    \/ t \in pool \/ ~Unspent(t.coin, Tip) \/ (\E u \in pool : u.coin = t.coin)
    \/ t \in old
=============================================================================
