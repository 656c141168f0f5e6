---------------------------- MODULE ChainManager ----------------------------
(***************************************************************************)
(* The chain manager: it keeps a tree of blocks, follows one chain of it,  *)
(* and moves to another chain when that chain has sufficiently more work.  *)
(* Every operation holds Manager.mu for its whole length, so two           *)
(* operations never interleave; but a reorg reverts and applies one block  *)
(* at a time, the store may commit after any of these steps, and the       *)
(* process may die between any two of them.  An operation is therefore a   *)
(* sequence of steps here, with job.phase # "idle" while the mutex is      *)
(* held.                                                                   *)
(*                                                                         *)
(* A block is its ID.  An ID commits to the whole ancestry, so what        *)
(* ValidateOrphan and ValidateBlock answer for a block, its height and its *)
(* work are functions of the ID: constants of the model.                   *)
(***************************************************************************)
EXTENDS Naturals, Sequences

CONSTANTS
    Block,          \* the block IDs that exist
    Genesis,        \* the genesis block
    Parent,         \* header.ParentID, for every block but Genesis
    TotalWork,      \* State.TotalWork of a block
    Difficulty,     \* State.Difficulty: the work of each child of a block
    OrphanValid,    \* blocks that ValidateOrphan accepts on their parent
    Valid,          \* blocks that ValidateBlock accepts on their parent
    FutureBlocks,   \* blocks whose timestamp may still lie in the future
    MaxBatch,       \* longest chain of blocks delivered by one call
    Keep,           \* the blocks below the tip that a caller never prunes
    ReaddPruned,    \* whether a pruned block may be delivered again
    MaxCrashes      \* bound on the number of crashes

ASSUME TreeAssumption ==
    /\ Genesis \in Block
    /\ Parent \in [Block \ {Genesis} -> Block]

ASSUME WorkAssumption ==
    /\ TotalWork \in [Block -> Nat]
    /\ Difficulty \in [Block -> Nat]
    /\ \A b \in Block \ {Genesis} :
          TotalWork[b] = TotalWork[Parent[b]] + Difficulty[Parent[b]]

ASSUME ValidAssumption ==
    /\ OrphanValid \subseteq Block
    /\ Valid \subseteq Block
    /\ FutureBlocks \subseteq Block
    /\ Genesis \in Valid

ASSUME BoundAssumption ==
    /\ MaxBatch \in Nat
    /\ Keep \in Nat
    /\ MaxCrashes \in Nat
    /\ ReaddPruned \in BOOLEAN

VARIABLES
    block,      \* Blocks bucket: what the store holds of each block
    state,      \* States bucket: which state is stored under each ID
    best,       \* MainChain bucket: best[h + 1] is the block at height h
    tipState,   \* whether Manager.tipState is a fully applied state
    job,        \* the call that holds Manager.mu, if any
    disk,       \* what the last commit of the database made durable
    pending,    \* whether the onReorg listeners are still to be called
    view,       \* the chain a subscriber has built from UpdatesSince
    woken,      \* whether the subscriber has been notified
    fault,      \* the first call that ended in an inconsistent state
    crashes     \* number of crashes so far

store == <<block, state, best>>
vars == <<store, tipState, job, disk, pending, view, woken, fault, crashes>>

-----------------------------------------------------------------------------
(* A stored block is pruned to its header, stored without a supplement     *)
(* until ValidateBlock has accepted it, and supplemented from then on.  A  *)
(* header state comes from ApplyHeader and lacks everything but the work;  *)
(* a full state comes from ApplyBlock.                                     *)
BlockStatus == {"absent", "pruned", "stored", "supplemented"}
StateKind == {"absent", "header", "full"}

Store == [block : [Block -> BlockStatus],
          state : [Block -> StateKind],
          best  : Seq(Block)]

Job == [phase : {"idle", "add", "reorg"},
        batch : Seq(Block),
        trust : BOOLEAN,
        cs    : Block,
        old   : Block,
        undo  : BOOLEAN]

Tip == best[Len(best)]

\* The ancestors of b, itself included.
Ancestors[b \in Block] ==
    IF b = Genesis THEN {b} ELSE {b} \cup Ancestors[Parent[b]]

\* The tree is well founded: every block descends from genesis, no block from
\* itself, and between a block and an ancestor there is an unbroken path.
ASSUME AncestryAssumption ==
    /\ Ancestors[Genesis] = {Genesis}
    /\ \A b \in Block \ {Genesis} :
          /\ Ancestors[b] = {b} \cup Ancestors[Parent[b]]
          /\ b \notin Ancestors[Parent[b]]
    /\ \A b \in Block :
          /\ Ancestors[b] \subseteq Block
          /\ Genesis \in Ancestors[b]
          /\ \A a \in Ancestors[b] \ {b} :
                \E c \in Ancestors[b] \ {Genesis} : Parent[c] = a

\* Mutant: a tie is enough.
HeavierOrEqual(s, t) == TotalWork[s] >= TotalWork[t]

SufficientlyHeavierThan(s, t) ==
    TotalWork[s] > TotalWork[t] + Difficulty[t] \div 5

\* Every block from genesis to b is valid.
ChainValid(b) == Ancestors[b] \subseteq Valid

\* The chains of blocks a peer or a miner can hand over in one call.
Batches ==
    {s \in UNION {[1..n -> Block \ {Genesis}] : n \in 1..MaxBatch} :
        \A i \in 2..Len(s) : Parent[s[i]] = s[i - 1]}

Deliverable(batch) ==
    ReaddPruned \/ \A i \in DOMAIN batch : block[batch[i]] # "pruned"

-----------------------------------------------------------------------------
TypeOK ==
    /\ block \in [Block -> BlockStatus]
    /\ state \in [Block -> StateKind]
    /\ best \in Seq(Block)
    /\ tipState \in {"header", "full"}
    /\ job \in Job
    /\ disk \in Store
    /\ pending \in BOOLEAN
    /\ view \in Seq(Block)
    /\ woken \in BOOLEAN
    /\ fault \in {"none", "panic", "undo"}
    /\ crashes \in 0..MaxCrashes

GenesisStore ==
    [block |-> [b \in Block |-> IF b = Genesis THEN "supplemented" ELSE "absent"],
     state |-> [b \in Block |-> IF b = Genesis THEN "full" ELSE "absent"],
     best  |-> <<Genesis>>]

Idle == [phase |-> "idle", batch |-> <<>>, trust |-> FALSE,
         cs |-> Genesis, old |-> Genesis, undo |-> FALSE]

Init ==
    /\ block = GenesisStore.block
    /\ state = GenesisStore.state
    /\ best = GenesisStore.best
    /\ tipState = "full"
    /\ job = Idle
    /\ disk = GenesisStore
    /\ pending = FALSE
    /\ view = <<>>
    /\ woken = TRUE
    /\ fault = "none"
    /\ crashes = 0

-----------------------------------------------------------------------------
(* Delivering blocks.                                                      *)

Call(batch, trust) ==
    [phase |-> "add", batch |-> batch, trust |-> trust,
     cs |-> Tip, old |-> Tip, undo |-> FALSE]

AddBlocks(batch) ==
    /\ job.phase = "idle"
    /\ Deliverable(batch)
    /\ job' = Call(batch, FALSE)
    /\ UNCHANGED <<store, tipState, disk, pending, view, woken, fault, crashes>>

\* The caller has validated the blocks and computed the states they lead to.
AddValidatedV2Blocks(batch) ==
    /\ job.phase = "idle"
    /\ Deliverable(batch)
    /\ \A i \in DOMAIN batch : batch[i] \in Valid
    /\ state[Parent[batch[1]]] # "absent"
    /\ job' = Call(batch, TRUE)
    /\ UNCHANGED <<store, tipState, disk, pending, view, woken, fault, crashes>>

\* One turn of the loop of AddValidatedV2Blocks: AddBlock and AddState.
IngestValidated ==
    /\ job.phase = "add"
    /\ job.trust
    /\ job.batch # <<>>
    /\ LET b == Head(job.batch) IN
         /\ block' = [block EXCEPT ![b] = "supplemented"]
         /\ state' = [state EXCEPT ![b] = "full"]
         /\ job' = [job EXCEPT !.batch = Tail(@), !.cs = b]
    /\ UNCHANGED <<best, tipState, disk, pending, view, woken, fault, crashes>>

\* The conditions under which the loop of AddBlocks refuses a block.
ParentKnown(b) == Parent[b] = job.cs \/ state[Parent[b]] # "absent"

Refused(b) ==
    /\ block[b] # "supplemented"
    /\ \/ ~ParentKnown(b)
       \/ b \in FutureBlocks
       \/ b \notin OrphanValid

SkipKnownBlock ==
    /\ job.phase = "add"
    /\ ~job.trust
    /\ job.batch # <<>>
    /\ block[Head(job.batch)] = "supplemented"
    /\ job' = [job EXCEPT !.batch = Tail(@), !.cs = Head(job.batch)]
    /\ UNCHANGED <<store, tipState, disk, pending, view, woken, fault, crashes>>

\* Mutant: a block that is already validated is stored again.
IngestAnyBlock ==
    /\ job.phase = "add"
    /\ ~job.trust
    /\ job.batch # <<>>
    /\ LET b == Head(job.batch) IN
         /\ ParentKnown(b)
         /\ b \in OrphanValid
         /\ block' = [block EXCEPT ![b] = "stored"]
         /\ state' = [state EXCEPT ![b] = "header"]
         /\ job' = [job EXCEPT !.batch = Tail(@), !.cs = b]
    /\ UNCHANGED <<best, tipState, disk, pending, view, woken, fault, crashes>>

\* ApplyHeader, AddState and AddBlock without a supplement.
IngestBlock ==
    /\ job.phase = "add"
    /\ ~job.trust
    /\ job.batch # <<>>
    /\ LET b == Head(job.batch) IN
         /\ block[b] # "supplemented"
         /\ ParentKnown(b)
         /\ b \in OrphanValid
         /\ block' = [block EXCEPT ![b] = "stored"]
         /\ state' = [state EXCEPT ![b] = "header"]
         /\ job' = [job EXCEPT !.batch = Tail(@), !.cs = b]
    /\ UNCHANGED <<best, tipState, disk, pending, view, woken, fault, crashes>>

\* A refused block ends the call; the blocks before it stay in the store.
RefuseBlock ==
    /\ job.phase = "add"
    /\ ~job.trust
    /\ job.batch # <<>>
    /\ Refused(Head(job.batch))
    /\ job' = Idle
    /\ UNCHANGED <<store, tipState, disk, pending, view, woken, fault, crashes>>

\* The end of both calls: a chain that is not heavier enough only stays
\* stored, any other starts a reorg.
Decide ==
    /\ job.phase = "add"
    /\ job.batch = <<>>
    /\ job' = IF SufficientlyHeavierThan(job.cs, Tip)
              THEN [job EXCEPT !.phase = "reorg"]
              ELSE Idle
    /\ UNCHANGED <<store, tipState, disk, pending, view, woken, fault, crashes>>

-----------------------------------------------------------------------------
(* reorgTo: revert down to the common ancestor, apply up to the target.    *)

Target == IF job.undo THEN job.old ELSE job.cs

Reverting == job.phase = "reorg" /\ Tip \notin Ancestors[Target]
Applying == job.phase = "reorg" /\ Tip \in Ancestors[Target] /\ Tip # Target

\* The block on the way from the tip up to the target.
NextBlock == CHOOSE b \in Ancestors[Target] \ {Genesis} : Parent[b] = Tip

\* DBStore commits in the middle of a reorg when enough has been written or
\* enough time has passed.
MayFlush == disk' \in {disk, [block |-> block', state |-> state', best |-> best']}

\* Mutant: a failed reorg stays where it failed.
ReorgStays ==
    /\ job' = Idle
    /\ UNCHANGED <<store, tipState, disk, pending, view, woken, fault, crashes>>

\* Mutant: a failed reorg is tried again.
ReorgRetries == UNCHANGED vars

\* A failed reorgTo returns to the old tip; if that fails too, the call
\* gives up where it is.
ReorgFails ==
    /\ IF job.undo
       THEN job' = Idle /\ fault' = "undo"
       ELSE job' = [job EXCEPT !.undo = TRUE] /\ fault' = fault
    /\ UNCHANGED <<store, tipState, disk, pending, view, woken, crashes>>

\* Whether the store has a block's body and its parent's state.
BlockAndParent(b) ==
    /\ block[b] \in {"stored", "supplemented"}
    /\ b # Genesis => state[Parent[b]] # "absent"

\* What revertTip does with the supplement, ...
RevertBlock ==
    /\ best' = SubSeq(best, 1, Len(best) - 1)
    /\ tipState' = state[Parent[Tip]]
    /\ UNCHANGED <<block, state>>
    /\ MayFlush
    /\ UNCHANGED <<job, pending, view, woken, fault, crashes>>

\* ... and without one.
Panic ==
    /\ job' = Idle
    /\ fault' = "panic"
    /\ UNCHANGED <<store, tipState, disk, pending, view, woken, crashes>>

\* revertTip dereferences the supplement without a check.
RevertTip ==
    /\ Reverting
    /\ BlockAndParent(Tip)
    /\ IF block[Tip] = "supplemented" THEN RevertBlock ELSE Panic

RevertTipMissing ==
    /\ Reverting
    /\ ~BlockAndParent(Tip)
    /\ ReorgFails

\* Mutant: the validity of the block itself is not checked.
ValidateNothing(b) == tipState = "full"

\* Whether ValidateBlock accepts b on the in-memory tip state: a header
\* state never matches the commitment of a block.
ValidateBlock(b) == b \in Valid /\ tipState = "full"

\* Mutant: a validated block is not stored again with its supplement.
ApplyTipUnsupplemented ==
    /\ Applying
    /\ best' = Append(best, NextBlock)
    /\ block[NextBlock] = "stored" => ValidateBlock(NextBlock)
    /\ block[NextBlock] \in {"stored", "supplemented"}
    /\ state' = [state EXCEPT ![NextBlock] = "full"]
    /\ UNCHANGED block
    /\ MayFlush
    /\ UNCHANGED <<tipState, job, pending, view, woken, fault, crashes>>

ApplyTip ==
    /\ Applying
    /\ LET b == NextBlock IN
         /\ best' = Append(best, b)
         /\ \/ /\ block[b] = "stored"
               /\ ValidateBlock(b)
               /\ block' = [block EXCEPT ![b] = "supplemented"]
               /\ state' = [state EXCEPT ![b] = "full"]
            \/ /\ block[b] = "supplemented"
               /\ UNCHANGED <<block, state>>
    /\ MayFlush
    /\ UNCHANGED <<tipState, job, pending, view, woken, fault, crashes>>

ApplyTipFails ==
    /\ Applying
    /\ block[NextBlock] # "supplemented"
    /\ ~(block[NextBlock] = "stored" /\ ValidateBlock(NextBlock))
    /\ ReorgFails

\* Mutant: reorgTo ends without a Flush.
FinishUnflushed ==
    /\ job.phase = "reorg"
    /\ Tip = Target
    /\ pending' = (pending \/ ~job.undo)
    /\ job' = Idle
    /\ UNCHANGED <<store, tipState, disk, view, woken, fault, crashes>>

\* Mutant: the call returns without running the listeners.
FinishUnnotified ==
    /\ job.phase = "reorg"
    /\ Tip = Target
    /\ disk' = [block |-> block, state |-> state, best |-> best]
    /\ pending' = pending
    /\ job' = Idle
    /\ UNCHANGED <<store, tipState, view, woken, fault, crashes>>

\* reorgTo has arrived: the store is flushed.  After a successful reorg the
\* mutex is released before the listeners are called.
FinishReorg ==
    /\ job.phase = "reorg"
    /\ Tip = Target
    /\ disk' = [block |-> block, state |-> state, best |-> best]
    /\ pending' = (pending \/ ~job.undo)
    /\ job' = Idle
    /\ UNCHANGED <<store, tipState, view, woken, fault, crashes>>

Reorg ==
    \/ RevertTip
    \/ RevertTipMissing
    \/ ApplyTip
    \/ ApplyTipFails
    \/ FinishReorg

-----------------------------------------------------------------------------
(* Subscribers, pruning and crashes.                                       *)

Notify ==
    /\ pending
    /\ pending' = FALSE
    /\ woken' = TRUE
    /\ UNCHANGED <<store, tipState, job, disk, view, fault, crashes>>

\* Whether the subscriber's index differs from the manager's tip.
Behind == view # <<>> => view[Len(view)] # Tip

OnBestChain ==
    \/ view = <<>>
    \/ Len(view) <= Len(best) /\ best[Len(view)] = view[Len(view)]

\* What UpdatesSince needs for its next update.
Updatable(b) == BlockAndParent(b) /\ block[b] = "supplemented"

NextUpdate ==
    IF OnBestChain THEN best[Len(view) + 1] ELSE view[Len(view)]

\* One update of UpdatesSince, taken by a subscriber that has been woken.
UpdatesSince ==
    /\ woken
    /\ job.phase = "idle"
    /\ Behind
    /\ Updatable(NextUpdate)
    /\ view' = IF OnBestChain THEN Append(view, NextUpdate)
               ELSE SubSeq(view, 1, Len(view) - 1)
    /\ UNCHANGED <<store, tipState, job, disk, pending, woken, fault, crashes>>

\* The subscriber has reached the tip and waits for the next notification.
UpToDate ==
    /\ woken
    /\ job.phase = "idle"
    /\ ~Behind
    /\ woken' = FALSE
    /\ UNCHANGED <<store, tipState, job, disk, pending, view, fault, crashes>>

\* Mutant: the block at the given height is pruned too.
PruneOneMore(height) ==
    /\ job.phase = "idle"
    /\ height + Keep <= Len(best)
    /\ height <= Len(view) /\ \A i \in 1..height : view[i] = best[i]
    /\ block' = [b \in Block |->
          IF \E i \in 1..Len(best) : i <= height + 1 /\ b = best[i]
          THEN "pruned" ELSE block[b]]
    /\ UNCHANGED <<state, best, tipState, job, disk, pending, view, woken, fault, crashes>>

\* Prunes from just below the given height down to the first missing block.
\* Callers respect the documented precondition: the subscribers have
\* processed the best chain up to that height.
PruneBlocks(height) ==
    /\ job.phase = "idle"
    /\ height + Keep <= Len(best)
    /\ height <= Len(view) /\ \A i \in 1..height : view[i] = best[i]
    /\ block' = [b \in Block |->
          IF \E i \in 1..height :
                /\ b = best[i]
                /\ \A j \in i..height : block[best[j]] \notin {"absent", "pruned"}
          THEN "pruned" ELSE block[b]]
    /\ UNCHANGED <<state, best, tipState, job, disk, pending, view, woken, fault, crashes>>

\* The process dies and NewDBStore and NewManager start from what is
\* durable; the subscriber keeps its own database and catches up at start.
Crash ==
    /\ crashes < MaxCrashes
    /\ crashes' = crashes + 1
    /\ block' = disk.block
    /\ state' = disk.state
    /\ best' = disk.best
    /\ tipState' = disk.state[disk.best[Len(disk.best)]]
    /\ job' = Idle
    /\ pending' = FALSE
    /\ woken' = TRUE
    /\ UNCHANGED <<disk, view, fault>>

-----------------------------------------------------------------------------
Add ==
    \/ IngestValidated
    \/ SkipKnownBlock
    \/ IngestBlock
    \/ RefuseBlock
    \/ Decide

Deliver == \E batch \in Batches : AddBlocks(batch) \/ AddValidatedV2Blocks(batch)

Next ==
    \/ Deliver
    \/ Add
    \/ Reorg
    \/ Notify
    \/ UpdatesSince
    \/ UpToDate
    \/ \E height \in 1..Len(best) : PruneBlocks(height)
    \/ Crash

Spec == Init /\ [][Next]_vars

\* AddBlocks never waits, so a call runs to its end; the goroutine that called
\* it then runs the listeners.  A sync.Mutex hands itself to a waiter that has
\* starved, so a subscriber that keeps asking for it gets it: strong fairness.
FairSpec ==
    /\ Spec
    /\ WF_vars(Add)
    /\ WF_vars(Reorg)
    /\ WF_vars(Notify)
    /\ SF_vars(UpdatesSince)

-----------------------------------------------------------------------------
(* Properties.                                                             *)

ValidChain(chain) ==
    /\ Len(chain) > 0
    /\ chain[1] = Genesis
    /\ \A i \in 2..Len(chain) :
          chain[i] # Genesis /\ Parent[chain[i]] = chain[i - 1]
    /\ \A i \in 1..Len(chain) : chain[i] \in Valid

\* At every moment, in the middle of a reorg and of its undoing too, the
\* MainChain bucket is an unbroken chain of valid blocks from genesis, and
\* so is the chain a restart would load: applyTip lets no block in that
\* ValidateBlock has not accepted, now or earlier.
BestChainValid ==
    /\ ValidChain(best)
    /\ ValidChain(disk.best)

\* Every block of the best chain has its fully applied state in the store,
\* in memory and on disk, and tipState is one: AddBlocks stores header states
\* only for blocks that are not yet on the chain, and applyTip replaces them
\* before ApplyBlock can commit.
FullyApplied ==
    /\ tipState = "full"
    /\ \A i \in 1..Len(best) : state[best[i]] = "full"
    /\ \A i \in 1..Len(disk.best) : disk.state[disk.best[i]] = "full"

\* Whenever the mutex is free, the best chain a reader sees is the durable
\* one: every reorg, and every undone reorg, ends with a Flush.  A subscriber
\* with a database of its own can therefore never be ahead of the store that
\* a crash brings back.
DurableWhenIdle == job.phase # "reorg" => disk.best = best

\* No call ends in an inconsistent state: revertTip always finds the
\* supplement it dereferences, and undoing a failed reorg never fails.
NoFault == fault = "none"

\* A subscriber can always make its next step: whatever reorgs, crashes and
\* pruning happened since, UpdatesSince finds the block to revert or apply,
\* its supplement and its parent's state, and what the subscriber has built
\* is itself a valid chain.
UpdatesAvailable ==
    /\ view # <<>> => ValidChain(view)
    /\ job.phase = "idle" /\ Behind => Updatable(NextUpdate)

\* A reorg is all or nothing: the call ends on the target if every block of
\* the target's chain is valid and nothing that must be reverted is pruned,
\* and otherwise exactly where it started.
Revertible == \A b \in Ancestors[job.old] \ Ancestors[job.cs] : block[b] # "pruned"

ReorgOutcome ==
    [][job.phase = "reorg" /\ job'.phase = "idle" /\ crashes' = crashes
         => Tip' = IF ChainValid(job.cs) /\ Revertible THEN job.cs ELSE job.old]_vars

\* AddBlocks and AddValidatedV2Blocks always return.
CallsReturn == []<>(job.phase = "idle")

\* A subscriber reaches the tip again and again: no notification is lost
\* between its last look at the tip and the next reorg.
SubscriberCatchesUp == []<>(view = best)

\* What the manager promises, with a reorg as one step: while a reorg is on
\* its way the promised tip is still the old one.
Promise == INSTANCE BestChain WITH tip <- IF job.phase = "reorg" THEN job.old ELSE Tip

\* The stepwise manager implements the atomic one.
ImplementsBestChain == Promise!Spec

=============================================================================
