------------------------- MODULE ChainManagerProofs -------------------------
(***************************************************************************)
(* Proofs about ChainManager, for every block tree, every validity of its  *)
(* blocks, every batch size and every number of crashes.                   *)
(***************************************************************************)
EXTENDS ChainManager, TLAPS

(***************************************************************************)
(* BestChainValid is not inductive by itself: applyTip trusts a stored     *)
(* supplement, so supplements must only ever be given to valid blocks; and *)
(* a restart trusts the disk, so the disk must satisfy the same conditions *)
(* as memory.                                                              *)
(***************************************************************************)
StoreOK(blk, st, chain) ==
    /\ ValidChain(chain)
    /\ \A b \in Block : blk[b] = "supplemented" => b \in Valid /\ st[b] # "absent"
    /\ \A i \in 1..Len(chain) : st[chain[i]] # "absent"

StoresOK ==
    /\ StoreOK(block, state, best)
    /\ StoreOK(disk.block, disk.state, disk.best)

\* What the caller of AddValidatedV2Blocks vouches for.
TrustOK ==
    job.phase = "add" /\ job.trust =>
        \A i \in 1..Len(job.batch) : job.batch[i] \in Valid

IInv == TypeOK /\ StoresOK /\ TrustOK

-----------------------------------------------------------------------------
\* Genesis alone is a valid chain, with its state: what NewDBStore creates.
LEMMA GenesisStoreOK ==
    /\ GenesisStore \in Store
    /\ StoreOK(GenesisStore.block, GenesisStore.state, GenesisStore.best)
<1> DEFINE gs == GenesisStore
<1>1. gs.block = [b \in Block |-> IF b = Genesis THEN "supplemented" ELSE "absent"]
  BY DEF GenesisStore
<1>2. gs.state = [b \in Block |-> IF b = Genesis THEN "full" ELSE "absent"]
  BY DEF GenesisStore
<1>3. gs.best = <<Genesis>>
  BY DEF GenesisStore
<1>4. <<Genesis>> \in Seq(Block)
  BY TreeAssumption
<1>5. gs \in Store
  BY <1>4 DEF GenesisStore, Store, BlockStatus, StateKind
<1>6. ValidChain(gs.best)
  BY <1>3, ValidAssumption DEF ValidChain
<1> HIDE DEF gs
<1>7. StoreOK(gs.block, gs.state, gs.best)
  <2>1. \A b \in Block : gs.block[b] = "supplemented" => b = Genesis
    BY <1>1
  <2>2. gs.state[Genesis] = "full"
    BY <1>2, TreeAssumption
  <2>3. \A i \in 1..Len(gs.best) : gs.best[i] = Genesis
    BY <1>3
  <2>4. QED
    BY <2>1, <2>2, <2>3, <1>6, ValidAssumption DEF StoreOK
<1>8. QED
  BY <1>5, <1>7 DEF gs

\* The initial states satisfy the inductive invariant.
LEMMA InitIInv == Init => IInv
<1> SUFFICES ASSUME Init PROVE IInv
  OBVIOUS
<1>1. TypeOK
  <2>1. Idle \in Job
    BY TreeAssumption DEF Idle, Job
  <2>2. /\ block \in [Block -> BlockStatus]
        /\ state \in [Block -> StateKind]
        /\ best \in Seq(Block)
        /\ disk \in Store
    BY GenesisStoreOK DEF Init, Store
  <2>3. view \in Seq(Block) /\ crashes \in 0..MaxCrashes
    BY BoundAssumption DEF Init
  <2>4. QED
    BY <2>1, <2>2, <2>3 DEF Init, TypeOK
<1>2. StoresOK
  BY GenesisStoreOK DEF Init, StoresOK
<1>3. TrustOK
  BY DEF Init, Idle, TrustOK
<1>4. QED
  BY <1>1, <1>2, <1>3 DEF IInv

-----------------------------------------------------------------------------
\* Appending a valid child of the last block keeps a chain valid (applyTip).
LEMMA AppendChain ==
    ASSUME NEW chain \in Seq(Block), ValidChain(chain),
           NEW b \in Block \ {Genesis}, b \in Valid, Parent[b] = chain[Len(chain)]
    PROVE  Append(chain, b) \in Seq(Block) /\ ValidChain(Append(chain, b))
<1> DEFINE new == Append(chain, b)
<1>1. /\ new \in Seq(Block)
      /\ Len(new) = Len(chain) + 1
      /\ \A i \in 1..Len(chain) : new[i] = chain[i]
      /\ new[Len(chain) + 1] = b
  OBVIOUS
<1>2. Len(chain) \in Nat
  OBVIOUS
<1> HIDE DEF new
<1>3. QED
  BY <1>1, <1>2 DEF ValidChain, new

\* Dropping the last block of a chain longer than genesis keeps it valid
\* (revertTip).
LEMMA FrontChain ==
    ASSUME NEW chain \in Seq(Block), ValidChain(chain), Len(chain) > 1
    PROVE  LET front == SubSeq(chain, 1, Len(chain) - 1) IN
           /\ front \in Seq(Block)
           /\ Len(front) = Len(chain) - 1
           /\ \A i \in 1..Len(front) : front[i] = chain[i]
           /\ ValidChain(front)
<1> DEFINE front == SubSeq(chain, 1, Len(chain) - 1)
<1>1. Len(chain) \in Nat
  OBVIOUS
<1>2. /\ front \in Seq(Block)
      /\ Len(front) = Len(chain) - 1
      /\ \A i \in 1..Len(front) : front[i] = chain[i]
  BY <1>1
<1> HIDE DEF front
<1>3. ValidChain(front)
  BY <1>1, <1>2 DEF ValidChain
<1>4. QED
  BY <1>2, <1>3 DEF front

\* The tip is a block whose state is known, and it is genesis only on the chain that
\* has nothing else.
LEMMA TipFacts ==
    ASSUME IInv
    PROVE  /\ Len(best) \in Nat \ {0}
           /\ Tip \in Block
           /\ Tip # Genesis => Len(best) > 1
  BY DEF IInv, TypeOK, StoresOK, StoreOK, ValidChain, Tip

\* reorgTo reverts only above genesis.
LEMMA RevertingFacts ==
    ASSUME IInv, Reverting
    PROVE  Tip \in Block \ {Genesis} /\ Len(best) > 1 /\ Parent[Tip] \in Block
<1>1. Target \in Block
  BY DEF IInv, TypeOK, Job, Target
<1>2. Tip # Genesis
  BY <1>1, AncestryAssumption DEF Reverting
<1>3. QED
  BY <1>2, TipFacts, TreeAssumption

\* The block that applyTip applies is a child of the tip.
LEMMA ApplyingFacts ==
    ASSUME IInv, Applying
    PROVE  NextBlock \in Block \ {Genesis} /\ Parent[NextBlock] = Tip
<1>1. Target \in Block
  BY DEF IInv, TypeOK, Job, Target
<1>2. \E b \in Ancestors[Target] \ {Genesis} : Parent[b] = Tip
  BY <1>1, AncestryAssumption DEF Applying
<1>3. NextBlock \in Ancestors[Target] \ {Genesis} /\ Parent[NextBlock] = Tip
  BY <1>2 DEF NextBlock
<1>4. QED
  BY <1>1, <1>3, AncestryAssumption

-----------------------------------------------------------------------------
\* A batch is a non-empty sequence of blocks, none of them genesis.
LEMMA BatchFacts ==
    ASSUME NEW batch \in Batches
    PROVE  /\ batch \in Seq(Block)
           /\ Len(batch) \in Nat \ {0}
           /\ \A i \in 1..Len(batch) : batch[i] \in Block \ {Genesis}
           /\ \A i \in 2..Len(batch) : Parent[batch[i]] = batch[i - 1]
<1>1. PICK n \in 1..MaxBatch : batch \in [1..n -> Block \ {Genesis}]
  BY DEF Batches
<1>2. n \in Nat \ {0}
  BY <1>1, BoundAssumption
<1>3. batch \in Seq(Block) /\ Len(batch) = n
  BY <1>1, <1>2
<1>4. \A i \in 2..Len(batch) : Parent[batch[i]] = batch[i - 1]
  BY DEF Batches
<1>5. QED
  BY <1>1, <1>2, <1>3, <1>4

\* Taking the first block off a batch leaves a batch.
LEMMA TailFacts ==
    ASSUME NEW batch \in Seq(Block), batch # <<>>
    PROVE  /\ Head(batch) \in Block
           /\ Head(batch) = batch[1]
           /\ Tail(batch) \in Seq(Block)
           /\ Len(batch) \in Nat \ {0}
           /\ Len(Tail(batch)) = Len(batch) - 1
           /\ \A i \in 1..Len(Tail(batch)) : Tail(batch)[i] = batch[i + 1]
  OBVIOUS

\* A flush in the middle of a reorg copies a good store.
LEMMA MayFlushOK ==
    ASSUME disk \in Store, StoreOK(disk.block, disk.state, disk.best),
           block' \in [Block -> BlockStatus], state' \in [Block -> StateKind],
           best' \in Seq(Block), StoreOK(block', state', best'),
           MayFlush
    PROVE  disk' \in Store /\ StoreOK(disk'.block, disk'.state, disk'.best)
<1>1. CASE disk' = disk
  BY <1>1
<1>2. CASE disk' = [block |-> block', state |-> state', best |-> best']
  <2>1. /\ disk'.block = block'
        /\ disk'.state = state'
        /\ disk'.best = best'
    BY <1>2
  <2>2. disk' \in Store
    BY <1>2 DEF Store
  <2>3. QED
    BY <2>1, <2>2
<1>3. QED
  BY <1>1, <1>2 DEF MayFlush

\* The idle job is a job.
LEMMA IdleJob == Idle \in Job /\ Idle.phase = "idle"
  BY TreeAssumption DEF Idle, Job

\* Every step preserves the inductive invariant.
LEMMA NextIInv == IInv /\ [Next]_vars => IInv'
<1> SUFFICES ASSUME IInv, [Next]_vars PROVE IInv'
  OBVIOUS
<1> USE DEF store
<1>0. TypeOK /\ StoresOK /\ TrustOK
  BY DEF IInv
<1>1. CASE UNCHANGED vars
  BY <1>0, <1>1 DEF vars, IInv, TypeOK, StoresOK, StoreOK, ValidChain, TrustOK
<1>2. ASSUME NEW batch \in Batches, AddBlocks(batch) PROVE IInv'
  <2>1. job' \in Job /\ ~job'.trust
    BY <1>2, BatchFacts, TipFacts DEF AddBlocks, Call, Job
  <2>2. QED
    BY <1>0, <1>2, <2>1 DEF AddBlocks, IInv, TypeOK, StoresOK, StoreOK, ValidChain, TrustOK
<1>3. ASSUME NEW batch \in Batches, AddValidatedV2Blocks(batch) PROVE IInv'
  <2>1. job' \in Job /\ job'.batch = batch
    BY <1>3, BatchFacts, TipFacts DEF AddValidatedV2Blocks, Call, Job
  <2>2. TrustOK'
    <3>1. DOMAIN batch = 1..Len(batch)
      BY BatchFacts
    <3>2. QED
      BY <1>3, <2>1, <3>1 DEF AddValidatedV2Blocks, TrustOK
  <2>3. QED
    BY <1>0, <1>3, <2>1, <2>2 DEF AddValidatedV2Blocks, IInv, TypeOK, StoresOK, StoreOK, ValidChain
<1>4. CASE IngestValidated
  <2> DEFINE b == Head(job.batch)
  <2>1. job.batch \in Seq(Block) /\ job.batch # <<>>
    BY <1>0, <1>4 DEF IngestValidated, TypeOK, Job
  <2>2. b \in Block /\ b \in Valid
    <3>1. b = job.batch[1] /\ b \in Block /\ 1 \in 1..Len(job.batch)
      BY <2>1, TailFacts
    <3>2. job.batch[1] \in Valid
      BY <1>0, <1>4, <3>1 DEF TrustOK, IngestValidated
    <3>3. QED
      BY <3>1, <3>2
  <2>3. job' \in Job /\ job'.batch = Tail(job.batch)
    BY <1>0, <1>4, <2>1, <2>2, TailFacts DEF IngestValidated, TypeOK, Job
  <2>4. TrustOK'
    <3>1. \A i \in 1..Len(job'.batch) : /\ i + 1 \in 1..Len(job.batch)
                                        /\ job'.batch[i] = job.batch[i + 1]
      BY <2>1, <2>3, TailFacts
    <3>2. \A i \in 1..Len(job.batch) : job.batch[i] \in Valid
      BY <1>0, <1>4 DEF IngestValidated, TrustOK
    <3>3. QED
      BY <3>1, <3>2 DEF TrustOK
  <2>5. /\ block' = [block EXCEPT ![b] = "supplemented"]
        /\ state' = [state EXCEPT ![b] = "full"]
        /\ UNCHANGED <<best, tipState, disk, pending, view, woken, fault, crashes>>
    BY <1>4 DEF IngestValidated
  <2> HIDE DEF b
  <2>6. TypeOK'
    BY <1>0, <2>2, <2>3, <2>5 DEF TypeOK, BlockStatus, StateKind
  <2>7. StoresOK'
    BY <1>0, <2>2, <2>5 DEF TypeOK, StoresOK, StoreOK, ValidChain
  <2>8. QED
    BY <2>4, <2>6, <2>7 DEF IInv
<1>5. CASE SkipKnownBlock
  <2>1. job.batch \in Seq(Block) /\ job.batch # <<>>
    BY <1>0, <1>5 DEF SkipKnownBlock, TypeOK, Job
  <2>2. job' \in Job /\ ~job'.trust
    BY <1>0, <1>5, <2>1, TailFacts DEF SkipKnownBlock, TypeOK, Job
  <2>3. QED
    BY <1>0, <1>5, <2>2 DEF SkipKnownBlock, IInv, TypeOK, StoresOK, StoreOK, ValidChain, TrustOK
<1>6. CASE IngestBlock
  <2> DEFINE b == Head(job.batch)
  <2>1. job.batch \in Seq(Block) /\ job.batch # <<>>
    BY <1>0, <1>6 DEF IngestBlock, TypeOK, Job
  <2>2. b \in Block
    BY <2>1, TailFacts
  <2>3. job' \in Job /\ ~job'.trust
    BY <1>0, <1>6, <2>1, <2>2, TailFacts DEF IngestBlock, TypeOK, Job
  <2>4. /\ block' = [block EXCEPT ![b] = "stored"]
        /\ state' = [state EXCEPT ![b] = "header"]
        /\ UNCHANGED <<best, tipState, disk, pending, view, woken, fault, crashes>>
    BY <1>6 DEF IngestBlock
  <2> HIDE DEF b
  <2>5. TypeOK'
    BY <1>0, <2>2, <2>3, <2>4 DEF TypeOK, BlockStatus, StateKind
  <2>6. StoresOK'
    BY <1>0, <2>2, <2>4 DEF TypeOK, StoresOK, StoreOK, ValidChain
  <2>7. QED
    BY <2>3, <2>5, <2>6 DEF IInv, TrustOK
<1>7. CASE RefuseBlock
  BY <1>0, <1>7, IdleJob DEF RefuseBlock, IInv, TypeOK, StoresOK, StoreOK, ValidChain, TrustOK
<1>8. CASE Decide
  <2>1. job' \in Job /\ job'.phase # "add"
    BY <1>0, <1>8, IdleJob DEF Decide, TypeOK, Job
  <2>2. QED
    BY <1>0, <1>8, <2>1 DEF Decide, IInv, TypeOK, StoresOK, StoreOK, ValidChain, TrustOK
<1>9. CASE ReorgFails /\ job.phase = "reorg"
  <2>1. job' \in Job /\ job'.phase # "add" /\ fault' \in {"none", "panic", "undo"}
    BY <1>0, <1>9, IdleJob DEF ReorgFails, TypeOK, Job
  <2>2. QED
    BY <1>0, <1>9, <2>1 DEF ReorgFails, IInv, TypeOK, StoresOK, StoreOK, ValidChain, TrustOK
<1>10. CASE RevertTip /\ block[Tip] = "supplemented"
  <2>0. Reverting /\ BlockAndParent(Tip) /\ RevertBlock
    BY <1>10 DEF RevertTip
  <2>1. Tip \in Block \ {Genesis} /\ Len(best) > 1 /\ Parent[Tip] \in Block
    BY <1>0, <2>0, RevertingFacts DEF IInv
  <2>2. /\ best' \in Seq(Block)
        /\ Len(best') = Len(best) - 1
        /\ \A i \in 1..Len(best') : best'[i] = best[i]
        /\ ValidChain(best')
    BY <1>0, <2>0, <2>1, FrontChain DEF RevertBlock, TypeOK, StoresOK, StoreOK
  <2>3. tipState' \in {"header", "full"}
    BY <1>0, <2>0, <2>1 DEF RevertBlock, BlockAndParent, TypeOK, StateKind
  <2>4. StoreOK(block', state', best')
    <3>1. Len(best) \in Nat
      BY <1>0 DEF TypeOK
    <3>2. block' = block /\ state' = state
      BY <2>0 DEF RevertBlock
    <3>3. QED
      BY <1>0, <2>2, <3>1, <3>2 DEF StoresOK, StoreOK
  <2>5. disk' \in Store /\ StoreOK(disk'.block, disk'.state, disk'.best)
    BY <1>0, <2>0, <2>2, <2>4, MayFlushOK DEF RevertBlock, TypeOK, StoresOK
  <2>6. QED
    BY <1>0, <2>0, <2>2, <2>3, <2>4, <2>5
    DEF RevertBlock, IInv, TypeOK, StoresOK, StoreOK, ValidChain, TrustOK
<1>11. CASE RevertTip /\ block[Tip] # "supplemented"
  BY <1>0, <1>11, IdleJob DEF RevertTip, Panic, IInv, TypeOK, StoresOK, StoreOK, ValidChain, TrustOK
<1>12. CASE ApplyTip
  <2> DEFINE b == NextBlock
  <2>1. b \in Block \ {Genesis} /\ Parent[b] = Tip
    BY <1>12, ApplyingFacts DEF ApplyTip
  <2>2. /\ best' = Append(best, b)
        /\ \/ /\ block[b] = "stored"
              /\ ValidateBlock(b)
              /\ block' = [block EXCEPT ![b] = "supplemented"]
              /\ state' = [state EXCEPT ![b] = "full"]
           \/ /\ block[b] = "supplemented"
              /\ UNCHANGED <<block, state>>
        /\ MayFlush
        /\ UNCHANGED <<tipState, job, pending, view, woken, fault, crashes>>
        /\ job.phase = "reorg"
    BY <1>12 DEF ApplyTip, Applying
  <2> HIDE DEF b
  <2>3. b \in Valid
    BY <1>0, <2>1, <2>2 DEF StoresOK, StoreOK, ValidateBlock
  <2>4. /\ block' \in [Block -> BlockStatus]
        /\ state' \in [Block -> StateKind]
    BY <1>0, <2>1, <2>2 DEF TypeOK, BlockStatus, StateKind
  <2>5. best' \in Seq(Block) /\ ValidChain(best')
    BY <1>0, <2>1, <2>2, <2>3, AppendChain DEF TypeOK, StoresOK, StoreOK, Tip
  <2>6. StoreOK(block', state', best')
    <3>1. \A a \in Block : block'[a] = "supplemented" => a \in Valid /\ state'[a] # "absent"
      BY <1>0, <2>1, <2>2, <2>3 DEF TypeOK, StoresOK, StoreOK
    <3>2. \A a \in Block : state[a] # "absent" => state'[a] # "absent"
      BY <1>0, <2>1, <2>2 DEF TypeOK
    <3>3. state'[b] # "absent"
      BY <1>0, <2>1, <2>2 DEF TypeOK, StoresOK, StoreOK
    <3>4. /\ Len(best') = Len(best) + 1
          /\ \A i \in 1..Len(best) : best'[i] = best[i] /\ best[i] \in Block
          /\ best'[Len(best) + 1] = b
          /\ Len(best) \in Nat
      BY <1>0, <2>1, <2>2 DEF TypeOK
    <3>5. \A i \in 1..Len(best') : state'[best'[i]] # "absent"
      BY <1>0, <3>2, <3>3, <3>4 DEF StoresOK, StoreOK
    <3>6. QED
      BY <2>5, <3>1, <3>5 DEF StoreOK
  <2>7. disk' \in Store /\ StoreOK(disk'.block, disk'.state, disk'.best)
    BY <1>0, <2>2, <2>4, <2>5, <2>6, MayFlushOK DEF TypeOK, StoresOK
  <2>8. QED
    BY <1>0, <2>2, <2>4, <2>5, <2>6, <2>7 DEF IInv, TypeOK, StoresOK, TrustOK
<1>13. CASE FinishReorg
  <2>1. disk' = [block |-> block, state |-> state, best |-> best]
    BY <1>13 DEF FinishReorg
  <2>2. /\ disk'.block = block /\ disk'.state = state /\ disk'.best = best
        /\ disk' \in Store
    BY <1>0, <2>1 DEF TypeOK, Store
  <2>3. QED
    BY <1>0, <1>13, <2>2, IdleJob DEF FinishReorg, IInv, TypeOK, StoresOK, StoreOK, ValidChain, TrustOK, Job
<1>14. CASE Notify
  BY <1>0, <1>14 DEF Notify, IInv, TypeOK, StoresOK, StoreOK, ValidChain, TrustOK
<1>15. CASE UpdatesSince
  <2>1. view' \in Seq(Block)
    <3>1. CASE OnBestChain
      <4>1. Len(view) < Len(best)
        BY <1>0, <1>15, <3>1, TipFacts DEF UpdatesSince, OnBestChain, Behind, Tip, TypeOK
      <4>2. QED
        BY <1>0, <1>15, <3>1, <4>1 DEF UpdatesSince, NextUpdate, TypeOK
    <3>2. CASE ~OnBestChain
      <4>1. view # <<>>
        BY <3>2 DEF OnBestChain
      <4>2. QED
        BY <1>0, <1>15, <3>2, <4>1 DEF UpdatesSince, TypeOK
    <3>3. QED
      BY <3>1, <3>2
  <2>2. QED
    BY <1>0, <1>15, <2>1 DEF UpdatesSince, IInv, TypeOK, StoresOK, StoreOK, ValidChain, TrustOK
<1>16. CASE UpToDate
  BY <1>0, <1>16 DEF UpToDate, IInv, TypeOK, StoresOK, StoreOK, ValidChain, TrustOK
<1>17. ASSUME NEW height \in 1..Len(best), PruneBlocks(height) PROVE IInv'
  <2>1. /\ block' \in [Block -> BlockStatus]
        /\ \A b \in Block : block'[b] = "supplemented" => block[b] = "supplemented"
        /\ UNCHANGED <<state, best, tipState, job, disk, pending, view, woken, fault, crashes>>
    BY <1>0, <1>17 DEF PruneBlocks, TypeOK, BlockStatus
  <2>2. QED
    BY <1>0, <2>1 DEF IInv, TypeOK, StoresOK, StoreOK, ValidChain, TrustOK
<1>18. CASE Crash
  <2>1. disk.best[Len(disk.best)] \in Block /\ disk.state[disk.best[Len(disk.best)]] \in {"header", "full"}
    BY <1>0 DEF TypeOK, StoresOK, StoreOK, ValidChain, Store, StateKind
  <2>2. disk.block \in [Block -> BlockStatus] /\ disk.state \in [Block -> StateKind] /\ disk.best \in Seq(Block)
    BY <1>0 DEF TypeOK, Store
  <2>3. crashes' \in 0..MaxCrashes
    BY <1>0, <1>18, BoundAssumption DEF Crash, TypeOK
  <2>4. TypeOK'
    BY <1>0, <1>18, <2>1, <2>2, <2>3, IdleJob DEF Crash, TypeOK
  <2>5. StoresOK'
    BY <1>0, <1>18 DEF Crash, StoresOK, StoreOK, ValidChain
  <2>6. TrustOK'
    BY <1>18, IdleJob DEF Crash, TrustOK
  <2>7. QED
    BY <2>4, <2>5, <2>6 DEF IInv
<1>19. QED
  BY <1>1, <1>2, <1>3, <1>4, <1>5, <1>6, <1>7, <1>8, <1>9, <1>10, <1>11, <1>12,
     <1>13, <1>14, <1>15, <1>16, <1>17, <1>18
  DEF Next, Deliver, Add, Reorg, RevertTipMissing, ApplyTipFails, Reverting, Applying

\* The inductive invariant holds in every behaviour of the manager.
THEOREM Invariance == Spec => []IInv
  BY InitIInv, NextIInv, PTL DEF Spec

\* Type correctness of the chain manager.
THEOREM TypeCorrect == Spec => []TypeOK
<1>1. IInv => TypeOK
  BY DEF IInv
<1>2. QED
  BY <1>1, Invariance, PTL

\* Whatever blocks are delivered, whatever is pruned or delivered again, and
\* wherever the process dies, the best chain in memory and the one a restart
\* loads are unbroken chains of valid blocks.
THEOREM BestChainAlwaysValid == Spec => []BestChainValid
<1>1. IInv => BestChainValid
  BY DEF IInv, StoresOK, StoreOK, BestChainValid
<1>2. QED
  BY <1>1, Invariance, PTL

=============================================================================
