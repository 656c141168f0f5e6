CONSTANTS
    g = g
    a1 = a1
    a2 = a2
    a3 = a3
    b2 = b2
    b3 = b3
    b4 = b4
    d4 = d4
    x3 = x3
    Block <- MCBlock
    Genesis = g
    Parent <- MCParent
    TotalWork <- MCTotalWork
    Difficulty <- MCDifficulty
    OrphanValid <- MCOrphanValid
    Valid <- MCValid
    FutureBlocks <- MCFutureBlocks
    MaxBatch = 2
    Keep = 1
    ReaddPruned = FALSE
    MaxCrashes = 1
SPECIFICATION Spec
INVARIANTS
    BestChainValid
    FullyApplied
    DurableWhenIdle
    NoFault
    UpdatesAvailable
PROPERTIES
    ReorgOutcome
    ImplementsBestChain
