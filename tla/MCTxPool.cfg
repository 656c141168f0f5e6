CONSTANTS
    g = g
    a1 = a1
    a2 = a2
    x3 = x3
    b1 = b1
    b2 = b2
    b3 = b3
    c2 = c2
    c3 = c3
    c4 = c4
    t1 = t1
    t2 = t2
    t3 = t3
    t4 = t4
    t5 = t5
    t6 = t6
    k0 = k0
    k1 = k1
    k2 = k2
    k3 = k3
    k4 = k4
    k5 = k5
    k6 = k6
    k7 = k7
    k8 = k8
    Block <- MCBlock
    Genesis = g
    Parent <- MCParent
    Height <- MCHeight
    Valid <- MCValid
    BlockTxns <- MCBlockTxns
    Txn <- MCTxn
    GenesisCoins = {k0, k1, k7}
    Inputs <- MCInputs
    Outputs <- MCOutputs
    Admits <- MCAdmits
    Weight <- MCWeight
    FeeRate <- MCFeeRate
    PoolLimit = 4
    MaxPath = 3
    Sets <- MCSets
SPECIFICATION Spec
INVARIANTS
    PrefixesValid
    ProofsCurrent
    BroadcastSetValid
PROPERTIES
    AllOrNothing
    ReorgKeepsTransactions
    DropsJustified
    PoolBounded
