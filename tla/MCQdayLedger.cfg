CONSTANTS
    ShieldBlocks = 1
    DecayBlocks = 2
    DecayStep = 1
    ActivationDelay = 1
    Reward = 2
    MiningBlocks = 2
    PremineAmount = 3
    ProofFee = 1
    MaturityDelay = 1
    MaxBlockWeight = 6
    RequireHeight = 1
    V1Height = 3
    MaxHeight = 5
    MaxReorg = 1
    Blocks <- MCBlocks
    Pools <- MCPools
SPECIFICATION Spec
INVARIANTS
    CandidateValid
    SupplyBound
    NoticePeriod
    BucketMatchesState
PROPERTIES
    NoRevival
