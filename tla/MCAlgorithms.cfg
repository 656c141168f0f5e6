CONSTANTS
    Bits = 4
    Word = 16
    ShieldBlocks = 2
    DecayBlocks = 6
    DecayStep = 2
    ActivationDelay = 2
    MaxValue = 40
    MaxBirth = 5
    MaxHeight = 18
    MaxTxns = 4
    MaxSize = 3
    Limit = 5
SPECIFICATION Spec
INVARIANTS
    SumsExact
    QuotientsExact
    WorthExact
    Standalone
    OffersAll
PROPERTIES
    NeverGrows
