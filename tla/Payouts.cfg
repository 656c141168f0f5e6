CONSTANTS
    None = None
    Request = {"p"}
    Coin = {1, 2}
    Rewards = {2}
    poolPayoutFinality = 2
    step = 1
    MaxHeight = 2
    MaxReorgs = 1
    MaxCrashes = 1
SPECIFICATION Spec
INVARIANTS
    PaidOnce

    
    
CHECK_DEADLOCK FALSE
