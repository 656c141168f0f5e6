CONSTANTS
    None = None
    Request = {"p"}
    Coin = {1, 2}
    Rewards = {2}
    poolPayoutFinality = 2
    step = 1
    MaxHeight = 3
    MaxReorgs = 2
    MaxCrashes = 0
SPECIFICATION Spec
PROPERTIES
    FinalIsBuried
CHECK_DEADLOCK FALSE
