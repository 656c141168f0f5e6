CONSTANTS
    Peers = {p1, p2}
    N = 2
    ReqCap = 5
    RespCap = 5
    MayCancel = TRUE
SPECIFICATION Spec
INVARIANTS
    InOrder
    NothingLost

    
CHECK_DEADLOCK FALSE
