CONSTANTS
    Peers = {p1}
    N = 1
    ReqCap = 3
    RespCap = 3
    MayCancel = TRUE
SPECIFICATION Spec
PROPERTIES
    CancelledReturns
CHECK_DEADLOCK FALSE
