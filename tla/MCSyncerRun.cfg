CONSTANTS
    c1 = c1
    c2 = c2
    a1 = a1
    u1 = u1
    None = None
    Conns = {c1, c2}
    Inbound = {c1}
    Addrs = {a1}
    Uids = {u1}
    Addr <- MCAddr
    Uid <- MCUid
    MaxInboundPeers = 2
    MayFail = TRUE
    MayClose = TRUE
    PeersLeave = TRUE
SPECIFICATION Spec
INVARIANTS
    PeersTracked
    NoDoubleConnection
    StopIsFinal

    
CHECK_DEADLOCK FALSE
