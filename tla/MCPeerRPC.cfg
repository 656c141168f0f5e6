CONSTANTS
    c1 = c1
    c2 = c2
    s1 = s1
    NoSubnet = NoSubnet
    Conns = {c1, c2}
    Subnets = {s1}
    Subnet <- MCSubnet
    MaxInflightRPCs = 2
    MaxInflightRPCsPerSubnet = 2
    maxRelayPayloads = 2
    maxPeerRelayPayloads = 1
SPECIFICATION Spec
INVARIANTS
    CountersMatch
    
PROPERTIES
    CallsProceed
CHECK_DEADLOCK FALSE
