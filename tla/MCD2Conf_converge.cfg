CONSTANTS
    m = m  a = a  b = b  c1 = c1  c2 = c2  k1 = k1  v1 = v1  v2 = v2  knil = knil
    Master = m
    Peers <- MCPeers
    MaxHash = 7
    Callers <- MCCallers
    MaxCalls = 2
    MaxReqs = 4
    ReqChanCap = 1
    ChNodes <- MCChNodes
    ChFirst = a
    ChId <- MCChId
    IdBits = 3
    MaxGen = 2
    ModChanCap = 4
    MaxCrash = 1
SPECIFICATION D2Spec
PROPERTY RoutesConverge
CHECK_DEADLOCK FALSE
