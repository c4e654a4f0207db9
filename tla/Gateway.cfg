SPECIFICATION MCSpec
CONSTANTS
    c1 = c1
    c2 = c2
    a = a
    b = b
    d = d
    s1 = s1
    s2 = s2
    None = None
    Connections <- MCConnections
    Requests <- MCRequests
    Sessions <- MCSessions
    ConnectionOf <- MCConnectionOf
    SessionOf <- MCSessionOf
    MaxConcurrency = 2
INVARIANTS
    TypeOK
    FinalDelivered
    BridgeClean
PROPERTIES
    HandlerEnds
CHECK_DEADLOCK FALSE
