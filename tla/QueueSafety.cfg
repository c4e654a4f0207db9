SPECIFICATION Spec
CONSTANTS
    s1 = s1
    s2 = s2
    r1 = r1
    r2 = r2
    r3 = r3
    r4 = r4
    None = None
    Sessions <- MCSessions
    Requests <- MCRequests
    SessionOf <- MCSessionOf
    MaxConcurrency = 2
    MaxPending = 2
SYMMETRY Symmetry
INVARIANTS
    TypeOK
    SessionExclusion
    LaneAccounting
    Accounted
    CancelEventBounded
    BufferArmed
    CarriedOnce
PROPERTIES
    SerialFIFO
CHECK_DEADLOCK FALSE
