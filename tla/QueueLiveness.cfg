SPECIFICATION FairSpec
CONSTANTS
    s1 = s1
    s2 = s2
    r1 = r1
    r2 = r2
    r3 = r3
    r4 = r4
    None = None
    Sessions <- MCSessions
    Requests <- MCFewRequests
    SessionOf <- MCFewSessionOf
    MaxConcurrency = 1
    MaxPending = 2
INVARIANTS
    ConcurrencyCap
PROPERTIES
    TaskSettles
    AcceptedProgresses
    StopReturns
CHECK_DEADLOCK FALSE
