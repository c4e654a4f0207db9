SPECIFICATION MCSpec
CONSTANTS
    q1 = q1
    q2 = q2
    c1 = c1
    h1 = h1
    h2 = h2
    s1 = s1
    t1 = t1
    None = None
    QueuedTurns <- MCQueuedTurns
    CronTurns <- MCCronTurns
    ChatTurns <- MCChatTurns
    Sessions <- MCSessions
    Terminals <- MCTerminals
    SessionOf <- MCSessionOf
    TerminalOf <- MCTerminalOf
    MaxDay = 1
SYMMETRY Symmetry
INVARIANTS
    TypeOK
    TurnsAreSerial
    NoOrphans
PROPERTIES
    CreatedTodaySpared
CHECK_DEADLOCK FALSE
