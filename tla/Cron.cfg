SPECIFICATION Spec
CONSTANTS
    p = p
    q = q
    c1 = c1
    c2 = c2
    good = good
    six = six
    lastday = lastday
    word = word
    None = None
    Process <- MCProcess
    Caller <- MCCaller
    UserName <- MCUserName
    Runtime <- MCRuntime
    Schedule <- MCSchedule
    CronValid <- MCCronValid
    TriggerValid <- MCTriggerValid
    MaxRows = 2
    MaxBoots = 2
    MaxCalls = 2
    MaxRuns = 1
INVARIANTS
    TypeOK
    ResultsAreOwn
    RemovedIsGone
    MemoryComesBack
    TaskNotPrompted
    SuccessIsAnswered
SYMMETRY
    MCSymmetry
CHECK_DEADLOCK FALSE
