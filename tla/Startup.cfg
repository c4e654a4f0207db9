SPECIFICATION Spec
CONSTANTS
    d1 = d1
    d2 = d2
    chat = chat
    c1 = c1
    c2 = c2
    c3 = c3
    tables = tables
    task = task
    duration = duration
    NoPid = NoPid
    Process <- MCProcess
    Daemons <- MCDaemons
    Command <- MCCommand
    Statement <- MCStatement
    Migrations <- MCMigrations
    Repeatable <- MCRepeatable
INVARIANTS
    TypeOK
    OpenHasSchema
    FailsOnlyDisturbed
    RunningIsNamed
PROPERTIES
    StopEnds
CHECK_DEADLOCK FALSE
