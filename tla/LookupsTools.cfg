SPECIFICATION MCSpec
CONSTANTS
    Agent = {"main", "side"}
    Registered = {"main"}
    Default = "main"
    Peer = {"pete", "quin"}
    Channel = {"web"}
    Role = {"ops"}
    Account = {"acme"}
    None = "none"
    Error = "error"
    MaxBindings = 0
    Paths <- MCPaths
    Trigger <- MCTriggers
    Unit = 12
    Threshold = 60
    NoSkill = "no skill"
    MaxTriggers = 0
    MaxEdits = 0
    Setup <- MCSetups
    Searchers = {"x"}
    QueryText <- MCQueries
    Memo <- MCMemo
    Aged <- MCAged
    Near <- MCNear
    Limit = 2
    NoText = NoText
    MaxChunks = 0
    MaxSearches = 2
INVARIANT MemoryToolsReach
CHECK_DEADLOCK FALSE
