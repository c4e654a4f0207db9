SPECIFICATION MCSpec
CONSTANTS
    Agent = {"main", "side"}
    Registered = {"main"}
    Default = "main"
    Peer = {"pete", "quin"}
    Channel = {"web"}
    Role = {"ops"}
    Account = {"acme"}
    None = "none"
    Error = "error"
    MaxBindings = 2
    Paths <- MCPaths
    Trigger <- MCTriggers
    Unit = 12
    Threshold = 60
    NoSkill = "no skill"
    MaxTriggers = 2
    MaxEdits = 2
    Setup <- MCSetups
    Searchers = {"x"}
    QueryText <- MCQueries
    Memo <- MCMemo
    Aged <- MCAged
    Near <- MCNear
    Limit = 2
    NoText = NoText
    MaxChunks = 3
    MaxSearches = 2
INVARIANTS
    MCTypeOK
    MostSpecificWins
    BestSkill
    BuiltinsAreTheirs
    IdsMeanOneText
    DroppedForLikeness
CHECK_DEADLOCK FALSE
