SPECIFICATION MCSpec
CONSTANTS
    f1 = f1
    f2 = f2
    x = x
    y = y
    tool = tool
    None = None
    Files <- MCFiles
    Texts <- MCTexts
    Similar <- MCSimilar
    Tools <- MCTools
    MaxLen = 2
    MaxEvents = 2
    MaxRow = 1
INVARIANTS
    TypeOK
    VectorMatchesText
    KeptAreDistinct
CHECK_DEADLOCK FALSE
