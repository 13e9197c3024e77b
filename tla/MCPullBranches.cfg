SPECIFICATION Spec
CONSTANTS
    Default = "main"
    Head = "feature"
    Pull = "pulls/1"
    PullOfDeleted = "pulls/1-refs/pull/1/head"
    Detached = "detached"
    NoBranch = "none"
    MaxCommit = 4
    MaxMoves = 5
    MaxCommands = 2
    MaxFaults = 1
    MayPush = TRUE
CHECK_DEADLOCK FALSE
INVARIANTS
    TypeOK
    HeadExists
PROPERTIES
    CheckoutShowsPull
    CleanKeepsCommits
