SPECIFICATION Spec
CONSTANTS
    Process = {p1, p2}
    NoProcess = NoProcess
    AuthMethods = {"oauth", "legacy"}
    Threshold = 3
    Margin = 1
    Lifetime = 4
    Rotates = TRUE
    MaxTime = 6
    MaxToken = 4
    MaxLosses = 1
INVARIANTS
    TypeOK
    RefreshTokenUsedOnce
    StoredTokenAccepted
