SPECIFICATION Spec
CONSTANTS
    Process = {p1, p2}
    NoProcess = NoProcess
    AuthMethods = {"legacy"}
    Threshold = 3
    Margin = 1
    Lifetime = 4
    Rotates = TRUE
    MaxTime = 8
    MaxToken = 3
    MaxLosses = 0
INVARIANT NoUnnecessaryRefresh
