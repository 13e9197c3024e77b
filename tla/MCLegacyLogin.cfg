SPECIFICATION Spec
CONSTANTS
    tk1 = tk1
    tk2 = tk2
    Process = {p1, p2}
    NoProcess = NoProcess
    Name <- MCName
    Folded <- MCFolded
    NoName = NoName
    Token = {tk1, tk2}
    NoToken = NoToken
    Command = {"default", "client"}
    InitialLogins <- LegacyLists
    MaxRuns = 2
    MaxFaults = 0
CHECK_DEADLOCK FALSE
PROPERTIES
    RefreshUpdatesTokens
