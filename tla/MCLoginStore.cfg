SPECIFICATION FairSpec
CONSTANTS
    tk1 = tk1
    tk2 = tk2
    Process = {p1, p2}
    NoProcess = NoProcess
    Name <- MCName
    Folded <- MCFolded
    NoName = NoName
    Token = {tk1, tk2}
    NoToken = NoToken
    Command = {"add", "oauth", "delete", "default", "client", "manual"}
    InitialLogins <- Lists
    MaxRuns = 2
    MaxFaults = 1
CHECK_DEADLOCK FALSE
INVARIANTS
    TypeOK
    UniqueNames
    TruncatedOnlyByWriter
    SuccessIsOnDisk
    CredentialComplete
    RefreshStoresForLiveLogin
PROPERTIES
    ImplementsRegistry
    CommandEnds
