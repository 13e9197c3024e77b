SPECIFICATION Spec
CONSTANTS
    Server = {"s1", "s2", "s3"}
    PrefixOf <- MCPrefixOf
    Name = {"a", "b"}
    EnvName = "GITEA_LOGIN_VIA_ENV"
    Config <- MCConfig
    Git <- MCGit
    Upstream = "upstream"
    Origin = "origin"
    NoRemote = "no remote"
    NoName = "no name"
    NoServer = "no server"
    NoUser = "no user"
    NoRepo = NoRepo
    User = "user"
    MaxRewrites = 1
CHECK_DEADLOCK FALSE
INVARIANTS
    ContextHasLogin
    LoginServesRepo
    NoFallbackPastMatch
