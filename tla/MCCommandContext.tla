-------------------------- MODULE MCCommandContext --------------------------
(* Two servers, one of which has a URL that is a prefix of the other's, two *)
(* logins, and local repositories with none, one and several remotes.      *)
EXTENDS CommandContext

MCLogin(n, s, d) == [name |-> n, server |-> s, user |-> "user", default |-> d]

\* No config, one login, two logins of which one or none is the default.
MCConfig ==
    {[logins |-> ls, remote |-> NoRemote] :
        ls \in {<<>>, <<MCLogin("a", "s1", FALSE)>>,
                <<MCLogin("a", "s1", FALSE), MCLogin("b", "s2", TRUE)>>,
                <<MCLogin("b", "s2", FALSE), MCLogin("a", "s1", FALSE)>>}}
    \cup {[logins |-> <<MCLogin("a", "s1", TRUE)>>, remote |-> "fork"]}

MCPrefixOf == {<<"s2", "s3">>}

URL(s, c) == [server |-> s, scheme |-> c]
Repo(remotes, main) == [remotes |-> remotes, main |-> main]

MCGit ==
    {Repo(<<>>, NoRemote),
     Repo("origin" :> <<URL("s1", "ssh")>>, "origin"),
     Repo("fork" :> <<URL("s3", "http"), URL("s1", "http")>>, NoRemote),
     Repo("origin" :> <<URL("s2", "http")>> @@ "fork" :> <<URL("s1", "ssh")>>, "fork"),
     Repo("origin" :> <<URL("s2", "bad")>> @@ "upstream" :> <<URL("s3", "ssh")>>, NoRemote),
     Repo("fork" :> <<URL("s1", "http")>> @@ "mine" :> <<URL("s3", "http")>>, NoRemote)}
=============================================================================
