--------------------------- MODULE CommandContext ---------------------------
(***************************************************************************)
(* The start of almost every command: InitCommand (modules/context) finds  *)
(* the login and the repository the command is about, from flags, the      *)
(* environment, the remotes of a local git repository and the config file, *)
(* and Ensure tests what the command requires.                             *)
(*                                                                         *)
(* The config file is read once, at the first need and without the lock,   *)
(* while other tea processes rewrite it: they truncate it and then write   *)
(* it (see LoginStore).  A file that is no YAML is reported to the first   *)
(* caller of loadConfig only.                                              *)
(***************************************************************************)
EXTENDS Naturals, Sequences, SequencesExt

CONSTANTS
    Server,         \* the servers, as logins and remotes name them
    PrefixOf,       \* pairs: the URL of the first is a prefix of the second's
    Name,           \* names of stored logins
    EnvName,        \* the name of the login of the environment
    Config,         \* the contents of the config file
    Git,            \* the local git repositories
    Upstream,       \* the name of a remote
    Origin,         \* the name of a remote
    NoRemote,       \* no remote is named
    NoName, NoServer, NoUser, NoRepo,
    User,           \* the user of a stored login
    MaxRewrites     \* bound: rewrites by other processes

\* A stored login, and the one made of GITEA_INSTANCE_URL and a token.
Login == [name : Name \cup {EnvName}, server : Server, user : {User, NoUser},
          default : BOOLEAN]
EnvLogin(s) == [name |-> EnvName, server |-> s, user |-> NoUser, default |-> FALSE]

NoLogin == [name |-> NoName, server |-> NoServer, user |-> NoUser, default |-> FALSE]
EmptyConfig == [logins |-> <<>>, remote |-> NoRemote]

\* The names of stored logins are real ones.
ASSUME NameAssumption == NoName \notin Name \cup {EnvName} /\ NoServer \notin Server
ASSUME RewritesAssumption == MaxRewrites \in Nat
ASSUME ConfigAssumption ==
    \A c \in Config : c.logins \in Seq({l \in Login : l.name \in Name})
\* A repository has the URLs of each of its remotes and the remote of main,
\* master or trunk.
ASSUME GitAssumption ==
    /\ NoRepo \notin Git
    /\ \A g \in Git : \A r \in DOMAIN g.remotes :
         /\ r # NoRemote
         /\ g.remotes[r] \in Seq([server : Server, scheme : {"ssh", "http", "bad"}])

VARIABLES
    file,       \* the config file: its state and its contents
    rewrites,   \* rewrites by other processes
    snapshot,   \* the config as this process has read it, if it has
    args,       \* flags, environment, and what the command requires
    pc,         \* the next step of InitCommand
    remote,     \* the remote asked for
    ctx,        \* what the TeaContext holds
    error       \* why the command ended

others == <<file, rewrites>>
vars == <<file, rewrites, snapshot, args, pc, remote, ctx, error>>

Phase == {"repo", "remote", "env", "local", "override", "fallback", "parse",
          "ensure", "run", "failed"}

\* slug: a typed name, a typed owner/name, or that of a remote of `server`.
Slug == [kind : {"none", "name", "full"}, server : Server \cup {NoServer}]
NoSlug == [kind |-> "none", server |-> NoServer]

Args == [repo : {"none", "directory", "name", "full"},
         remote : UNION {DOMAIN g.remotes : g \in Git} \cup {NoRemote},
         login : Name \cup {NoName},
         env : Server \cup {NoServer},
         needs : SUBSET {"local", "remote"}]

\* Every variable has its type.
TypeOK ==
    /\ file \in [state : {"yaml", "empty", "broken"}, config : Config]
    /\ rewrites \in 0 .. MaxRewrites
    /\ snapshot \in [read : BOOLEAN, config : Config \cup {EmptyConfig}]
    /\ args \in Args
    /\ pc \in Phase
    /\ ctx \in [login : Login \cup {NoLogin}, slug : Slug, local : Git \cup {NoRepo},
                owner : {"none", "slug", "user", "nobody"}]
    /\ error \in {"none", "read", "remote", "login name", "no login",
                  "canceled", "requirement", "argument", "repository"}

Init ==
    /\ \E c \in Config : file \in [state : {"yaml", "broken"}, config : {c}]
    /\ rewrites = 0
    /\ snapshot = [read |-> FALSE, config |-> EmptyConfig]
    /\ args \in Args
    /\ pc = "repo"
    /\ remote = NoRemote
    /\ ctx = [login |-> NoLogin, slug |-> NoSlug, local |-> NoRepo, owner |-> "none"]
    /\ error = "none"

----------------------------------------------------------------------------
(* The config file.                                                        *)

\* Another process saves its config: os.WriteFile truncates, then writes.
Truncate ==
    /\ file.state = "yaml" /\ rewrites < MaxRewrites
    /\ file' = [file EXCEPT !.state = "empty"]
    /\ rewrites' = rewrites + 1
    /\ UNCHANGED <<snapshot, args, pc, remote, ctx, error>>

Write ==
    /\ file.state = "empty"
    /\ \E c \in Config : file' = [state |-> "yaml", config |-> c]
    /\ UNCHANGED <<rewrites, snapshot, args, pc, remote, ctx, error>>

FileContents == IF file.state = "yaml" THEN file.config ELSE EmptyConfig

\* The file is read at every call.
LoadedAnew == FileContents

\* loadConfig, through a sync.Once: the config, and whether this call fails.
Loaded == IF snapshot.read THEN snapshot.config ELSE FileContents
LoadFails == ~snapshot.read /\ file.state = "broken"
Load == snapshot' = [read |-> TRUE, config |-> Loaded]

----------------------------------------------------------------------------
(* InitCommand                                                             *)

Goto(p) == pc' = p /\ UNCHANGED <<others, args, error>>
Fails(e) == pc' = "failed" /\ error' = e /\ UNCHANGED <<others, args, remote, ctx>>

\* --repo names a directory, or is a slug.
ParseRepoFlag ==
    /\ pc = "repo"
    /\ UNCHANGED snapshot
    /\ \/ args.repo # "none" /\ Fails("argument")    \* cannot be looked at
       \/ /\ ctx' = [ctx EXCEPT !.slug =
                        IF args.repo \in {"name", "full"}
                        THEN [kind |-> args.repo, server |-> NoServer] ELSE @]
          /\ Goto("remote") /\ UNCHANGED remote

\* --remote, or the preferences, which ignore an error of loadConfig.
PreferredRemote ==
    /\ pc = "remote"
    /\ IF args.remote # NoRemote
       THEN remote' = args.remote /\ UNCHANGED snapshot
       ELSE Load /\ remote' = Loaded.remote
    /\ Goto("env") /\ UNCHANGED ctx

\* ValidateAuthenticationMethod may refuse the URL of the environment.
CheckEnvLogin ==
    /\ pc = "env"
    /\ \/ args.env # NoServer /\ Fails("argument") /\ UNCHANGED snapshot
       \/ /\ Goto(IF ctx.slug = NoSlug THEN "local" ELSE "override")
          /\ UNCHANGED <<snapshot, remote, ctx>>

\* The remote contextFromLocalRepo looks at.  Without a rule the first one of
\* a map is taken, which is any.
ChosenRemotes(g) ==
    LET known == DOMAIN g.remotes
        several == \E r, s \in known : r # s
        preferred == CASE remote # NoRemote -> {remote}
                       [] ~several -> {}
                       [] g.main # NoRemote -> {g.main}
                       [] Upstream \in known -> {Upstream}
                       [] OTHER -> known \cap {Origin}
    IN  IF remote = NoRemote /\ preferred = {} THEN known ELSE preferred

\* Equal servers only.
ServesExactly(l, url) == url.scheme # "bad" /\ l.server = url.server

\* A login matches a URL: ssh by host, http by prefix.
Serves(l, url) ==
    \/ url.scheme # "bad" /\ l.server = url.server
    \/ url.scheme = "http" /\ <<l.server, url.server>> \in PrefixOf

\* The login of the environment is matched before the stored ones.
Candidates ==
    (IF args.env = NoServer THEN <<>> ELSE <<EnvLogin(args.env)>>) \o Loaded.logins

\* The login of any URL with the path of the first one.
MatchOfFirstURL(urls, logins, j, i) ==
    j = 1 /\ \E k \in DOMAIN urls : Serves(logins[i], urls[k])

\* MatchLogins over the URLs of the remote: login i and URL j, the first URL
\* that has a login, and its first login.
FirstMatch(urls, logins, j, i) ==
    /\ Serves(logins[i], urls[j])
    /\ \A k \in 1 .. (i - 1) : ~Serves(logins[k], urls[j])
    /\ \A h \in 1 .. (j - 1) : \A k \in DOMAIN logins : ~Serves(logins[k], urls[h])

\* contextFromLocalRepo: the login of the remote, and its path as the slug.
ContextFromLocalRepo ==
    /\ pc = "local"
    /\ \/ Fails("repository") /\ UNCHANGED snapshot     \* it cannot be read
       \/ /\ Goto("override")          \* no repository there, or no remote
          /\ \/ UNCHANGED ctx
             \/ \E g \in Git : DOMAIN g.remotes = {} /\ ctx' = [ctx EXCEPT !.local = g]
          /\ UNCHANGED <<snapshot, remote>>
       \/ \E g \in Git : \E r \in ChosenRemotes(g) :
           \/ r \notin DOMAIN g.remotes /\ Fails("remote") /\ UNCHANGED snapshot
           \/ /\ r \in DOMAIN g.remotes
              /\ LoadFails /\ Fails("read") /\ Load
           \/ /\ r \in DOMAIN g.remotes
              /\ ~LoadFails /\ Load
              /\ Goto("override") /\ UNCHANGED remote
              /\ \/ /\ ~\E l \in DOMAIN Candidates, j \in DOMAIN g.remotes[r] :
                          Serves(Candidates[l], g.remotes[r][j])
                    /\ ctx' = [ctx EXCEPT !.local = g]
                 \/ \E l \in DOMAIN Candidates, j \in DOMAIN g.remotes[r] :
                      /\ FirstMatch(g.remotes[r], Candidates, j, l)
                      /\ ctx' = [ctx EXCEPT !.local = g, !.login = Candidates[l],
                                   !.slug = [kind |-> "full", server |-> g.remotes[r][j].server]]

\* The environment first, then --login, which replaces it.
IsLoginNamed(s, n, i) == s[i].name = n /\ \A k \in 1 .. (i - 1) : s[k].name # n

LoginFlag ==
    /\ pc = "override" /\ args.login # NoName
    /\ \/ LoadFails /\ Fails("read") /\ Load
       \/ /\ ~LoadFails /\ Load
          /\ ~\E i \in DOMAIN Loaded.logins : Loaded.logins[i].name = args.login
          /\ Fails("login name")
       \/ /\ ~LoadFails /\ Load
          /\ \E i \in DOMAIN Loaded.logins :
               /\ IsLoginNamed(Loaded.logins, args.login, i)
               /\ ctx' = [ctx EXCEPT !.login = Loaded.logins[i]]
          /\ Goto("parse") /\ UNCHANGED remote

\* No test whether a login was found.
KeepLoginUnchecked ==
    /\ pc = "override" /\ args.login = NoName
    /\ ctx' = [ctx EXCEPT !.login = IF args.env = NoServer THEN @ ELSE EnvLogin(args.env)]
    /\ Goto("parse") /\ UNCHANGED <<snapshot, remote>>

KeepLogin ==
    /\ pc = "override" /\ args.login = NoName
    /\ ctx' = [ctx EXCEPT !.login = IF args.env = NoServer THEN @ ELSE EnvLogin(args.env)]
    /\ Goto(IF ctx'.login = NoLogin THEN "fallback" ELSE "parse")
    /\ UNCHANGED <<snapshot, remote>>

\* GetDefaultLogin: the first default login, or else the first login.
IsDefault(s, i) ==
    \/ s[i].default /\ \A k \in 1 .. (i - 1) : ~s[k].default
    \/ i = 1 /\ \A k \in DOMAIN s : ~s[k].default

\* At a terminal the user may refuse a login that is not the default.
DefaultLogin ==
    /\ pc = "fallback"
    /\ Load
    /\ \/ LoadFails /\ Fails("read")
       \/ ~LoadFails /\ Loaded.logins = <<>> /\ Fails("no login")
       \/ /\ ~LoadFails
          /\ \E i \in DOMAIN Loaded.logins :
               /\ IsDefault(Loaded.logins, i)
               /\ \/ ~Loaded.logins[i].default /\ Fails("canceled")
                  \/ /\ ctx' = [ctx EXCEPT !.login = Loaded.logins[i]]
                     /\ Goto("parse") /\ UNCHANGED remote

\* GetOwnerAndRepo: the owner of a bare name is the user of the login.
ParseSlug ==
    /\ pc = "parse"
    /\ ctx' = [ctx EXCEPT !.owner =
         CASE ctx.slug.kind = "none" -> "none"
           [] ctx.slug.kind = "full" -> "slug"
           [] ctx.slug.kind = "name" -> IF ctx.login.user = NoUser THEN "nobody" ELSE "user"]
    /\ Goto("ensure") /\ UNCHANGED <<snapshot, remote>>

\* Ensure, for a command that needs a local repository, a remote one, or both.
Ensure ==
    /\ pc = "ensure"
    /\ UNCHANGED snapshot
    /\ IF \/ "local" \in args.needs /\ ctx.local = NoRepo
          \/ "remote" \in args.needs /\ ctx.slug = NoSlug
       THEN Fails("requirement")
       ELSE Goto("run") /\ UNCHANGED <<remote, ctx>>

InitCommand ==
    \/ ParseRepoFlag \/ PreferredRemote \/ CheckEnvLogin \/ ContextFromLocalRepo
    \/ LoginFlag \/ KeepLogin \/ DefaultLogin \/ ParseSlug \/ Ensure

Next == InitCommand \/ Truncate \/ Write

Spec == Init /\ [][Next]_vars

----------------------------------------------------------------------------
(* Properties                                                              *)

\* Whatever is given and whatever is missing, a command that goes on has a
\* login: every command uses ctx.Login without a test.
ContextHasLogin == pc \in {"parse", "ensure", "run"} => ctx.login # NoLogin

\* Unless the user names a login or gives one in the environment, the
\* repository that was found through a remote is asked for at the server the
\* remote is on, also when a remote has several URLs and several logins match
\* (to within the prefix of a URL, which is all MatchLogins compares).
LoginServesRepo ==
    pc = "run" /\ ctx.slug.server # NoServer
        /\ args.login = NoName /\ args.env = NoServer
    => \/ ctx.login.server = ctx.slug.server
       \/ <<ctx.login.server, ctx.slug.server>> \in PrefixOf

\* The command falls back to the default login only if none of the logins it
\* knows of serves the remote, although another process may rewrite the
\* config file between the two searches.
NoFallbackPastMatch ==
    pc = "run" /\ ctx.local # NoRepo /\ ctx.slug = NoSlug
        /\ args.login = NoName /\ args.env = NoServer
    => \/ DOMAIN ctx.local.remotes = {}
       \/ \E r \in ChosenRemotes(ctx.local) :
            \A l \in DOMAIN snapshot.config.logins, j \in DOMAIN ctx.local.remotes[r] :
                ~Serves(snapshot.config.logins[l], ctx.local.remotes[r][j])
=============================================================================
