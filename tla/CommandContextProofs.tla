------------------------ MODULE CommandContextProofs ------------------------
(***************************************************************************)
(* Whatever the user gives, the config file holds and other processes do   *)
(* to it, the login and the repository a command goes on with fit together,*)
(* for any number of logins, servers, remotes and URLs.                    *)
(***************************************************************************)
EXTENDS CommandContext, TLAPS

\* The login was not forced by a flag or the environment.
Free == args.login = NoName /\ args.env = NoServer

Fits ==
    \/ ctx.login.server = ctx.slug.server
    \/ <<ctx.login.server, ctx.slug.server>> \in PrefixOf

\* Until the local repository is looked at there is no login, and only there
\* the slug gets a server.
NothingFoundYet ==
    /\ pc \in {"repo", "remote", "env", "local"} =>
         ctx.login = NoLogin /\ ctx.slug.server = NoServer /\ ctx.local = NoRepo
    /\ pc = "fallback" => ctx.login = NoLogin

SlugHasLogin ==
    ctx.slug.server # NoServer => ctx.login # NoLogin /\ (Free => Fits)

\* What NoFallbackPastMatch says, from the local repository on: the config
\* that was searched is the one this process keeps.
SearchedSnapshot ==
    ctx.local # NoRepo /\ ctx.slug = NoSlug /\ Free =>
        \/ DOMAIN ctx.local.remotes = {}
        \/ /\ snapshot.read
           /\ \E r \in ChosenRemotes(ctx.local) :
                \A l \in DOMAIN snapshot.config.logins, j \in DOMAIN ctx.local.remotes[r] :
                    ~Serves(snapshot.config.logins[l], ctx.local.remotes[r][j])

\* The inductive invariant, with TypeOK.
ContextInv == NothingFoundYet /\ ContextHasLogin /\ SlugHasLogin /\ SearchedSnapshot

----------------------------------------------------------------------------
(* Types                                                                   *)

LEMMA EmptyConfigLogins == EmptyConfig.logins = <<>>
BY DEF EmptyConfig

LEMMA LoadedType ==
    ASSUME TypeOK
    PROVE  /\ Loaded \in Config \cup {EmptyConfig}
           /\ Loaded.logins \in Seq({l \in Login : l.name \in Name})
<1>1. Loaded \in Config \cup {EmptyConfig}
  BY DEF TypeOK, Loaded, FileContents
<1>2. Loaded.logins \in Seq({l \in Login : l.name \in Name})
  <2>1. CASE Loaded = EmptyConfig
    BY <2>1, EmptyConfigLogins
  <2>2. CASE Loaded \in Config
    BY <2>2, ConfigAssumption
  <2> QED
    BY <1>1, <2>1, <2>2
<1> QED
  BY <1>1, <1>2

LEMMA LoadType ==
    ASSUME TypeOK, Load
    PROVE  snapshot' \in [read : BOOLEAN, config : Config \cup {EmptyConfig}]
BY LoadedType DEF Load

LEMMA StoredLogins ==
    ASSUME TypeOK
    PROVE  \A i \in DOMAIN Loaded.logins : Loaded.logins[i] \in Login \ {NoLogin}
BY LoadedType, NameAssumption DEF NoLogin

LEMMA EnvLoginType ==
    ASSUME TypeOK, args.env # NoServer
    PROVE  EnvLogin(args.env) \in Login \ {NoLogin}
BY NameAssumption DEF TypeOK, Args, EnvLogin, Login, NoLogin

LEMMA CandidateLogins ==
    ASSUME TypeOK
    PROVE  \A i \in DOMAIN Candidates : Candidates[i] \in Login \ {NoLogin}
<1> DEFINE s == Loaded.logins
<1>1. s \in Seq(Login) /\ \A i \in DOMAIN s : s[i] \in Login \ {NoLogin}
  BY LoadedType, StoredLogins
<1>2. s \in Seq(Login \ {NoLogin})
  BY <1>1
<1> HIDE DEF s
<1>3. CASE args.env = NoServer
  <2>1. Candidates = <<>> \o s
    BY <1>3 DEF Candidates, s
  <2> QED
    BY <1>2, <2>1
<1>4. CASE args.env # NoServer
  <2> DEFINE e == EnvLogin(args.env)
  <2>1. Candidates = <<e>> \o s
    BY <1>4 DEF Candidates, s
  <2>2. e \in Login \ {NoLogin}
    BY <1>4, EnvLoginType
  <2> HIDE DEF e
  <2> QED
    BY <1>2, <2>1, <2>2
<1> QED
  BY <1>3, <1>4

\* A step that sets ctx from a remote of a local repository.
FoundRemote(g, r) ==
    /\ r \in ChosenRemotes(g) \cap DOMAIN g.remotes
    /\ Load /\ Goto("override") /\ UNCHANGED remote
    /\ \/ /\ \A l \in DOMAIN Candidates, j \in DOMAIN g.remotes[r] :
               ~Serves(Candidates[l], g.remotes[r][j])
          /\ ctx' = [ctx EXCEPT !.local = g]
       \/ \E l \in DOMAIN Candidates, j \in DOMAIN g.remotes[r] :
            /\ Serves(Candidates[l], g.remotes[r][j])
            /\ ctx' = [ctx EXCEPT !.local = g, !.login = Candidates[l],
                         !.slug = [kind |-> "full", server |-> g.remotes[r][j].server]]

\* How contextFromLocalRepo may end.
LEMMA LocalRepoStep ==
    ASSUME ContextFromLocalRepo
    PROVE  \/ Fails("repository") /\ UNCHANGED snapshot
           \/ Goto("override") /\ UNCHANGED <<ctx, snapshot, remote>>
           \/ /\ Goto("override") /\ UNCHANGED <<snapshot, remote>>
              /\ \E g \in Git : DOMAIN g.remotes = {} /\ ctx' = [ctx EXCEPT !.local = g]
           \/ Fails("remote") /\ UNCHANGED snapshot
           \/ Fails("read") /\ Load
           \/ \E g \in Git : \E r : FoundRemote(g, r)
<1>1. CASE Fails("repository") /\ UNCHANGED snapshot
  BY <1>1
<1>2. CASE /\ Goto("override")
           /\ \/ UNCHANGED ctx
              \/ \E g \in Git : DOMAIN g.remotes = {} /\ ctx' = [ctx EXCEPT !.local = g]
           /\ UNCHANGED <<snapshot, remote>>
  BY <1>2
<1>3. ASSUME NEW g \in Git, NEW r \in ChosenRemotes(g), r \in DOMAIN g.remotes,
             Load, Goto("override"), UNCHANGED remote,
             \/ /\ ~\E l \in DOMAIN Candidates, j \in DOMAIN g.remotes[r] :
                      Serves(Candidates[l], g.remotes[r][j])
                /\ ctx' = [ctx EXCEPT !.local = g]
             \/ \E l \in DOMAIN Candidates, j \in DOMAIN g.remotes[r] :
                  /\ FirstMatch(g.remotes[r], Candidates, j, l)
                  /\ ctx' = [ctx EXCEPT !.local = g, !.login = Candidates[l],
                               !.slug = [kind |-> "full", server |-> g.remotes[r][j].server]]
      PROVE  FoundRemote(g, r)
  BY <1>3, Zenon DEF FoundRemote, FirstMatch
<1> QED
  BY <1>1, <1>2, <1>3, Zenon DEF ContextFromLocalRepo

\* The types of what FoundRemote puts into the context.
LEMMA FoundRemoteType ==
    ASSUME TypeOK, NEW g \in Git, NEW r, FoundRemote(g, r)
    PROVE  ctx' \in [login : Login \cup {NoLogin}, slug : Slug, local : Git \cup {NoRepo},
                     owner : {"none", "slug", "user", "nobody"}]
<1>1. ASSUME NEW l \in DOMAIN Candidates, NEW j \in DOMAIN g.remotes[r]
      PROVE  /\ Candidates[l] \in Login
             /\ [kind |-> "full", server |-> g.remotes[r][j].server] \in Slug
  <2>1. /\ g.remotes[r] \in Seq([server : Server, scheme : {"ssh", "http", "bad"}])
        /\ Candidates[l] \in Login
    BY <1>1, CandidateLogins, GitAssumption DEF FoundRemote
  <2> DEFINE urls == g.remotes[r]
  <2>2. urls[j].server \in Server
    <3>1. j \in DOMAIN urls
      BY <1>1
    <3> HIDE DEF urls
    <3> DEFINE URL == [server : Server, scheme : {"ssh", "http", "bad"}]
    <3>2. urls \in Seq(URL)
      BY <2>1 DEF urls
    <3> HIDE DEF URL
    <3>3. urls[j] \in URL
      BY <3>1, <3>2
    <3> QED
      BY <3>3 DEF URL
  <2> QED
    BY <2>1, <2>2 DEF Slug
<1>2. CASE ctx' = [ctx EXCEPT !.local = g]
  BY <1>2 DEF TypeOK
<1>3. ASSUME NEW l \in DOMAIN Candidates, NEW j \in DOMAIN g.remotes[r],
             ctx' = [ctx EXCEPT !.local = g, !.login = Candidates[l],
                       !.slug = [kind |-> "full", server |-> g.remotes[r][j].server]]
      PROVE  ctx' \in [login : Login \cup {NoLogin}, slug : Slug, local : Git \cup {NoRepo},
                       owner : {"none", "slug", "user", "nobody"}]
  <2> DEFINE s == [kind |-> "full", server |-> g.remotes[r][j].server]
             c == Candidates[l]
  <2>1. s \in Slug /\ c \in Login
    BY <1>1, <1>3
  <2>2. ctx' = [ctx EXCEPT !.local = g, !.login = c, !.slug = s]
    BY <1>3
  <2> HIDE DEF s, c
  <2> QED
    BY <2>1, <2>2 DEF TypeOK
<1> QED
  BY <1>2, <1>3 DEF FoundRemote

LEMMA NamedLogin ==
    ASSUME TypeOK, NEW i \in DOMAIN Loaded.logins,
           ctx' = [ctx EXCEPT !.login = Loaded.logins[i]]
    PROVE  /\ ctx' \in [login : Login \cup {NoLogin}, slug : Slug, local : Git \cup {NoRepo},
                        owner : {"none", "slug", "user", "nobody"}]
           /\ ctx'.login # NoLogin
BY StoredLogins DEF TypeOK

LEMMA KeptLogin ==
    ASSUME TypeOK, KeepLogin
    PROVE  /\ ctx' \in [login : Login \cup {NoLogin}, slug : Slug, local : Git \cup {NoRepo},
                        owner : {"none", "slug", "user", "nobody"}]
           /\ ctx'.local = ctx.local /\ ctx'.slug = ctx.slug
           /\ args.env = NoServer => ctx'.login = ctx.login
           /\ args.env # NoServer => ctx'.login # NoLogin
           /\ pc' \in {"parse", "fallback"}
           /\ pc' = "parse" <=> ctx'.login # NoLogin
<1>1. CASE args.env = NoServer
  <2>1. ctx' = ctx
    BY <1>1 DEF KeepLogin, TypeOK
  <2>2. pc' = IF ctx.login = NoLogin THEN "fallback" ELSE "parse"
    BY <2>1 DEF KeepLogin, Goto
  <2> QED
    BY <1>1, <2>1, <2>2 DEF TypeOK
<1>2. CASE args.env # NoServer
  <2>1. EnvLogin(args.env) \in Login \ {NoLogin}
    BY <1>2, EnvLoginType
  <2>2. ctx' = [ctx EXCEPT !.login = EnvLogin(args.env)]
    BY <1>2 DEF KeepLogin
  <2>3. pc' = "parse"
    BY <2>1, <2>2 DEF KeepLogin, Goto, TypeOK
  <2> DEFINE e == EnvLogin(args.env)
  <2> HIDE DEF e
  <2>4. e \in Login /\ e # NoLogin /\ ctx' = [ctx EXCEPT !.login = e]
    BY <2>1, <2>2 DEF e
  <2>5. ctx \in [login : Login \cup {NoLogin}, slug : Slug, local : Git \cup {NoRepo},
                 owner : {"none", "slug", "user", "nobody"}]
    BY DEF TypeOK
  <2> QED
    BY <1>2, <2>3, <2>4, <2>5
<1> QED
  BY <1>1, <1>2

\* Every variable keeps its type (InitCommand in modules/context/context.go).
THEOREM ContextTypeCorrect == Spec => []TypeOK
<1>1. Init => TypeOK
  <2> SUFFICES ASSUME Init PROVE TypeOK
    OBVIOUS
  <2>1. NoSlug \in Slug
    BY DEF NoSlug, Slug
  <2>2. PICK c \in Config : file \in [state : {"yaml", "broken"}, config : {c}]
    BY DEF Init
  <2>3. rewrites \in 0 .. MaxRewrites
    BY RewritesAssumption DEF Init
  <2> QED
    BY <2>1, <2>2, <2>3 DEF Init, TypeOK, Phase
<1>2. TypeOK /\ [Next]_vars => TypeOK'
  <2> SUFFICES ASSUME TypeOK, [Next]_vars PROVE TypeOK'
    OBVIOUS
  <2> USE DEF Goto, Fails, others
  <2>1. CASE ParseRepoFlag
    <3>1. args.repo \in {"name", "full"} => [kind |-> args.repo, server |-> NoServer] \in Slug
      BY DEF TypeOK, Args, Slug
    <3> QED
      BY <2>1, <3>1 DEF ParseRepoFlag, Phase, TypeOK
  <2>2. CASE PreferredRemote
    BY <2>2, LoadType DEF PreferredRemote, Phase, TypeOK
  <2>3. CASE CheckEnvLogin
    BY <2>3 DEF CheckEnvLogin, Phase, TypeOK
  <2>4. CASE ContextFromLocalRepo
    <3>1. CASE \E g \in Git : \E r : FoundRemote(g, r)
      <4> PICK g \in Git : \E r : FoundRemote(g, r)
        BY <3>1
      <4> PICK r : FoundRemote(g, r)
        OBVIOUS
      <4> QED
        BY FoundRemoteType, LoadType DEF FoundRemote, TypeOK, Phase
    <3>2. CASE ~\E g \in Git : \E r : FoundRemote(g, r)
      BY <2>4, <3>2, LocalRepoStep, LoadType DEF TypeOK, Phase
    <3> QED
      BY <3>1, <3>2
  <2>5. CASE LoginFlag
    BY <2>5, NamedLogin, LoadType DEF LoginFlag, TypeOK, Phase
  <2>6. CASE KeepLogin
    BY <2>6, KeptLogin DEF KeepLogin, TypeOK, Phase
  <2>7. CASE DefaultLogin
    BY <2>7, NamedLogin, LoadType DEF DefaultLogin, TypeOK, Phase
  <2>8. CASE ParseSlug
    BY <2>8 DEF ParseSlug, TypeOK, Phase, Slug
  <2>9. CASE Ensure
    BY <2>9 DEF Ensure, TypeOK, Phase
  <2>10. CASE Truncate
    <3>1. file' \in [state : {"yaml", "empty", "broken"}, config : Config]
      BY <2>10 DEF Truncate, TypeOK
    <3>2. rewrites' \in 0 .. MaxRewrites
      <4>1. rewrites \in 0 .. MaxRewrites /\ rewrites < MaxRewrites /\ rewrites' = rewrites + 1
        BY <2>10 DEF Truncate, TypeOK
      <4> QED
        BY <4>1, RewritesAssumption
    <3> QED
      BY <2>10, <3>1, <3>2 DEF Truncate, TypeOK
  <2>11. CASE Write
    <3>1. file' \in [state : {"yaml", "empty", "broken"}, config : Config]
      BY <2>11 DEF Write
    <3> QED
      BY <2>11, <3>1 DEF Write, TypeOK
  <2>12. CASE UNCHANGED vars
    BY <2>12 DEF vars, TypeOK
  <2> QED
    BY <2>1, <2>2, <2>3, <2>4, <2>5, <2>6, <2>7, <2>8, <2>9, <2>10, <2>11,
       <2>12 DEF Next, InitCommand
<1> QED
  BY <1>1, <1>2, PTL DEF Spec

----------------------------------------------------------------------------
(* Login and repository                                                    *)

\* A later read of the config gives what this process has read before.
LEMMA LoadedOnce ==
    ASSUME TypeOK, SearchedSnapshot, UNCHANGED <<args, remote>>,
           Load \/ UNCHANGED snapshot,
           ctx'.local = ctx.local, ctx'.slug = ctx.slug
    PROVE  SearchedSnapshot'
<1>1. snapshot.read => snapshot'.read /\ snapshot'.config = snapshot.config
  BY DEF Load, Loaded
<1>2. \A g : ChosenRemotes(g)' = ChosenRemotes(g)
  BY DEF ChosenRemotes
<1> QED
  BY <1>1, <1>2 DEF SearchedSnapshot, Free, Serves

\* A step that leaves what was found as it is.
LEMMA SameContext ==
    ASSUME TypeOK, ContextInv, UNCHANGED <<args, remote>>,
           Load \/ UNCHANGED snapshot,
           ctx'.local = ctx.local, ctx'.slug = ctx.slug, ctx'.login = ctx.login,
           pc' = "failed" \/ pc' = pc
             \/ (pc \in {"parse", "ensure"} /\ pc' \in {"ensure", "run"})
             \/ (pc \in {"env", "local"} /\ pc' \in {"local", "override"})
    PROVE  ContextInv'
<1>1. SearchedSnapshot'
  BY LoadedOnce DEF ContextInv
<1> QED
  BY <1>1 DEF ContextInv, NothingFoundYet, ContextHasLogin, SlugHasLogin, Free, Fits

\* Nothing but a typed slug, another remote or a repository without remotes.
LEMMA NothingFound ==
    ASSUME ContextInv, pc \in {"repo", "remote", "local"},
           pc' \in {"remote", "env", "override"},
           ctx'.login = NoLogin, ctx'.slug.server = NoServer,
           \/ ctx'.local = NoRepo
           \/ pc' = "override" /\ DOMAIN ctx'.local.remotes = {}
    PROVE  ContextInv'
BY DEF ContextInv, NothingFoundYet, ContextHasLogin, SlugHasLogin, SearchedSnapshot

\* A login is chosen for what was found.
LEMMA ChosenLogin ==
    ASSUME TypeOK, ContextInv, UNCHANGED <<args, remote>>,
           Load \/ UNCHANGED snapshot,
           ctx'.local = ctx.local, ctx'.slug = ctx.slug,
           ctx'.login # NoLogin, pc' = "parse",
           ~Free \/ ctx'.login = ctx.login \/ ctx.login = NoLogin
    PROVE  ContextInv'
<1>1. SearchedSnapshot'
  BY LoadedOnce DEF ContextInv
<1>2. SlugHasLogin'
  BY DEF ContextInv, SlugHasLogin, Free, Fits
<1> QED
  BY <1>1, <1>2 DEF ContextInv, NothingFoundYet, ContextHasLogin

LEMMA FoundRemoteStep ==
    ASSUME TypeOK, ContextInv, pc = "local", NEW g \in Git, NEW r, FoundRemote(g, r)
    PROVE  ContextInv'
<1>1. /\ pc' = "override" /\ UNCHANGED <<args, remote>> /\ Load
      /\ r \in ChosenRemotes(g) /\ r \in DOMAIN g.remotes
  BY DEF FoundRemote, Goto
<1>2. NothingFoundYet' /\ ContextHasLogin'
  BY <1>1 DEF NothingFoundYet, ContextHasLogin
<1>3. ctx.login = NoLogin /\ ctx.slug.server = NoServer
  BY DEF ContextInv, NothingFoundYet
<1>4. CASE /\ \A l \in DOMAIN Candidates, j \in DOMAIN g.remotes[r] :
                  ~Serves(Candidates[l], g.remotes[r][j])
           /\ ctx' = [ctx EXCEPT !.local = g]
  <2>1. ctx'.local = g /\ ctx'.slug = ctx.slug /\ ctx'.login = ctx.login
    BY <1>4 DEF TypeOK
  <2>2. SlugHasLogin'
    BY <1>3, <2>1 DEF SlugHasLogin
  <2>3. SearchedSnapshot'
    <3>1. snapshot'.read /\ snapshot'.config = Loaded
      BY <1>1 DEF Load
    <3>2. ChosenRemotes(g)' = ChosenRemotes(g)
      BY <1>1 DEF ChosenRemotes
    <3>3. args.env = NoServer => Candidates = Loaded.logins
      BY LoadedType DEF Candidates
    <3> QED
      BY <1>1, <1>4, <2>1, <3>1, <3>2, <3>3 DEF SearchedSnapshot, Free, Serves
  <2> QED
    BY <1>2, <2>2, <2>3 DEF ContextInv
<1>5. ASSUME NEW l \in DOMAIN Candidates, NEW j \in DOMAIN g.remotes[r],
             Serves(Candidates[l], g.remotes[r][j]),
             ctx' = [ctx EXCEPT !.local = g, !.login = Candidates[l],
                       !.slug = [kind |-> "full", server |-> g.remotes[r][j].server]]
      PROVE  ContextInv'
  <2> DEFINE c == Candidates[l]
             u == g.remotes[r][j]
  <2>1. /\ ctx'.login = c /\ ctx'.slug.server = u.server /\ ctx'.slug.kind = "full"
    BY <1>5 DEF TypeOK
  <2>2. c # NoLogin
    BY <1>5, CandidateLogins
  <2>3. c.server = u.server \/ <<c.server, u.server>> \in PrefixOf
    BY <1>5 DEF Serves
  <2> HIDE DEF c, u
  <2>4. SlugHasLogin'
    BY <2>1, <2>2, <2>3 DEF SlugHasLogin, Fits
  <2>5. ctx'.slug # NoSlug
    BY <2>1 DEF NoSlug
  <2>6. SearchedSnapshot'
    BY <2>5 DEF SearchedSnapshot
  <2> QED
    BY <1>2, <2>4, <2>6 DEF ContextInv
<1> QED
  BY <1>4, <1>5 DEF FoundRemote

LEMMA ContextInvariant == Spec => []ContextInv
<1>1. Init => ContextInv
  BY DEF Init, ContextInv, NothingFoundYet, ContextHasLogin, SlugHasLogin,
         SearchedSnapshot, NoSlug
<1>2. TypeOK /\ ContextInv /\ [Next]_vars => ContextInv'
  <2> SUFFICES ASSUME TypeOK, ContextInv, [Next]_vars PROVE ContextInv'
    OBVIOUS
  <2> USE DEF Goto, Fails, others
  <2>1. CASE ParseRepoFlag
    <3>1. CASE pc' = "failed"
      BY <2>1, <3>1, SameContext DEF ParseRepoFlag
    <3>2. CASE pc' # "failed"
      <4>1. /\ ctx' = [ctx EXCEPT !.slug = IF args.repo \in {"name", "full"}
                          THEN [kind |-> args.repo, server |-> NoServer] ELSE @]
            /\ pc = "repo" /\ pc' = "remote"
        BY <2>1, <3>2 DEF ParseRepoFlag
      <4>2. ctx.login = NoLogin /\ ctx.slug.server = NoServer /\ ctx.local = NoRepo
        BY <4>1 DEF ContextInv, NothingFoundYet
      <4>3. /\ ctx'.login = NoLogin /\ ctx'.slug.server = NoServer
            /\ ctx'.local = NoRepo
        BY <4>1, <4>2 DEF TypeOK
      <4> QED
        BY <4>1, <4>3, NothingFound
    <3> QED
      BY <3>1, <3>2
  <2>2. CASE PreferredRemote
    BY <2>2, NothingFound DEF PreferredRemote, ContextInv, NothingFoundYet
  <2>3. CASE CheckEnvLogin
    BY <2>3, SameContext DEF CheckEnvLogin
  <2>4. CASE ContextFromLocalRepo
    <3>1. CASE \E g \in Git : \E r : FoundRemote(g, r)
      BY <2>4, <3>1, FoundRemoteStep DEF ContextFromLocalRepo
    <3>2. CASE ~\E g \in Git : \E r : FoundRemote(g, r)
      <4>1. pc = "local"
        BY <2>4 DEF ContextFromLocalRepo
      <4>2. CASE \E g \in Git : /\ DOMAIN g.remotes = {} /\ Goto("override")
                                /\ ctx' = [ctx EXCEPT !.local = g]
        <5>1. /\ ctx'.login = NoLogin /\ ctx'.slug.server = NoServer
              /\ DOMAIN ctx'.local.remotes = {}
          BY <4>1, <4>2 DEF TypeOK, ContextInv, NothingFoundYet
        <5> QED
          BY <4>1, <4>2, <5>1, NothingFound
      <4> QED
        BY <2>4, <3>2, <4>1, <4>2, LocalRepoStep, SameContext
    <3> QED
      BY <3>1, <3>2
  <2>5. CASE LoginFlag
    BY <2>5, NamedLogin, SameContext, ChosenLogin DEF LoginFlag, Free, TypeOK
  <2>6. CASE KeepLogin
    <3>1. SearchedSnapshot'
      BY <2>6, KeptLogin, LoadedOnce DEF KeepLogin, ContextInv
    <3>2. SlugHasLogin'
      BY <2>6, KeptLogin DEF KeepLogin, ContextInv, SlugHasLogin, Free, Fits
    <3> QED
      BY <2>6, <3>1, <3>2, KeptLogin DEF ContextInv, NothingFoundYet, ContextHasLogin
  <2>7. CASE DefaultLogin
    BY <2>7, NamedLogin, SameContext, ChosenLogin
       DEF DefaultLogin, TypeOK, ContextInv, NothingFoundYet
  <2>8. CASE ParseSlug
    BY <2>8, SameContext DEF ParseSlug, TypeOK
  <2>9. CASE Ensure
    BY <2>9, SameContext DEF Ensure
  <2>10. CASE Truncate \/ Write \/ UNCHANGED vars
    BY <2>10, SameContext DEF Truncate, Write, vars
  <2> QED
    BY <2>1, <2>2, <2>3, <2>4, <2>5, <2>6, <2>7, <2>8, <2>9, <2>10
       DEF Next, InitCommand
<1> QED
  BY <1>1, <1>2, ContextTypeCorrect, PTL DEF Spec

\* A command that goes on has a login (InitCommand).
THEOREM CommandsHaveLogin == Spec => []ContextHasLogin
BY ContextInvariant, PTL DEF ContextInv

\* The login serves the repository that was found (MatchLogins and
\* contextFromLocalRepo).
THEOREM LoginFitsRepo == Spec => []LoginServesRepo
<1>1. ContextInv => LoginServesRepo
  BY DEF ContextInv, SlugHasLogin, Free, Fits, LoginServesRepo
<1> QED
  BY <1>1, ContextInvariant, PTL

\* The default login is taken only if no login serves the remote, whatever
\* another process writes meanwhile (loadConfig reads once).
THEOREM FallbackIsLast == Spec => []NoFallbackPastMatch
<1>1. ContextInv => NoFallbackPastMatch
  BY DEF ContextInv, SearchedSnapshot, Free, NoFallbackPastMatch
<1> QED
  BY <1>1, ContextInvariant, PTL
=============================================================================
