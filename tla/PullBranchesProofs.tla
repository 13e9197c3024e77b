------------------------- MODULE PullBranchesProofs -------------------------
(***************************************************************************)
(* Theorems about pulls checkout and pulls clean, for any bounds, any      *)
(* server and any user.                                                    *)
(*                                                                         *)
(* A command reads the pull request once and acts on what it has read many *)
(* steps later, while the server changes.  That it still acts rightly      *)
(* rests on what the server cannot do meanwhile: a branch of a pull        *)
(* request that is deleted does not come back, the ref of the pull request *)
(* stays once its branch is gone, and a branch that was rewritten does not *)
(* get back the commits it has lost.                                       *)
(***************************************************************************)
EXTENDS PullBranches, TLAPS

\* A function from some of the elements of D to tips.
Typed(f, D) == DOMAIN f \subseteq D /\ \A b \in DOMAIN f : f[b] \in Tip

ServerType ==
    /\ server = [branches |-> server.branches, pull |-> server.pull,
                 open |-> server.open, merged |-> server.merged]
    /\ Typed(server.branches, {Default, Head}) /\ Has(server.branches, Default)
    /\ server.pull \in Tip
    /\ server.open \in BOOLEAN /\ server.merged \in BOOLEAN

RepoType ==
    /\ Typed(local, Branch) /\ Typed(tracking, {Default, Head, Pull})
    /\ entries \subseteq Branch /\ remote \in BOOLEAN
    /\ head \in Branch \cup {Detached} /\ work \in Tip

\* The branch a command has chosen is one it may create, check out or delete.
CommandType ==
    \/ cmd = Idle
    \/ /\ cmd \in Command
       /\ cmd.pc \in {"create", "setref", "leave", "unconfig", "delete", "push"} =>
            cmd.branch \in Branch
       /\ cmd.pc = "switch" => cmd.branch \in Branch \cup {Detached}

CounterType ==
    /\ commits \in 2 .. MaxCommit /\ moves \in 0 .. MaxMoves
    /\ commands \in 0 .. MaxCommands /\ faults \in 0 .. MaxFaults

\* A command that runs has not reported anything but that a branch exists.
ResultType ==
    /\ result \in {"none", "ok", "exists", "failed"}
    /\ cmd # Idle => result \in {"none", "exists"}

TypeInv == ServerType /\ RepoType /\ CommandType /\ CounterType /\ ResultType

----------------------------------------------------------------------------
(* Functions.                                                              *)

LEMMA WithIs ==
    ASSUME NEW f, NEW x, NEW v
    PROVE  /\ DOMAIN With(f, x, v) = DOMAIN f \cup {x}
           /\ With(f, x, v)[x] = v
           /\ \A y \in DOMAIN f : y # x => With(f, x, v)[y] = f[y]
  BY DEF With

LEMMA MinusIs ==
    ASSUME NEW f, NEW x
    PROVE  /\ DOMAIN Minus(f, x) = DOMAIN f \ {x}
           /\ \A y \in DOMAIN f \ {x} : Minus(f, x)[y] = f[y]
  BY DEF Minus, Restrict

LEMMA WithTyped ==
    ASSUME NEW D, NEW f, Typed(f, D), NEW x \in D, NEW v \in Tip
    PROVE  Typed(With(f, x, v), D)
<1> DEFINE g == With(f, x, v)
<1>1. DOMAIN g = DOMAIN f \cup {x} /\ g[x] = v /\ \A y \in DOMAIN f : y # x => g[y] = f[y]
  BY DEF With
<1> HIDE DEF g
<1>2. Typed(g, D)
  BY <1>1 DEF Typed
<1> QED
  BY <1>2 DEF g

LEMMA MinusTyped ==
    ASSUME NEW D, NEW f, Typed(f, D), NEW x
    PROVE  Typed(Minus(f, x), D)
<1> DEFINE g == Minus(f, x)
<1>1. DOMAIN g = DOMAIN f \ {x} /\ \A y \in DOMAIN f \ {x} : g[y] = f[y]
  BY MinusIs
<1> HIDE DEF g
<1>2. Typed(g, D)
  BY <1>1 DEF Typed
<1> QED
  BY <1>2 DEF g

\* f overlaid with g.
Overlaid(f, g) == [b \in DOMAIN f \cup DOMAIN g |-> IF Has(g, b) THEN g[b] ELSE f[b]]

LEMMA OverlaidTyped ==
    ASSUME NEW D, NEW f, Typed(f, D), NEW g, Typed(g, D)
    PROVE  Typed(Overlaid(f, g), D)
  BY DEF Typed, Overlaid, Has

LEMMA TypedMore ==
    ASSUME NEW D, NEW E, D \subseteq E, NEW f, Typed(f, D)
    PROVE  Typed(f, E)
  BY DEF Typed

----------------------------------------------------------------------------
(* Types.                                                                  *)

LEMMA TipIsClosed ==
    ASSUME NEW S \in Tip, NEW T \in Tip
    PROVE  S \cup T \in Tip
  BY DEF Tip

LEMMA FreshIsCommit ==
    ASSUME CounterType, FreshCommit
    PROVE  /\ commits + 1 \in Commit /\ commits + 1 > 2
           /\ CounterType'
           /\ \A S \in Tip : S \cup {commits + 1} \in Tip
  BY BoundsAssumption DEF CounterType, FreshCommit, Move, Commit, Tip

LEMMA NoCommitIs ==
    ASSUME CounterType, NoCommit
    PROVE  CounterType' /\ commits' = commits
  BY BoundsAssumption DEF CounterType, NoCommit, Move

LEMMA FirstCommits == {1} \in Tip /\ {1, 2} \in Tip
  BY BoundsAssumption DEF Tip, Commit

LEMMA InitTyped == Init => TypeInv
<1> SUFFICES ASSUME Init PROVE TypeInv
  OBVIOUS
<1>1. Typed(Singleton(Default, {1}), {Default, Head})
  BY FirstCommits DEF Singleton, Typed
<1>2. Typed(With(Singleton(Default, {1}), Head, {1, 2}), {Default, Head})
  BY <1>1, FirstCommits, WithTyped
<1>3. ServerType
  <2>1. /\ Has(With(Singleton(Default, {1}), Head, {1, 2}), Default)
        /\ Has(Singleton(Default, {1}), Default)
    BY DEF Singleton, Has, With
  <2>2. \/ server.branches = With(Singleton(Default, {1}), Head, {1, 2})
        \/ server.branches = Singleton(Default, {1})
    BY DEF Init
  <2>3. Typed(server.branches, {Default, Head}) /\ Has(server.branches, Default)
    BY <1>1, <1>2, <2>1, <2>2
  <2>4. \A b, o : server = [branches |-> b, pull |-> {1, 2}, open |-> o, merged |-> FALSE]
                     /\ o \in BOOLEAN
                   => /\ server = [branches |-> server.branches, pull |-> server.pull,
                                   open |-> server.open, merged |-> server.merged]
                      /\ server.pull = {1, 2}
                      /\ server.open \in BOOLEAN /\ server.merged \in BOOLEAN
    OBVIOUS
  <2>5. \E b, o : server = [branches |-> b, pull |-> {1, 2}, open |-> o, merged |-> FALSE]
                     /\ o \in BOOLEAN
    BY Zenon DEF Init
  <2> QED
    BY <2>3, <2>4, <2>5, FirstCommits DEF ServerType
<1>4. RepoType
  <2>1. Typed(local, Branch) /\ Typed(tracking, {Default, Head, Pull})
    BY <1>1, TypedMore DEF Init, Branch
  <2> QED
    BY <2>1, FirstCommits DEF Init, RepoType, Branch
<1>5. CommandType /\ CounterType /\ ResultType
  BY BoundsAssumption DEF Init, CommandType, CounterType, ResultType
<1> QED
  BY <1>3, <1>4, <1>5 DEF TypeInv

\* The server without the branch of the pull request.
LEMMA MinusShrinks ==
    ASSUME Typed(server.branches, {Default, Head}), Has(server.branches, Default)
    PROVE  /\ Typed(Minus(server.branches, Head), {Default, Head})
           /\ Has(Minus(server.branches, Head), Default)
           /\ ~Has(Minus(server.branches, Head), Head)
<1>1. DOMAIN Minus(server.branches, Head) = DOMAIN server.branches \ {Head}
  BY MinusIs
<1>2. Typed(Minus(server.branches, Head), {Default, Head})
  BY MinusTyped
<1> QED
  BY <1>1, <1>2, BranchAssumption DEF Has

ServerSteps ==
    \/ AuthorPushes \/ AuthorForcePushes
    \/ Merge \/ ClosePull \/ ReopenPull \/ DeleteOnServer

\* A branch of a pull request that is deleted does not come back; it grows by
\* the commit that is made or is put anew on the default branch, which grows
\* by that commit or by the branch.
Goes ==
    Has(server'.branches, Head) =>
        /\ Has(server.branches, Head)
        /\ \/ /\ server'.branches[Head] \subseteq server.branches[Head] \cup {commits + 1}
              /\ server.branches[Head] \subseteq server'.branches[Head]
              /\ server'.branches[Default] \subseteq
                    server.branches[Default] \cup server.branches[Head] \cup {commits + 1}
           \/ /\ server'.branches[Head] = server.branches[Default] \cup {commits + 1}
              /\ server'.branches[Default] = server.branches[Default]

\* The branch of the pull request gets the tip of a push.
LEMMA PushedIs ==
    ASSUME ServerType, NEW tip \in Tip
    PROVE  /\ Pushed(tip) = [branches |-> With(server.branches, Head, tip),
                             pull |-> IF server.open THEN tip ELSE server.pull,
                             open |-> server.open, merged |-> server.merged]
           /\ Typed(With(server.branches, Head, tip), {Default, Head})
           /\ Has(With(server.branches, Head, tip), Default)
           /\ Has(With(server.branches, Head, tip), Head)
           /\ With(server.branches, Head, tip)[Head] = tip
           /\ With(server.branches, Head, tip)[Default] = server.branches[Default]
<1>1. Pushed(tip) = [branches |-> With(server.branches, Head, tip),
                     pull |-> IF server.open THEN tip ELSE server.pull,
                     open |-> server.open, merged |-> server.merged]
  <2>1. \A f, t : [server EXCEPT !.branches = f, !.pull = t]
                    = [branches |-> f, pull |-> t, open |-> server.open, merged |-> server.merged]
    <3> TAKE f, t
    <3> DEFINE s == [server EXCEPT !.branches = f]
    <3>1. s = [branches |-> f, pull |-> server.pull, open |-> server.open, merged |-> server.merged]
      BY DEF ServerType
    <3>2. [server EXCEPT !.branches = f, !.pull = t] = [s EXCEPT !.pull = t]
      OBVIOUS
    <3> HIDE DEF s
    <3>3. [s EXCEPT !.pull = t]
          = [branches |-> f, pull |-> t, open |-> server.open, merged |-> server.merged]
      BY <3>1
    <3> QED
      BY <3>2, <3>3
  <2>2. Pushed(tip) = [server EXCEPT !.branches = With(server.branches, Head, tip),
                                     !.pull = IF server.open THEN tip ELSE server.pull]
    BY DEF Pushed
  <2> QED
    BY <2>1, <2>2
<1>2. Typed(With(server.branches, Head, tip), {Default, Head})
  BY WithTyped DEF ServerType
<1> QED
  BY <1>1, <1>2, BranchAssumption DEF ServerType, With, Has

LEMMA ServerStep ==
    ASSUME ServerType, CounterType, ServerSteps
    PROVE  /\ ServerType' /\ CounterType' /\ Goes
           /\ UNCHANGED <<repo, cmd, result>>
           /\ ~Has(server.branches, Head) => server'.pull = server.pull
<1>0. /\ server.branches[Default] \in Tip
      /\ Has(server.branches, Head) => server.branches[Head] \in Tip
  BY DEF ServerType, Typed, Has
<1>1. CASE AuthorPushes \/ AuthorForcePushes
  <2>1. PICK old \in {server.branches[Head], server.branches[Default]} :
          /\ Has(server.branches, Head) /\ FreshCommit
          /\ OnServer(Pushed(old \cup {commits + 1}))
    BY <1>1 DEF AuthorPushes, AuthorForcePushes
  <2> DEFINE tip == old \cup {commits + 1}
  <2>2. tip \in Tip /\ CounterType'
    BY <1>0, <2>1, FreshIsCommit
  <2>3. server' = Pushed(tip) /\ UNCHANGED <<repo, cmd, result>>
    BY <2>1 DEF OnServer
  <2>4. old \subseteq tip /\ tip = old \cup {commits + 1}
    OBVIOUS
  <2> HIDE DEF tip
  <2>5. /\ server' = [branches |-> With(server.branches, Head, tip),
                      pull |-> IF server.open THEN tip ELSE server.pull,
                      open |-> server.open, merged |-> server.merged]
        /\ Typed(With(server.branches, Head, tip), {Default, Head})
        /\ Has(With(server.branches, Head, tip), Default)
        /\ With(server.branches, Head, tip)[Head] = tip
        /\ With(server.branches, Head, tip)[Default] = server.branches[Default]
    BY <2>2, <2>3, PushedIs
  <2>6. ServerType'
    BY <2>2, <2>5 DEF ServerType
  <2>7. Goes
    BY <2>1, <2>4, <2>5 DEF Goes
  <2> QED
    BY <2>1, <2>2, <2>3, <2>6, <2>7
<1>2. CASE Merge
  <2> DEFINE main == server.branches[Default]
             pulled == server.branches[Head]
  <2>1. Has(server.branches, Head) /\ main \in Tip /\ pulled \in Tip
    BY <1>0, <1>2 DEF Merge
  <2>2. PICK tip \in Tip : /\ server' = [server EXCEPT !.branches = With(@, Default, tip),
                                                      !.open = FALSE, !.merged = TRUE]
                          /\ tip \subseteq main \cup pulled \cup {commits + 1}
                          /\ CounterType' /\ UNCHANGED <<repo, cmd, result>>
    <3>1. CASE /\ FreshCommit
               /\ server' = [server EXCEPT !.branches = With(@, Default, main \cup pulled \cup {commits + 1}),
                                           !.open = FALSE, !.merged = TRUE]
               /\ UNCHANGED <<repo, cmd, result>>
      <4>1. main \cup pulled \cup {commits + 1} \in Tip /\ CounterType'
        BY <2>1, <3>1, TipIsClosed, FreshIsCommit
      <4> QED
        BY <3>1, <4>1
    <3>2. CASE /\ NoCommit
               /\ server' = [server EXCEPT !.branches = With(@, Default, pulled),
                                           !.open = FALSE, !.merged = TRUE]
               /\ UNCHANGED <<repo, cmd, result>>
      BY <2>1, <3>2, NoCommitIs
    <3> QED
      BY <1>2, <3>1, <3>2 DEF Merge, OnServer
  <2>3. /\ server'.branches = With(server.branches, Default, tip)
        /\ server'.pull = server.pull /\ server'.open = FALSE /\ server'.merged = TRUE
        /\ server' = [branches |-> server'.branches, pull |-> server'.pull,
                      open |-> server'.open, merged |-> server'.merged]
    BY <2>2 DEF ServerType
  <2>4. Typed(server'.branches, {Default, Head}) /\ Has(server'.branches, Default)
    <3>1. DOMAIN server'.branches = DOMAIN server.branches \cup {Default}
      BY <2>3 DEF With
    <3>2. Typed(server'.branches, {Default, Head})
      BY <2>2, <2>3, WithTyped DEF ServerType
    <3> QED
      BY <3>1, <3>2 DEF Has
  <2>5. server'.branches[Head] = server.branches[Head] /\ server'.branches[Default] = tip
    BY <2>1, <2>3, BranchAssumption DEF Has, With
  <2> QED
    BY <2>1, <2>2, <2>3, <2>4, <2>5 DEF ServerType, Goes
<1>3. CASE ClosePull \/ ReopenPull
  <2>1. /\ server'.branches = server.branches /\ server'.merged = server.merged
        /\ server' = [branches |-> server'.branches, pull |-> server'.pull,
                      open |-> server'.open, merged |-> server'.merged]
        /\ server'.open \in BOOLEAN /\ UNCHANGED <<repo, cmd, result>> /\ NoCommit
        /\ \/ server'.pull = server.pull
           \/ Has(server.branches, Head) /\ server'.pull = server.branches[Head]
    BY <1>3 DEF ClosePull, ReopenPull, OnServer, ServerType
  <2> QED
    BY <2>1, NoCommitIs DEF ServerType, Typed, Has, Goes
<1>4. CASE DeleteOnServer
  <2>1. /\ server'.branches = Minus(server.branches, Head)
        /\ server'.pull = server.pull /\ server'.open = server.open /\ server'.merged = server.merged
        /\ server' = [branches |-> server'.branches, pull |-> server'.pull,
                      open |-> server'.open, merged |-> server'.merged]
        /\ UNCHANGED <<repo, cmd, result>> /\ NoCommit
    BY <1>4 DEF DeleteOnServer, OnServer, ServerType
  <2> QED
    BY <2>1, MinusShrinks, NoCommitIs DEF ServerType, Goes
<1> QED
  BY <1>1, <1>2, <1>3, <1>4 DEF ServerSteps

\* The steps of a user that make or move a branch.
UserMakes ==
    \/ UserCommits \/ UserPulls \/ UserPushes
    \/ \E b \in DOMAIN local : UserMerges(local[b])
    \/ \E b \in DOMAIN tracking : UserMerges(tracking[b])
    \/ \E b \in {Head, Pull} : UserCreatesBranch(b)
UserSteps == UserMakes \/ \E b \in Branch : UserSwitches(b)

\* The checked out branch gets a tip.
LEMMA HeadToTyped ==
    ASSUME RepoType, Has(local, head), NEW tip \in Tip, HeadTo(tip)
    PROVE  Typed(local', Branch) /\ work' \in Tip /\ DOMAIN local' = DOMAIN local
<1>1. local' = With(local, head, tip) /\ work' = tip /\ head \in Branch /\ Typed(local, Branch)
  BY DEF HeadTo, RepoType, Typed, Has
<1>2. Typed(local', Branch)
  BY <1>1, WithTyped
<1> QED
  BY <1>1, <1>2 DEF With, Has

\* A user works between two commands.
LEMMA UserStep ==
    ASSUME ServerType, RepoType, CounterType, UserSteps
    PROVE  cmd = Idle /\ ServerType' /\ RepoType' /\ CounterType' /\ UNCHANGED <<cmd, result>>
<1> USE DEF AtWork
<1>0. Has(local, head) => local[head] \in Tip /\ head \in Branch
  BY DEF RepoType, Typed, Has
<1>s. ASSUME server' = server PROVE ServerType'
  BY <1>s DEF ServerType, Typed, Has
<1>1. CASE UserCommits
  <2> DEFINE w == local[head] \cup {commits + 1}
  <2>1. w \in Tip /\ CounterType' /\ HeadTo(w) /\ Has(local, head)
    BY <1>0, <1>1, FreshIsCommit DEF UserCommits
  <2> HIDE DEF w
  <2>2. Typed(local', Branch) /\ work' \in Tip
    BY <2>1, HeadToTyped
  <2> QED
    BY <1>1, <1>s, <2>1, <2>2 DEF UserCommits, RepoType, Typed
<1>2. CASE UserPulls
  <2>1. /\ Typed(server.branches, {Default, Head, Pull})
        /\ server.branches[head] \in Tip /\ HeadTo(server.branches[head]) /\ Has(local, head)
    BY <1>2, TypedMore DEF UserPulls, ServerType, RepoType, Typed, Has
  <2>2. tracking' = Overlaid(tracking, server.branches)
    BY <1>2 DEF UserPulls, Fetched, Overlaid
  <2>3. Typed(tracking', {Default, Head, Pull}) /\ Typed(local', Branch) /\ work' \in Tip
    BY <2>1, <2>2, OverlaidTyped, HeadToTyped DEF RepoType
  <2> QED
    BY <1>2, <1>s, <2>3, NoCommitIs DEF UserPulls, RepoType, Typed
<1>3. ASSUME NEW b \in {Head, Pull}, UserCreatesBranch(b)
      PROVE  cmd = Idle /\ ServerType' /\ RepoType' /\ CounterType' /\ UNCHANGED <<cmd, result>>
  <2>1. b \in Branch /\ local[head] \in Tip /\ local' = With(local, b, local[head])
    BY <1>0, <1>3 DEF UserCreatesBranch, Branch
  <2>2. Typed(local', Branch)
    BY <2>1, WithTyped DEF RepoType
  <2> QED
    BY <1>3, <1>s, <2>1, <2>2, NoCommitIs DEF UserCreatesBranch, RepoType, Typed
<1>4. ASSUME NEW b \in Branch, UserSwitches(b)
      PROVE  cmd = Idle /\ ServerType' /\ RepoType' /\ CounterType' /\ UNCHANGED <<cmd, result>>
  BY <1>4, <1>s, NoCommitIs DEF UserSwitches, RepoType, Typed, Has
<1>5. ASSUME NEW tip \in Tip, UserMerges(tip)
      PROVE  cmd = Idle /\ ServerType' /\ RepoType' /\ CounterType' /\ UNCHANGED <<cmd, result>>
  <2>1. PICK new \in Tip : HeadTo(new) /\ CounterType'
    <3>1. CASE NoCommit /\ HeadTo(tip)
      BY <3>1, NoCommitIs
    <3>2. CASE FreshCommit /\ HeadTo(local[head] \cup tip \cup {commits + 1})
      <4>1. Has(local, head)
        BY <1>5 DEF UserMerges
      <4>2. local[head] \cup tip \cup {commits + 1} \in Tip /\ CounterType'
        BY <1>0, <3>2, <4>1, TipIsClosed, FreshIsCommit
      <4> QED
        BY <3>2, <4>2
    <3> QED
      BY <1>5, <3>1, <3>2 DEF UserMerges
  <2>2. Typed(local', Branch) /\ work' \in Tip
    BY <1>5, <2>1, HeadToTyped DEF UserMerges
  <2> QED
    BY <1>5, <1>s, <2>1, <2>2 DEF UserMerges, RepoType, Typed
<1>6. CASE UserPushes
  <2>1. /\ Has(local, head) /\ local[head] \in Tip /\ head \in {Default, Head}
        /\ NoCommit /\ UNCHANGED <<local, entries, remote, head, work>>
        /\ tracking' = With(tracking, head, local[head])
    BY <1>0, <1>6 DEF UserPushes
  <2>2. Typed(tracking', {Default, Head, Pull})
    BY <2>1, WithTyped DEF RepoType
  <2>3. ServerType'
    <3>1. CASE server' = Pushed(local[head])
      <4>1. server' = [branches |-> With(server.branches, Head, local[head]),
                       pull |-> IF server.open THEN local[head] ELSE server.pull,
                       open |-> server.open, merged |-> server.merged]
            /\ Typed(With(server.branches, Head, local[head]), {Default, Head})
            /\ Has(With(server.branches, Head, local[head]), Default)
        BY <2>1, <3>1, PushedIs
      <4> QED
        BY <2>1, <4>1 DEF ServerType
    <3>2. CASE server' = [server EXCEPT !.branches = With(@, Default, local[head])]
      <4>1. /\ server'.branches = With(server.branches, Default, local[head])
            /\ server'.pull = server.pull /\ server'.open = server.open /\ server'.merged = server.merged
            /\ server' = [branches |-> server'.branches, pull |-> server'.pull,
                          open |-> server'.open, merged |-> server'.merged]
        BY <3>2 DEF ServerType
      <4>2. DOMAIN server'.branches = DOMAIN server.branches \cup {Default}
        BY <4>1 DEF With
      <4>3. Typed(server'.branches, {Default, Head})
        BY <2>1, <4>1, WithTyped DEF ServerType
      <4> QED
        BY <4>1, <4>2, <4>3 DEF ServerType, Has
    <3> QED
      BY <1>6, <3>1, <3>2 DEF UserPushes
  <2> QED
    BY <1>6, <2>1, <2>2, <2>3, NoCommitIs DEF UserPushes, RepoType, Typed
<1>7. \A f, D : Typed(f, D) => \A b \in DOMAIN f : f[b] \in Tip
  BY DEF Typed
<1> QED
  BY <1>1, <1>2, <1>3, <1>4, <1>5, <1>6, <1>7 DEF UserSteps, UserMakes, RepoType

\* The answer of the server.
LEMMA AnswerTyped ==
    ASSUME ServerType
    PROVE  /\ GetPullRequest \in PullRequest
           /\ GetPullRequest.deleted = ~Has(server.branches, Head)
           /\ GetPullRequest.sha = IF Has(server.branches, Head) THEN server.branches[Head]
                                   ELSE server.pull
<1>1. Has(server.branches, Head) => server.branches[Head] \in Tip
  BY DEF ServerType, Typed, Has
<1> QED
  BY <1>1 DEF ServerType, GetPullRequest, PullRequest

\* A command starts with what the server answers.
LEMMA StartStep ==
    ASSUME TypeInv, NEW op \in {"checkout", "clean"}, NEW first \in {"remote", "match"},
           NEW flag \in BOOLEAN, Start(op, first, flag)
    PROVE  /\ cmd = Idle /\ cmd' # Idle /\ cmd'.op = op /\ cmd'.pc = first /\ cmd'.flag = flag
           /\ cmd'.pr = GetPullRequest
           /\ UNCHANGED <<repo, server>>
           /\ result' = "none" /\ TypeInv'
<1> DEFINE c == [op |-> op, pc |-> first, flag |-> flag, pr |-> GetPullRequest, branch |-> NoBranch]
<1>1. GetPullRequest \in PullRequest
  BY AnswerTyped DEF TypeInv
<1>2. /\ c \in Command /\ c # Idle /\ c.op = op /\ c.pc = first /\ c.flag = flag
      /\ c.pr = GetPullRequest
  BY <1>1 DEF Command, Phase, Idle
<1>3. /\ cmd = Idle /\ cmd' = c /\ result' = "none" /\ commands < MaxCommands
      /\ commands' = commands + 1 /\ UNCHANGED <<repo, server, commits, moves, faults>>
  BY DEF Start
<1> HIDE DEF c
<1>4. ServerType' /\ RepoType' /\ CounterType' /\ ResultType'
  BY <1>3, BoundsAssumption DEF TypeInv, ServerType, RepoType, CounterType, ResultType, repo, Typed, Has
<1>5. CommandType'
  BY <1>2, <1>3 DEF CommandType
<1> QED
  BY <1>2, <1>3, <1>4, <1>5 DEF TypeInv

\* The steps of a command that leave server and counters alone, and what they
\* do to the command.
LEMMA StepKeepsTypes ==
    ASSUME TypeInv, cmd # Idle, Step, RepoType',
           \/ \E r \in {"ok", "exists", "failed"} : Ends(r)
           \/ /\ result' \in {"none", "exists"} /\ cmd'.pc \in Phase
              /\ cmd'.branch \in Branch \cup {NoBranch, Detached}
              /\ cmd' = [cmd EXCEPT !.pc = cmd'.pc, !.branch = cmd'.branch]
              /\ cmd'.pc \in {"create", "setref", "leave", "unconfig", "delete", "push"} =>
                   cmd'.branch \in Branch
              /\ cmd'.pc = "switch" => cmd'.branch \in Branch \cup {Detached}
    PROVE  TypeInv'
<1>1. ServerType' /\ CounterType'
  BY DEF TypeInv, Step, ServerType, CounterType, counters, Typed, Has
<1>2. CommandType' /\ ResultType'
  <2>1. CASE \E r \in {"ok", "exists", "failed"} : Ends(r)
    BY <2>1 DEF Ends, CommandType, ResultType
  <2>2. CASE cmd' = [cmd EXCEPT !.pc = cmd'.pc, !.branch = cmd'.branch]
             /\ cmd'.pc \in Phase /\ cmd'.branch \in Branch \cup {NoBranch, Detached}
             /\ ~\E r \in {"ok", "exists", "failed"} : Ends(r)
    <3>1. cmd \in Command
      BY DEF TypeInv, CommandType
    <3>2. cmd' \in Command
      BY <2>2, <3>1 DEF Command
    <3> QED
      BY <2>2, <3>2 DEF CommandType, ResultType
  <2> QED
    BY <2>1, <2>2
<1> QED
  BY <1>1, <1>2 DEF TypeInv
\* What a search of the local branches may find.
LEMMA FoundIsLocal ==
    ASSUME RepoType, NEW sha
    PROVE  /\ \A b \in TeaFindBranchBySha(sha) :
                b \in DOMAIN local /\ b \in Branch /\ local[b] = sha
                /\ \E t \in DOMAIN tracking : tracking[t] = sha
           /\ \A b \in TeaFindBranchByName(Head) : b = Head /\ b \in DOMAIN local /\ b \in Branch
  BY DEF TeaFindBranchBySha, TeaFindBranchByName, RepoType, Typed, Has

\* A command is a record with the fields of one.
LEMMA CommandIs ==
    ASSUME TypeInv, cmd # Idle
    PROVE  /\ cmd \in Command /\ cmd.op \in {"checkout", "clean"} /\ cmd.pc \in Phase
           /\ cmd.pr \in PullRequest /\ cmd.flag \in BOOLEAN
           /\ cmd.pr.sha \in Tip /\ cmd.pr.deleted \in BOOLEAN
           /\ cmd.branch \in Branch \cup {NoBranch, Detached}
           /\ \A f, b : LET c == [cmd EXCEPT !.pc = f, !.branch = b] IN
                /\ c.op = cmd.op /\ c.pr = cmd.pr /\ c.flag = cmd.flag /\ c.pc = f /\ c.branch = b
           /\ \A f : LET c == [cmd EXCEPT !.pc = f] IN
                /\ c.op = cmd.op /\ c.pr = cmd.pr /\ c.flag = cmd.flag /\ c.pc = f
                /\ c.branch = cmd.branch
                /\ c = [cmd EXCEPT !.pc = f, !.branch = cmd.branch]
<1>1. cmd \in Command
  BY DEF TypeInv, CommandType
<1>2. cmd.pr \in PullRequest
  BY <1>1 DEF Command
<1> QED
  BY <1>1, <1>2 DEF Command, PullRequest

\* The next step of the same command, about the same branch.
LEMMA GotoIs ==
    ASSUME TypeInv, cmd # Idle, NEW f \in Phase, Goto(f)
    PROVE  /\ cmd'.op = cmd.op /\ cmd'.pr = cmd.pr /\ cmd'.flag = cmd.flag
           /\ cmd'.pc = f /\ cmd'.branch = cmd.branch /\ cmd' # Idle
           /\ cmd' = [cmd EXCEPT !.pc = cmd'.pc, !.branch = cmd'.branch]
           /\ result' \in {"none", "exists"} /\ result' = result
<1>1. cmd' = [cmd EXCEPT !.pc = f] /\ result' = result
  BY DEF Goto
<1>2. /\ cmd'.op = cmd.op /\ cmd'.pr = cmd.pr /\ cmd'.flag = cmd.flag
      /\ cmd'.pc = f /\ cmd'.branch = cmd.branch
      /\ cmd' = [cmd EXCEPT !.pc = f, !.branch = cmd.branch]
      /\ cmd.op \in {"checkout", "clean"}
  BY <1>1, CommandIs
<1>3. cmd' # Idle
  <2> SUFFICES ASSUME cmd' = Idle PROVE FALSE
    OBVIOUS
  <2>1. cmd'.op = "none"
    BY DEF Idle
  <2> QED
    BY <1>2, <2>1
<1> QED
  BY <1>1, <1>2, <1>3 DEF TypeInv, ResultType

\* The branch it goes on about.
Chooses(b, pc) == cmd' = [cmd EXCEPT !.branch = b, !.pc = pc] /\ UNCHANGED result

LEMMA ChosenIs ==
    ASSUME TypeInv, cmd # Idle, NEW f \in Phase, NEW b \in Branch \cup {NoBranch, Detached},
           Chooses(b, f)
    PROVE  /\ cmd'.op = cmd.op /\ cmd'.pr = cmd.pr /\ cmd'.flag = cmd.flag
           /\ cmd'.pc = f /\ cmd'.branch = b /\ cmd' # Idle
           /\ cmd' = [cmd EXCEPT !.pc = cmd'.pc, !.branch = cmd'.branch]
           /\ result' \in {"none", "exists"}
<1>0. cmd \in Command /\ cmd.op \in {"checkout", "clean"}
  BY CommandIs
<1>1. cmd' = [cmd EXCEPT !.pc = f, !.branch = b] /\ result' = result
  BY <1>0 DEF Command, Chooses
<1>2. /\ cmd'.op = cmd.op /\ cmd'.pr = cmd.pr /\ cmd'.flag = cmd.flag
      /\ cmd'.pc = f /\ cmd'.branch = b
  BY <1>0, <1>1 DEF Command
<1>3. cmd' # Idle
  <2> SUFFICES ASSUME cmd' = Idle PROVE FALSE
    OBVIOUS
  <2>1. cmd'.op = "none"
    BY DEF Idle
  <2> QED
    BY <1>0, <1>2, <2>1
<1> QED
  BY <1>1, <1>2, <1>3 DEF TypeInv, ResultType

LEMMA CheckoutTyped ==
    ASSUME TypeInv, PullCheckout
    PROVE  TypeInv'
<1>1. CASE StartCheckout
  BY <1>1, StartStep DEF StartCheckout
<1>2. CASE GetOrCreateRemote
  <2>1. RepoType'
    BY <1>2 DEF GetOrCreateRemote, TypeInv, RepoType, Typed
  <2> QED
    BY <1>2, <2>1, GotoIs, CommandIs, StepKeepsTypes DEF GetOrCreateRemote, Running, Phase
<1>3. CASE Fetch
  <2>1. server.pull \in Tip /\ Typed(server.branches, {Default, Head, Pull})
    BY TypedMore DEF TypeInv, ServerType
  <2>2. \/ tracking' = With(tracking, Pull, server.pull)
        \/ tracking' = Overlaid(tracking, server.branches)
    BY <1>3 DEF Fetch, Fetched, Overlaid
  <2>3. Typed(tracking', {Default, Head, Pull})
    <3>1. Typed(With(tracking, Pull, server.pull), {Default, Head, Pull})
      BY <2>1, WithTyped DEF TypeInv, RepoType
    <3>2. Typed(Overlaid(tracking, server.branches), {Default, Head, Pull})
      BY <2>1, OverlaidTyped DEF TypeInv, RepoType
    <3> QED
      BY <2>2, <3>1, <3>2
  <2>4. RepoType'
    BY <1>3, <2>3 DEF Fetch, TypeInv, RepoType, Typed
  <2> QED
    BY <1>3, <2>4, GotoIs, CommandIs, StepKeepsTypes DEF Fetch, Running, Phase
<1>4. CASE ChooseRef
  <2>1. RepoType'
    BY <1>4 DEF ChooseRef, repo, TypeInv, RepoType, Typed
  <2>2. PICK b \in Branch \cup {Detached}, f \in {"switch", "create"} :
          Chooses(b, f) /\ (f = "create" => b \in Branch)
    <3>1. \A b \in TeaFindBranchBySha(cmd.pr.sha) : b \in Branch
      BY FoundIsLocal DEF TypeInv
    <3> QED
      BY <1>4, <3>1 DEF ChooseRef, CreatedName, Branch, Chooses
  <2>3. f \in Phase /\ cmd # Idle /\ Step /\ result' = result
    BY <1>4 DEF ChooseRef, Running, Phase
  <2> QED
    <3>1. /\ cmd'.pc = f /\ cmd'.branch = b
          /\ cmd' = [cmd EXCEPT !.pc = cmd'.pc, !.branch = cmd'.branch]
          /\ result' \in {"none", "exists"}
      BY <2>2, <2>3, ChosenIs
    <3> QED
      BY <2>1, <2>2, <2>3, <3>1, StepKeepsTypes
<1>5. CASE CreateBranch
  <2>1. cmd # Idle /\ cmd.pc = "create" /\ cmd.branch \in Branch
    BY <1>5 DEF CreateBranch, Running, TypeInv, CommandType
  <2>2. RepoType'
    BY <1>5, <2>1 DEF CreateBranch, TypeInv, RepoType, Typed
  <2> QED
    BY <1>5, <2>1, <2>2, GotoIs, StepKeepsTypes DEF CreateBranch, Phase
<1>6. CASE BranchExists
  <2>1. cmd # Idle /\ cmd.pc = "create" /\ cmd.branch \in Branch
    BY <1>6 DEF BranchExists, Running, TypeInv, CommandType
  <2>2. RepoType'
    BY <1>6 DEF BranchExists, repo, TypeInv, RepoType, Typed
  <2>3. cmd' = [cmd EXCEPT !.pc = "switch"] /\ result' = "exists"
    BY <1>6 DEF BranchExists
  <2>4. /\ cmd'.pc = "switch" /\ cmd'.branch = cmd.branch
        /\ cmd' = [cmd EXCEPT !.pc = cmd'.pc, !.branch = cmd'.branch]
    BY <2>1, <2>3, CommandIs
  <2> QED
    BY <1>6, <2>1, <2>2, <2>3, <2>4, StepKeepsTypes DEF BranchExists, Phase
<1>7. CASE SetReference
  <2>1. cmd # Idle /\ cmd.pc = "setref" /\ cmd.branch \in Branch
    BY <1>7 DEF SetReference, Running, TypeInv, CommandType
  <2>2. tracking[TrackedName] \in Tip /\ local' = With(local, cmd.branch, tracking[TrackedName])
    BY <1>7 DEF SetReference, TypeInv, RepoType, Typed, Has
  <2>3. Typed(local', Branch)
    BY <2>1, <2>2, WithTyped DEF TypeInv, RepoType
  <2>4. RepoType'
    BY <1>7, <2>3 DEF SetReference, TypeInv, RepoType, Typed
  <2> QED
    BY <1>7, <2>1, <2>4, GotoIs, StepKeepsTypes DEF SetReference, Phase
<1>8. CASE NoTrackingBranch
  <2>1. RepoType'
    BY <1>8 DEF NoTrackingBranch, repo, TypeInv, RepoType, Typed
  <2> QED
    BY <1>8, <2>1, StepKeepsTypes DEF NoTrackingBranch, Running
<1>9. CASE Switch
  <2>1. cmd # Idle /\ cmd.pc = "switch" /\ cmd.branch \in Branch \cup {Detached} /\ Step
    BY <1>9 DEF Switch, Running, TypeInv, CommandType
  <2>2. RepoType' /\ \E r \in {"ok", "exists", "failed"} : Ends(r)
    <3>1. CASE Has(RefToCheckout, NameToCheckout)
      <4>1. /\ Checkout(cmd.branch, RefToCheckout[NameToCheckout])
            /\ RefToCheckout[NameToCheckout] \in Tip
        BY <1>9, <3>1 DEF Switch, RefToCheckout, TypeInv, RepoType, Typed, Has
      <4>2. RepoType'
        BY <2>1, <4>1 DEF Checkout, TypeInv, RepoType, Typed
      <4> QED
        BY <1>9, <3>1, <4>2 DEF Switch
    <3>2. CASE ~Has(RefToCheckout, NameToCheckout)
      BY <1>9, <3>2 DEF Switch, repo, TypeInv, RepoType, Typed
    <3> QED
      BY <3>1, <3>2
  <2> QED
    BY <2>1, <2>2, StepKeepsTypes
<1>10. CASE FetchRefused
  <2>1. RepoType'
    BY <1>10 DEF FetchRefused, repo, TypeInv, RepoType, Typed
  <2> QED
    BY <1>10, <2>1, StepKeepsTypes DEF FetchRefused, Running
<1> QED
  BY <1>1, <1>2, <1>3, <1>4, <1>5, <1>6, <1>7, <1>8, <1>9, <1>10 DEF PullCheckout

LEMMA CleanTyped ==
    ASSUME TypeInv, PullClean
    PROVE  TypeInv'
<1>1. CASE StartClean
  BY <1>1, StartStep DEF StartClean
<1>2. CASE FindBranch
  <2>1. RepoType'
    BY <1>2 DEF FindBranch, repo, TypeInv, RepoType, Typed
  <2>2. PICK b \in Branch : Chooses(b, "leave")
    <3>1. /\ \A b \in TeaFindBranchBySha(cmd.pr.sha) : b \in Branch
          /\ \A b \in TeaFindBranchByName(Head) : b \in Branch
      BY FoundIsLocal DEF TypeInv
    <3> QED
      BY <1>2, <3>1 DEF FindBranch, Chooses
  <2>3. cmd # Idle /\ Step /\ "leave" \in Phase
    BY <1>2 DEF FindBranch, Running, Phase
  <2>4. /\ cmd'.pc = "leave" /\ cmd'.branch = b
        /\ cmd' = [cmd EXCEPT !.pc = cmd'.pc, !.branch = cmd'.branch]
        /\ result' \in {"none", "exists"}
    BY <2>2, <2>3, ChosenIs
  <2> QED
    BY <2>1, <2>2, <2>3, <2>4, StepKeepsTypes
<1>3. CASE NothingToClean
  <2>1. RepoType'
    BY <1>3 DEF NothingToClean, repo, TypeInv, RepoType, Typed
  <2> QED
    BY <1>3, <2>1, StepKeepsTypes DEF NothingToClean, Running
<1>4. CASE LeaveBranch
  <2>1. cmd # Idle /\ cmd.pc = "leave" /\ cmd.branch \in Branch /\ Step
    BY <1>4 DEF LeaveBranch, Running, TypeInv, CommandType
  <2>2. RepoType'
    <3>1. CASE UNCHANGED repo
      BY <3>1 DEF repo, TypeInv, RepoType, Typed
    <3>2. CASE Has(local, Default) /\ Checkout(Default, local[Default])
      BY <3>2 DEF Checkout, TypeInv, RepoType, Typed, Has, Branch
    <3> QED
      BY <1>4, <3>1, <3>2 DEF LeaveBranch
  <2>3. Goto("unconfig") \/ Ends("failed")
    BY <1>4 DEF LeaveBranch
  <2> QED
    BY <2>1, <2>2, <2>3, GotoIs, StepKeepsTypes DEF Phase
<1>5. CASE DeleteBranch
  <2>1. cmd # Idle /\ cmd.pc = "unconfig" /\ cmd.branch \in Branch
    BY <1>5 DEF DeleteBranch, Running, TypeInv, CommandType
  <2>2. RepoType'
    BY <1>5, <2>1 DEF DeleteBranch, TypeInv, RepoType, Typed
  <2> QED
    BY <1>5, <2>1, <2>2, GotoIs, StepKeepsTypes DEF DeleteBranch, Phase
<1>6. CASE RemoveReference
  <2>1. cmd # Idle /\ cmd.pc = "delete" /\ cmd.branch \in Branch
    BY <1>6 DEF RemoveReference, Running, TypeInv, CommandType
  <2>2. Typed(local', Branch)
    BY <1>6, MinusTyped DEF RemoveReference, TypeInv, RepoType
  <2>3. RepoType'
    BY <1>6, <2>2 DEF RemoveReference, TypeInv, RepoType, Typed
  <2> QED
    BY <1>6, <2>1, <2>3, GotoIs, StepKeepsTypes DEF RemoveReference, Phase
<1>7. CASE TeaDeleteRemoteBranch
  <2>1. ServerType' /\ Typed(tracking', {Default, Head, Pull})
    <3>1. CASE Has(server.branches, Head)
      <4>1. /\ server' = [server EXCEPT !.branches = Minus(@, Head)]
            /\ tracking' = Minus(tracking, Head)
        BY <1>7, <3>1 DEF TeaDeleteRemoteBranch
      <4>2. /\ server'.branches = Minus(server.branches, Head)
            /\ server'.pull = server.pull /\ server'.open = server.open /\ server'.merged = server.merged
            /\ server' = [branches |-> server'.branches, pull |-> server'.pull,
                          open |-> server'.open, merged |-> server'.merged]
        BY <4>1 DEF TypeInv, ServerType
      <4>3. ServerType'
        BY <4>2, MinusShrinks DEF TypeInv, ServerType
      <4> QED
        BY <4>1, <4>3, MinusTyped DEF TypeInv, RepoType
    <3>2. CASE ~Has(server.branches, Head)
      BY <1>7, <3>2 DEF TeaDeleteRemoteBranch, TypeInv, ServerType, RepoType, Typed, Has
    <3> QED
      BY <3>1, <3>2
  <2>2. RepoType'
    BY <1>7, <2>1 DEF TeaDeleteRemoteBranch, TypeInv, RepoType, Typed
  <2>3. CommandType' /\ ResultType' /\ CounterType'
    BY <1>7 DEF TeaDeleteRemoteBranch, Ends, TypeInv, CommandType, ResultType, CounterType, counters
  <2> QED
    BY <2>1, <2>2, <2>3 DEF TypeInv
<1> QED
  BY <1>1, <1>2, <1>3, <1>4, <1>5, <1>6, <1>7 DEF PullClean

LEMMA FailureTyped ==
    ASSUME TypeInv, StepFails
    PROVE  TypeInv'
<1>1. ServerType' /\ RepoType'
  BY DEF StepFails, repo, TypeInv, ServerType, RepoType, Typed, Has
<1>2. CommandType' /\ ResultType'
  BY DEF StepFails, Ends, CommandType, ResultType
<1>3. CounterType'
  BY BoundsAssumption DEF StepFails, TypeInv, CounterType
<1> QED
  BY <1>1, <1>2, <1>3 DEF TypeInv

LEMMA EnvironmentIs ==
    Environment =>
        ServerSteps \/ UserSteps
  BY DEF Environment, ServerSteps, UserSteps, UserMakes

LEMMA StepTyped == TypeInv /\ [Next]_vars => TypeInv'
<1> SUFFICES ASSUME TypeInv, [Next]_vars PROVE TypeInv'
  OBVIOUS
<1>1. CASE UNCHANGED vars
  BY <1>1 DEF vars, repo, counters, TypeInv, ServerType, RepoType, CommandType, CounterType,
              ResultType, Typed, Has
<1>2. CASE Environment
  <2>1. ASSUME ServerType', RepoType', CounterType', UNCHANGED <<cmd, result>>
        PROVE  TypeInv'
    BY <2>1 DEF TypeInv, CommandType, ResultType
  <2>2. CASE UserSteps
    BY <2>1, <2>2, UserStep DEF TypeInv
  <2>3. CASE ServerSteps
    <3>1. ServerType' /\ CounterType' /\ UNCHANGED <<repo, cmd, result>>
      BY <2>3, ServerStep DEF TypeInv
    <3>2. RepoType'
      BY <3>1 DEF repo, TypeInv, RepoType, Typed
    <3> QED
      BY <2>1, <3>1, <3>2
  <2> QED
    BY <1>2, <2>2, <2>3, EnvironmentIs
<1> QED
  BY <1>1, <1>2, CheckoutTyped, CleanTyped, FailureTyped DEF Next

LEMMA TypeInvariance == Spec => []TypeInv
  BY InitTyped, StepTyped, PTL DEF Spec

\* Every variable has its type: the branches there are, a command and the
\* branch it has chosen, and the counters within their bounds.
THEOREM PullBranchesTypeCorrect == Spec => []TypeOK
<1>1. TypeInv => TypeOK
  BY DEF TypeInv, ServerType, RepoType, CommandType, CounterType, ResultType, Typed, TypeOK
<1> QED
  BY <1>1, TypeInvariance, PTL

----------------------------------------------------------------------------
(* The commits.                                                            *)

\* The tips there are.
IsTip(S) ==
    \/ \E b \in DOMAIN local : S = local[b]
    \/ \E b \in DOMAIN tracking : S = tracking[b]
    \/ \E b \in DOMAIN server.branches : S = server.branches[b]
    \/ S = work \/ S = server.pull
    \/ cmd # Idle /\ S = cmd.pr.sha

\* No commit is in a branch, or in what a command has read, before it is made.
CommitsInv == \A S \in Tip : IsTip(S) => \A c \in S : c <= commits

\* The steps that make, move or remove a branch are few.
Quiet ==
    /\ UNCHANGED <<local, tracking, commits>>
    /\ server'.branches = server.branches /\ server'.pull = server.pull
    /\ \/ work' = work
       \/ \E b \in DOMAIN local : work' = local[b]
       \/ \E b \in DOMAIN tracking : work' = tracking[b]
    /\ cmd' # Idle => cmd # Idle /\ cmd'.pr = cmd.pr

LEMMA QuietOrNot ==
    ASSUME TypeInv, [Next]_vars
    PROVE  \/ Quiet
           \/ AuthorPushes \/ AuthorForcePushes \/ Merge \/ ReopenPull \/ DeleteOnServer
           \/ UserMakes
           \/ StartCheckout \/ Fetch \/ SetReference
           \/ StartClean \/ RemoveReference \/ TeaDeleteRemoteBranch
<1>1. CASE UNCHANGED vars
  BY <1>1 DEF vars, repo, counters, Quiet
<1>2. CASE ClosePull
  BY <1>2 DEF ClosePull, OnServer, NoCommit, repo, Quiet, TypeInv, ServerType
<1>3. ASSUME NEW b \in Branch, UserSwitches(b) PROVE Quiet
  BY <1>3 DEF UserSwitches, AtWork, NoCommit, Quiet, Has
<1>4. CASE GetOrCreateRemote \/ CreateBranch \/ DeleteBranch
  <2>1. PICK f \in Phase : /\ cmd # Idle /\ Goto(f)
                           /\ UNCHANGED <<local, tracking, work, server, commits>>
    BY <1>4 DEF GetOrCreateRemote, CreateBranch, DeleteBranch, Running, Step, counters, Phase
  <2> QED
    BY <2>1, GotoIs DEF Quiet
<1>5. CASE ChooseRef \/ FindBranch
  <2>1. PICK f \in Phase, b \in Branch \cup {NoBranch, Detached} :
          /\ cmd # Idle /\ Chooses(b, f) /\ UNCHANGED <<local, tracking, work, server, commits>>
    <3>1. /\ \A b \in TeaFindBranchBySha(cmd.pr.sha) : b \in Branch
          /\ \A b \in TeaFindBranchByName(Head) : b \in Branch
          /\ CreatedName \in Branch
      BY FoundIsLocal DEF TypeInv, CreatedName, Branch
    <3> QED
      BY <1>5, <3>1 DEF ChooseRef, FindBranch, Running, Step, repo, counters, Chooses, Phase
  <2> QED
    BY <2>1, ChosenIs DEF Quiet
<1>6. CASE BranchExists
  <2>1. /\ cmd # Idle /\ cmd' = [cmd EXCEPT !.pc = "switch"]
        /\ UNCHANGED <<local, tracking, work, server, commits>>
    BY <1>6 DEF BranchExists, Running, Step, repo, counters
  <2>2. cmd'.pr = cmd.pr
    BY <2>1, CommandIs
  <2> QED
    BY <2>1, <2>2 DEF Quiet
<1>7. CASE NoTrackingBranch \/ FetchRefused \/ NothingToClean \/ StepFails
  BY <1>7 DEF NoTrackingBranch, FetchRefused, NothingToClean, StepFails, Ends, Step, repo, counters, Quiet
<1>8. CASE Switch
  <2>1. /\ cmd' = Idle /\ UNCHANGED <<local, tracking, server, commits>>
        /\ \/ work' = work
           \/ \E b \in DOMAIN local : work' = local[b]
           \/ \E b \in DOMAIN tracking : work' = tracking[b]
    BY <1>8 DEF Switch, Checkout, RefToCheckout, Has, Ends, Step, repo, counters
  <2> QED
    BY <2>1 DEF Quiet
<1>9. CASE LeaveBranch
  <2>1. /\ cmd # Idle /\ UNCHANGED <<local, tracking, server, commits>>
        /\ cmd' = Idle \/ Goto("unconfig")
        /\ work' = work \/ \E b \in DOMAIN local : work' = local[b]
    BY <1>9 DEF LeaveBranch, Running, Checkout, Has, Ends, Step, repo, counters
  <2> QED
    BY <2>1, GotoIs DEF Quiet, Phase
<1> QED
  BY <1>1, <1>2, <1>3, <1>4, <1>5, <1>6, <1>7, <1>8, <1>9, EnvironmentIs
     DEF Next, PullCheckout, PullClean, UserSteps, ServerSteps

LEMMA TipsAreTyped ==
    ASSUME TypeInv, NEW S, IsTip(S)
    PROVE  S \in Tip
<1>1. cmd # Idle => cmd.pr.sha \in Tip
  BY CommandIs
<1> QED
  BY <1>1 DEF IsTip, TypeInv, ServerType, RepoType, Typed

\* What the effects of a step are, in the terms of the functions.
LEMMA PushIs ==
    ASSUME TypeInv, AuthorPushes \/ AuthorForcePushes
    PROVE  /\ \E old \in {server.branches[Head], server.branches[Default]} :
                /\ server'.branches = With(server.branches, Head, old \cup {commits + 1})
                /\ server'.pull \in {server.pull, old \cup {commits + 1}}
           /\ Has(server.branches, Head) /\ Has(server.branches, Default) /\ commits' = commits + 1
           /\ UNCHANGED <<local, tracking, work, cmd>>
<1>1. PICK old \in {server.branches[Head], server.branches[Default]} :
        /\ Has(server.branches, Head) /\ FreshCommit
        /\ OnServer(Pushed(old \cup {commits + 1}))
  BY DEF AuthorPushes, AuthorForcePushes
<1> QED
  BY <1>1 DEF OnServer, Pushed, FreshCommit, repo, TypeInv, ServerType

LEMMA MergeIs ==
    ASSUME TypeInv, Merge
    PROVE  /\ \/ /\ commits' = commits
                 /\ server'.branches = With(server.branches, Default, server.branches[Head])
              \/ /\ commits' = commits + 1
                 /\ server'.branches = With(server.branches, Default,
                        server.branches[Default] \cup server.branches[Head] \cup {commits + 1})
           /\ server'.pull = server.pull
           /\ Has(server.branches, Head) /\ Has(server.branches, Default)
           /\ UNCHANGED <<local, tracking, work, cmd>>
  BY DEF Merge, OnServer, FreshCommit, NoCommit, repo, TypeInv, ServerType

LEMMA DeleteIs ==
    ASSUME TypeInv, DeleteOnServer \/ TeaDeleteRemoteBranch
    PROVE  /\ server'.branches = Minus(server.branches, Head) \/ server'.branches = server.branches
           /\ tracking' = Minus(tracking, Head) \/ tracking' = tracking
           /\ server'.pull = server.pull
           /\ UNCHANGED <<local, work, commits>> /\ (cmd' = cmd \/ cmd' = Idle)
<1>1. CASE DeleteOnServer
  BY <1>1 DEF DeleteOnServer, OnServer, NoCommit, repo, TypeInv, ServerType
<1>2. CASE TeaDeleteRemoteBranch
  BY <1>2 DEF TeaDeleteRemoteBranch, Ends, counters, TypeInv, ServerType
<1> QED
  BY <1>1, <1>2

LEMMA UserIs ==
    ASSUME TypeInv, UserMakes
    PROVE  /\ cmd = Idle /\ cmd' = cmd
           /\ \/ /\ server' = server /\ tracking' = tracking /\ commits' = commits + 1
                 /\ \E A, B : /\ IsTip(A) /\ IsTip(B) /\ work' = A \cup B \cup {commits + 1}
                              /\ local' = With(local, head, A \cup B \cup {commits + 1})
              \/ /\ server' = server /\ commits' = commits
                 /\ tracking' = tracking \/ tracking' = Overlaid(tracking, server.branches)
                 /\ \E b, A : IsTip(A) /\ work' = A /\ local' = With(local, b, A)
              \/ /\ UNCHANGED <<local, work, commits>>
                 /\ \E b, A : /\ IsTip(A) /\ tracking' = With(tracking, b, A)
                              /\ server'.branches = With(server.branches, b, A)
                              /\ server'.pull \in {server.pull, A}
<1>0. Has(local, head) => IsTip(local[head])
  BY DEF IsTip, Has
<1>1. CASE UserCommits
  <2>1. local[head] \cup local[head] \cup {commits + 1} = local[head] \cup {commits + 1}
    OBVIOUS
  <2> QED
    BY <1>0, <1>1, <2>1 DEF UserCommits, AtWork, FreshCommit, HeadTo
<1>2. CASE UserPulls
  <2>1. IsTip(server.branches[head])
    BY <1>2 DEF UserPulls, IsTip, Has
  <2> QED
    BY <1>2, <2>1 DEF UserPulls, AtWork, NoCommit, HeadTo, Fetched, Overlaid
<1>3. CASE \E b \in {Head, Pull} : UserCreatesBranch(b)
  BY <1>0, <1>3 DEF UserCreatesBranch, AtWork, NoCommit
<1>4. ASSUME NEW tip, IsTip(tip), UserMerges(tip)
      PROVE  /\ cmd = Idle /\ cmd' = cmd /\ server' = server /\ tracking' = tracking
             /\ \/ /\ commits' = commits + 1
                   /\ \E A, B : /\ IsTip(A) /\ IsTip(B) /\ work' = A \cup B \cup {commits + 1}
                                /\ local' = With(local, head, A \cup B \cup {commits + 1})
                \/ /\ commits' = commits
                   /\ \E b, A : IsTip(A) /\ work' = A /\ local' = With(local, b, A)
  BY <1>0, <1>4 DEF UserMerges, AtWork, NoCommit, FreshCommit, HeadTo
<1>5. CASE \/ \E b \in DOMAIN local : UserMerges(local[b])
           \/ \E b \in DOMAIN tracking : UserMerges(tracking[b])
  <2>1. PICK tip : IsTip(tip) /\ UserMerges(tip)
    BY <1>5 DEF IsTip
  <2> QED
    BY <1>4, <2>1
<1>6. CASE UserPushes
  <2>1. /\ Has(local, head) /\ UNCHANGED <<local, work, commits, cmd>> /\ cmd = Idle
        /\ tracking' = With(tracking, head, local[head])
        /\ head \in {Default, Head}
        /\ server' = IF head = Head THEN Pushed(local[head])
                     ELSE [server EXCEPT !.branches = With(@, Default, local[head])]
    BY <1>6 DEF UserPushes, AtWork, NoCommit
  <2>2. server'.branches = With(server.branches, head, local[head])
        /\ server'.pull \in {server.pull, local[head]}
    BY <2>1 DEF Pushed, TypeInv, ServerType
  <2> QED
    BY <1>0, <2>1, <2>2
<1> QED
  BY <1>1, <1>2, <1>3, <1>5, <1>6 DEF UserMakes

\* The steps of a command that are not quiet.
LEMMA CommandStepIs ==
    ASSUME TypeInv, StartCheckout \/ StartClean \/ Fetch \/ SetReference \/ RemoveReference
    PROVE  /\ server' = server /\ work' = work /\ commits' = commits
           /\ \/ local' = local
              \/ \E b \in Branch, t \in DOMAIN tracking :
                    local' = With(local, b, tracking[t])
              \/ /\ cmd # Idle /\ cmd.op = "clean" /\ cmd.pc = "delete"
                 /\ local' = Minus(local, cmd.branch)
           /\ \/ tracking' = tracking
              \/ tracking' = With(tracking, Pull, server.pull)
              \/ tracking' = Overlaid(tracking, server.branches)
           /\ cmd' # Idle => \/ cmd # Idle /\ cmd'.pr = cmd.pr
                             \/ cmd'.pr = GetPullRequest
<1>1. CASE StartCheckout \/ StartClean
  <2>1. PICK op \in {"checkout", "clean"}, first \in {"remote", "match"}, flag \in BOOLEAN :
           Start(op, first, flag)
    BY <1>1 DEF StartCheckout, StartClean
  <2> QED
    BY <2>1, StartStep DEF Start, repo
<1>2. CASE Fetch
  BY <1>2, GotoIs DEF Fetch, Fetched, Overlaid, Running, Step, counters, Phase
<1>3. CASE SetReference
  <2>1. cmd.branch \in Branch /\ TrackedName \in DOMAIN tracking /\ cmd # Idle
    BY <1>3 DEF SetReference, Running, TypeInv, CommandType, Has
  <2> QED
    BY <1>3, <2>1, GotoIs DEF SetReference, Step, counters, Phase
<1>4. CASE RemoveReference
  BY <1>4, GotoIs DEF RemoveReference, Running, Ends, Step, counters, Phase
<1> QED
  BY <1>1, <1>2, <1>3, <1>4

\* A step makes no tip, or the one commit that it adds to tips there are.
Made(S) == /\ commits' = commits + 1
           /\ \E A, B \in Tip : IsTip(A) /\ IsTip(B) /\ S = A \cup B \cup {commits + 1}

LEMMA TipsAreMade ==
    ASSUME TypeInv, [Next]_vars, NEW S, IsTip(S)'
    PROVE  IsTip(S) \/ Made(S)
<1>1. ASSUME NEW A, IsTip(A), commits' = commits + 1, S = A \cup {commits + 1} PROVE Made(S)
  BY <1>1, TipsAreTyped DEF Made
<1>2. CASE Quiet
  BY <1>2 DEF Quiet, IsTip
<1>3. CASE AuthorPushes \/ AuthorForcePushes
  <2>1. IsTip(server.branches[Head]) /\ IsTip(server.branches[Default])
    BY <1>3, PushIs DEF IsTip, Has
  <2>2. PICK old \in {server.branches[Head], server.branches[Default]} :
          /\ server'.branches = With(server.branches, Head, old \cup {commits + 1})
          /\ server'.pull \in {server.pull, old \cup {commits + 1}}
    BY <1>3, PushIs
  <2>3. IsTip(S) \/ S = old \cup {commits + 1}
    BY <1>3, <2>2, PushIs DEF IsTip, With
  <2> QED
    BY <1>1, <1>3, <2>1, <2>3, PushIs
<1>4. CASE Merge
  <2>1. IsTip(server.branches[Head]) /\ IsTip(server.branches[Default])
    BY <1>4, MergeIs DEF IsTip, Has
  <2>2. IsTip(S) \/ S = server.branches[Head]
        \/ (commits' = commits + 1
            /\ S = server.branches[Default] \cup server.branches[Head] \cup {commits + 1})
    BY <1>4, MergeIs DEF IsTip, With, Minus, Restrict, Overlaid, Has
  <2> QED
    BY <2>1, <2>2, TipsAreTyped DEF Made
<1>5. CASE DeleteOnServer \/ TeaDeleteRemoteBranch
  BY <1>5, DeleteIs DEF IsTip, With, Minus, Restrict, Overlaid, Has
<1>6. CASE ReopenPull
  BY <1>6 DEF ReopenPull, OnServer, repo, TypeInv, ServerType, IsTip, Has
<1>7. CASE UserMakes
  <2>0. cmd' = Idle
    BY <1>7, UserIs
  <2>1. ASSUME server' = server, tracking' = tracking, commits' = commits + 1,
               NEW A, NEW B, IsTip(A), IsTip(B), work' = A \cup B \cup {commits + 1},
               local' = With(local, head, A \cup B \cup {commits + 1})
        PROVE  IsTip(S) \/ Made(S)
    <3>1. IsTip(S) \/ S = A \cup B \cup {commits + 1}
      BY <2>0, <2>1 DEF IsTip, With
    <3> QED
      BY <2>1, <3>1, TipsAreTyped DEF Made
  <2>2. ASSUME server' = server, NEW b, NEW A, IsTip(A), work' = A, local' = With(local, b, A),
               tracking' = tracking \/ tracking' = Overlaid(tracking, server.branches)
        PROVE  IsTip(S)
    <3>1. \A t \in DOMAIN tracking' : IsTip(tracking'[t])
      BY <2>2 DEF IsTip, Overlaid, Has
    <3>2. \A t \in DOMAIN local' : IsTip(local'[t])
      BY <2>2 DEF IsTip, With
    <3>3. \/ \E t \in DOMAIN local' : S = local'[t]
          \/ \E t \in DOMAIN tracking' : S = tracking'[t]
          \/ \E t \in DOMAIN server.branches : S = server.branches[t]
          \/ S = A \/ S = server.pull
      BY <2>0, <2>2 DEF IsTip
    <3> QED
      BY <2>2, <3>1, <3>2, <3>3 DEF IsTip
  <2>3. ASSUME UNCHANGED <<local, work>>, NEW b, NEW A, IsTip(A), tracking' = With(tracking, b, A),
               server'.branches = With(server.branches, b, A), server'.pull \in {server.pull, A}
        PROVE  IsTip(S)
    <3>1. \A t \in DOMAIN tracking' : IsTip(tracking'[t])
      BY <2>3 DEF IsTip, With
    <3>2. \A t \in DOMAIN server'.branches : IsTip(server'.branches[t])
      BY <2>3 DEF IsTip, With
    <3>3. \/ \E t \in DOMAIN local : S = local[t]
          \/ \E t \in DOMAIN tracking' : S = tracking'[t]
          \/ \E t \in DOMAIN server'.branches : S = server'.branches[t]
          \/ S = work \/ S \in {server.pull, A}
      BY <2>0, <2>3 DEF IsTip
    <3> QED
      BY <2>3, <3>1, <3>2, <3>3 DEF IsTip
  <2> QED
    BY <1>7, <2>1, <2>2, <2>3, UserIs
<1>8. CASE StartCheckout \/ StartClean \/ Fetch \/ SetReference \/ RemoveReference
  <2>1. IsTip(GetPullRequest.sha)
    BY AnswerTyped DEF TypeInv, IsTip, Has
  <2>2. \A b \in DOMAIN local' : IsTip(local'[b])
    BY <1>8, CommandStepIs DEF IsTip, With, Minus, Restrict, Overlaid, Has
  <2>3. \A b \in DOMAIN tracking' : IsTip(tracking'[b])
    BY <1>8, CommandStepIs DEF IsTip, With, Minus, Restrict, Overlaid, Has
  <2> QED
    BY <1>8, <2>1, <2>2, <2>3, CommandStepIs DEF IsTip
<1> QED
  BY <1>2, <1>3, <1>4, <1>5, <1>6, <1>7, <1>8, QuietOrNot

LEMMA StepKeepsCommits ==
    ASSUME TypeInv, CommitsInv, [Next]_vars
    PROVE  CommitsInv'
<1>1. commits \in Nat /\ (commits' = commits \/ commits' = commits + 1)
  <2>1. commits \in Nat
    BY DEF TypeInv, CounterType
  <2>2. commits' = commits \/ commits' = commits + 1
    BY QuietOrNot, PushIs, MergeIs, DeleteIs, UserIs, CommandStepIs
       DEF Quiet, ReopenPull, NoCommit
  <2> QED
    BY <2>1, <2>2
<1> SUFFICES ASSUME NEW S \in Tip, IsTip(S)', NEW c \in S
             PROVE  c <= commits'
  BY DEF CommitsInv, Tip, Commit
<1>2. c \in Nat
  BY DEF Tip, Commit
<1>3. CASE IsTip(S)
  <2>1. c <= commits
    BY <1>3 DEF CommitsInv
  <2> QED
    BY <1>1, <1>2, <2>1
<1>4. CASE Made(S)
  <2>1. c <= commits \/ c = commits + 1
    BY <1>4 DEF Made, CommitsInv
  <2>2. commits' = commits + 1
    BY <1>4 DEF Made
  <2> QED
    BY <1>1, <1>2, <2>1, <2>2
<1> QED
  BY <1>3, <1>4, TipsAreMade

LEMMA CommitsInvariance == Spec => []CommitsInv
<1>1. Init => CommitsInv
  <2> SUFFICES ASSUME Init PROVE CommitsInv
    OBVIOUS
  <2>1. /\ local = Singleton(Default, {1}) /\ tracking = Singleton(Default, {1})
        /\ \/ server.branches = With(Singleton(Default, {1}), Head, {1, 2})
           \/ server.branches = Singleton(Default, {1})
        /\ server.pull = {1, 2} /\ work = {1} /\ cmd = Idle /\ commits = 2
    BY DEF Init
  <2>2. \A S : IsTip(S) => S = {1} \/ S = {1, 2}
    BY <2>1 DEF IsTip, With, Singleton
  <2> QED
    BY <2>1, <2>2 DEF CommitsInv
<1> QED
  BY <1>1, StepKeepsCommits, TypeInvariance, PTL DEF Spec

----------------------------------------------------------------------------
(* What a command has read and found.                                      *)

\* The branch of the pull request was there when the command started.  It is
\* not any more, or lacks a commit it had, and so does the default branch.
Lost ==
    ~cmd.pr.deleted /\ (Has(server.branches, Head) =>
        \E c \in cmd.pr.sha : c \notin server.branches[Head] /\ c \notin server.branches[Default])

\* The commits the command has been told of are still at the server.
AnswerInv ==
    cmd # Idle =>
        /\ cmd.pr.deleted => ~Has(server.branches, Head) /\ cmd.pr.sha \subseteq server.pull
        /\ ~cmd.pr.deleted => Lost \/ cmd.pr.sha \subseteq server.branches[Head]

\* After the fetch the tracking branch has them; the branch that is found or
\* created is at the sha that was read or at the tracking branch.
Contains(f, b) == Has(f, b) /\ cmd.pr.sha \subseteq f[b]
IsTracked(tip) == Has(tracking, TrackedName) /\ tip = tracking[TrackedName]
CheckoutInv ==
    cmd # Idle /\ cmd.op = "checkout" =>
        /\ cmd.pc \in {"find", "create", "setref", "switch"} => Lost \/ Contains(tracking, TrackedName)
        /\ cmd.pc \in {"create", "setref"} => cmd.branch = CreatedName
        /\ cmd.pc = "switch" /\ cmd.branch # Detached /\ result = "none" =>
              /\ Has(local, cmd.branch)
              /\ local[cmd.branch] = cmd.pr.sha \/ IsTracked(local[cmd.branch])

\* The branch to delete is there until it is deleted, and HEAD has left it,
\* unless it is the default branch.  Without --ignore-sha its commits are those
\* of a tracking branch.
CleanInv ==
    cmd # Idle /\ cmd.op = "clean" /\ cmd.pc \in {"leave", "unconfig", "delete"} =>
        /\ Has(local, cmd.branch)
        /\ ~cmd.flag => /\ local[cmd.branch] = cmd.pr.sha
                        /\ \E t \in DOMAIN tracking : tracking[t] = cmd.pr.sha
        /\ cmd.pc # "leave" => head # cmd.branch \/ head = Default

HeadInv == head \in DOMAIN local \cup {Detached, Default}

PullInv == AnswerInv /\ CheckoutInv /\ CleanInv /\ HeadInv

----------------------------------------------------------------------------
(* The steps keep what a command has read and found.                       *)

LEMMA InitPull == Init => PullInv
  BY DEF Init, PullInv, AnswerInv, CheckoutInv, CleanInv, HeadInv, Singleton

\* What is lost stays lost while a command runs: the server makes no commit
\* that the command has read of.
LEMMA ServerKeepsAnswer ==
    ASSUME TypeInv, CommitsInv, AnswerInv, ServerSteps
    PROVE  AnswerInv' /\ (cmd # Idle /\ Lost => Lost')
<1>1. Goes /\ cmd' = cmd /\ (~Has(server.branches, Head) => server'.pull = server.pull)
  BY ServerStep DEF TypeInv
<1> SUFFICES ASSUME cmd # Idle
             PROVE  AnswerInv' /\ (Lost => Lost')
  BY <1>1 DEF AnswerInv
<1>2. \A c \in cmd.pr.sha : c # commits + 1
  <2>1. cmd.pr.sha \in Tip /\ IsTip(cmd.pr.sha) /\ commits \in Nat
    <3>1. IsTip(cmd.pr.sha)
      BY DEF IsTip
    <3> QED
      BY <3>1, TipsAreTyped DEF TypeInv, CounterType
  <2>2. ASSUME NEW c \in cmd.pr.sha PROVE c # commits + 1
    <3>1. c <= commits /\ c \in Nat
      BY <2>1 DEF CommitsInv, Tip, Commit
    <3> QED
      BY <2>1, <3>1
  <2> QED
    BY <2>2
<1>3. Lost => Lost'
  <2> SUFFICES ASSUME Lost, Has(server'.branches, Head)
               PROVE  \E c \in cmd.pr.sha : c \notin server'.branches[Head] /\ c \notin server'.branches[Default]
    BY <1>1 DEF Lost
  <2>1. PICK c \in cmd.pr.sha : c \notin server.branches[Head] /\ c \notin server.branches[Default]
    BY <1>1 DEF Goes, Lost
  <2>2. c # commits + 1
    BY <1>2
  <2> QED
    BY <1>1, <2>1, <2>2 DEF Goes
<1>4. ASSUME ~cmd.pr.deleted, ~Lost
      PROVE  Lost' \/ cmd.pr.sha \subseteq server'.branches[Head]
  <2>1. cmd.pr.sha \subseteq server.branches[Head]
    BY <1>4 DEF AnswerInv
  <2>2. CASE ~Has(server'.branches, Head)
    BY <1>1, <1>4, <2>2 DEF Lost
  <2>3. CASE Has(server'.branches, Head) /\ server.branches[Head] \subseteq server'.branches[Head]
    BY <2>1, <2>3
  <2>4. CASE /\ server'.branches[Head] = server.branches[Default] \cup {commits + 1}
             /\ server'.branches[Default] = server.branches[Default]
    <3>1. CASE cmd.pr.sha \subseteq server.branches[Default]
      BY <2>4, <3>1
    <3>2. CASE ~(cmd.pr.sha \subseteq server.branches[Default])
      <4>1. PICK c \in cmd.pr.sha : c \notin server.branches[Default]
        BY <3>2
      <4>2. c # commits + 1
        BY <1>2
      <4> QED
        BY <1>1, <1>4, <2>4, <4>1, <4>2 DEF Lost
    <3> QED
      BY <3>1, <3>2
  <2> QED
    BY <1>1, <2>2, <2>3, <2>4 DEF Goes
<1>5. cmd.pr.deleted => ~Has(server'.branches, Head) /\ cmd.pr.sha \subseteq server'.pull
  BY <1>1 DEF AnswerInv, Goes
<1> QED
  BY <1>1, <1>3, <1>4, <1>5 DEF AnswerInv

LEMMA ServerKeepsPull ==
    ASSUME TypeInv, CommitsInv, PullInv, ServerSteps
    PROVE  PullInv'
<1>1. AnswerInv' /\ (cmd # Idle /\ Lost => Lost') /\ UNCHANGED <<repo, cmd, result>>
  BY ServerKeepsAnswer, ServerStep DEF TypeInv, PullInv
<1>2. UNCHANGED <<local, tracking, head, cmd, result>>
  BY <1>1 DEF repo
<1>3. /\ TrackedName' = TrackedName /\ CreatedName' = CreatedName
      /\ \A tip : IsTracked(tip)' = IsTracked(tip)
      /\ Contains(tracking, TrackedName)' = Contains(tracking, TrackedName)
  BY <1>2 DEF TrackedName, CreatedName, IsTracked, Contains, Has
<1>4. CheckoutInv'
  BY <1>1, <1>2, <1>3 DEF PullInv, CheckoutInv, Has, IsTracked, TrackedName
<1>5. CleanInv' /\ HeadInv'
  BY <1>2 DEF PullInv, CleanInv, HeadInv, Has
<1> QED
  BY <1>1, <1>4, <1>5 DEF PullInv

LEMMA UserKeepsPull ==
    ASSUME TypeInv, PullInv, UserSteps
    PROVE  PullInv'
<1>1. cmd = Idle /\ cmd' = Idle
  BY UserStep DEF TypeInv
<1>2. HeadInv'
  <2>1. ASSUME NEW tip, HeadTo(tip), head' = head PROVE HeadInv'
    <3>1. DOMAIN local' = DOMAIN local \cup {head}
      BY <2>1 DEF HeadTo, With
    <3> QED
      BY <2>1, <3>1 DEF PullInv, HeadInv
  <2>2. CASE UserCommits \/ UserPulls
    BY <2>1, <2>2 DEF UserCommits, UserPulls
  <2>3. ASSUME NEW tip, UserMerges(tip) PROVE HeadInv'
    BY <2>1, <2>3 DEF UserMerges
  <2>4. CASE UserPushes
    BY <2>4 DEF UserPushes, PullInv, HeadInv
  <2>5. ASSUME NEW b \in {Head, Pull}, UserCreatesBranch(b) PROVE HeadInv'
    <3>1. head' = b /\ DOMAIN local' = DOMAIN local \cup {b}
      BY <2>5 DEF UserCreatesBranch, With
    <3> QED
      BY <3>1 DEF HeadInv
  <2>6. ASSUME NEW b \in Branch, UserSwitches(b) PROVE HeadInv'
    BY <2>6 DEF UserSwitches, HeadInv, Has
  <2> QED
    BY <2>2, <2>3, <2>4, <2>5, <2>6 DEF UserSteps, UserMakes
<1> QED
  BY <1>1, <1>2 DEF PullInv, AnswerInv, CheckoutInv, CleanInv

\* A step that ends a command leaves only HEAD to look after.
LEMMA EndKeepsPull ==
    ASSUME HeadInv', NEW r, Ends(r)
    PROVE  PullInv'
  BY DEF Ends, PullInv, AnswerInv, CheckoutInv, CleanInv

\* A command that goes on knows what it has read.
LEMMA AnswerStays ==
    ASSUME AnswerInv, cmd # Idle, cmd'.pr = cmd.pr, server' = server
    PROVE  AnswerInv' /\ Lost' = Lost
  BY DEF AnswerInv, Lost

LEMMA StartKeepsPull ==
    ASSUME TypeInv, PullInv, StartCheckout \/ StartClean
    PROVE  PullInv'
<1>1. PICK op \in {"checkout", "clean"}, first \in {"remote", "match"}, flag \in BOOLEAN :
         Start(op, first, flag)
  BY DEF StartCheckout, StartClean
<1>2. /\ cmd'.pc = first /\ cmd'.pr = GetPullRequest /\ UNCHANGED <<repo, server>>
  BY <1>1, StartStep
<1>3. AnswerInv'
  BY <1>2, AnswerTyped DEF TypeInv, AnswerInv
<1>4. HeadInv'
  BY <1>2 DEF repo, PullInv, HeadInv
<1>5. CheckoutInv' /\ CleanInv'
  BY <1>2 DEF CheckoutInv, CleanInv
<1> QED
  BY <1>3, <1>4, <1>5 DEF PullInv

LEMMA FetchKeepsPull ==
    ASSUME TypeInv, PullInv, Fetch
    PROVE  PullInv'
<1>1. /\ cmd # Idle /\ cmd.op = "checkout" /\ Goto("find") /\ Step
      /\ UNCHANGED <<local, entries, remote, head, work, server>>
  BY DEF Fetch, Running, Step
<1>2. cmd'.op = "checkout" /\ cmd'.pr = cmd.pr /\ cmd'.pc = "find"
  BY <1>1, GotoIs DEF Phase
<1>3. Lost \/ (Has(tracking', TrackedName) /\ cmd.pr.sha \subseteq tracking'[TrackedName])
  <2>1. CASE cmd.pr.deleted
    <3>1. tracking' = With(tracking, Pull, server.pull) /\ TrackedName = Pull
      BY <2>1 DEF Fetch, TrackedName
    <3>2. Has(tracking', Pull) /\ tracking'[Pull] = server.pull
      BY <3>1 DEF With, Has
    <3> QED
      BY <1>1, <2>1, <3>1, <3>2 DEF PullInv, AnswerInv
  <2>2. CASE ~cmd.pr.deleted /\ Has(server.branches, Head)
    <3>1. tracking' = Overlaid(tracking, server.branches) /\ TrackedName = Head
      BY <2>2 DEF Fetch, Fetched, Overlaid, TrackedName
    <3>2. Has(tracking', Head) /\ tracking'[Head] = server.branches[Head]
      BY <2>2, <3>1 DEF Overlaid, Has
    <3> QED
      BY <1>1, <2>2, <3>1, <3>2 DEF PullInv, AnswerInv
  <2>3. CASE ~cmd.pr.deleted /\ ~Has(server.branches, Head)
    BY <2>3 DEF Lost
  <2> QED
    BY <1>1, <2>1, <2>2, <2>3, CommandIs
<1>4. TrackedName' = TrackedName /\ Lost' = Lost
  BY <1>1, <1>2 DEF TrackedName, Lost
<1>5. CheckoutInv'
  BY <1>2, <1>3, <1>4 DEF CheckoutInv, Contains
<1>6. CleanInv' /\ HeadInv'
  BY <1>1, <1>2 DEF CleanInv, PullInv, HeadInv
<1> QED
  BY <1>1, <1>2, <1>5, <1>6, AnswerStays DEF PullInv

LEMMA CheckoutKeepsPull ==
    ASSUME TypeInv, PullInv, PullCheckout
    PROVE  PullInv'
<1>1. CASE StartCheckout
  BY <1>1, StartKeepsPull
<1>2. CASE Fetch
  BY <1>2, FetchKeepsPull
<1>3. CASE GetOrCreateRemote
  <2>1. /\ cmd # Idle /\ Goto("fetch") /\ UNCHANGED <<local, head, server>>
    BY <1>3 DEF GetOrCreateRemote, Running, Step
  <2>2. cmd'.op = cmd.op /\ cmd'.pr = cmd.pr /\ cmd'.pc = "fetch"
    BY <2>1, GotoIs DEF Phase
  <2> QED
    BY <2>1, <2>2, AnswerStays DEF PullInv, CheckoutInv, CleanInv, HeadInv
<1>4. CASE ChooseRef
  <2>1. /\ cmd # Idle /\ cmd.op = "checkout" /\ cmd.pc = "find"
        /\ UNCHANGED <<local, tracking, head, server, result>>
    BY <1>4 DEF ChooseRef, Running, Step, repo
  <2>2. PICK f \in Phase, b \in Branch \cup {NoBranch, Detached} :
          /\ Chooses(b, f)
          /\ \/ f = "create" /\ b = CreatedName
             \/ f = "switch" /\ b = Detached
             \/ f = "switch" /\ b \in DOMAIN local /\ local[b] = cmd.pr.sha
    <3>1. \A b \in TeaFindBranchBySha(cmd.pr.sha) :
            b \in Branch /\ b \in DOMAIN local /\ local[b] = cmd.pr.sha
      BY FoundIsLocal DEF TypeInv
    <3>2. CreatedName \in Branch
      BY DEF CreatedName, Branch
    <3> QED
      BY <1>4, <3>1, <3>2 DEF ChooseRef, Chooses, Phase
  <2>3. cmd'.op = "checkout" /\ cmd'.pr = cmd.pr /\ cmd'.pc = f /\ cmd'.branch = b
    BY <2>1, <2>2, ChosenIs
  <2>4. /\ TrackedName' = TrackedName /\ CreatedName' = CreatedName /\ Lost' = Lost
        /\ Contains(tracking, TrackedName)' = Contains(tracking, TrackedName)
    BY <2>1, <2>3 DEF TrackedName, CreatedName, Lost, Contains, Has
  <2>5. Lost \/ Contains(tracking, TrackedName)
    BY <2>1 DEF PullInv, CheckoutInv
  <2>6. CheckoutInv'
    BY <2>1, <2>2, <2>3, <2>4, <2>5 DEF CheckoutInv, Has
  <2> QED
    BY <2>1, <2>3, <2>6, AnswerStays DEF PullInv, CleanInv, HeadInv
<1>5. CASE CreateBranch
  <2>1. /\ cmd # Idle /\ cmd.op = "checkout" /\ cmd.pc = "create" /\ Goto("setref")
        /\ UNCHANGED <<local, tracking, head, server>>
    BY <1>5 DEF CreateBranch, Running, Step
  <2>2. cmd'.op = "checkout" /\ cmd'.pr = cmd.pr /\ cmd'.pc = "setref" /\ cmd'.branch = cmd.branch
    BY <2>1, GotoIs DEF Phase
  <2>3. /\ TrackedName' = TrackedName /\ CreatedName' = CreatedName /\ Lost' = Lost
        /\ Contains(tracking, TrackedName)' = Contains(tracking, TrackedName)
    BY <2>1, <2>2 DEF TrackedName, CreatedName, Lost, Contains, Has
  <2>4. CheckoutInv'
    BY <2>1, <2>2, <2>3 DEF PullInv, CheckoutInv
  <2> QED
    BY <2>1, <2>2, <2>4, AnswerStays DEF PullInv, CleanInv, HeadInv
<1>6. CASE BranchExists
  <2>1. /\ cmd # Idle /\ cmd.op = "checkout" /\ cmd.pc = "create"
        /\ cmd' = [cmd EXCEPT !.pc = "switch"] /\ result' = "exists"
        /\ UNCHANGED <<local, tracking, head, server>>
    BY <1>6 DEF BranchExists, Running, Step, repo
  <2>2. cmd'.op = "checkout" /\ cmd'.pr = cmd.pr /\ cmd'.pc = "switch" /\ cmd'.branch = cmd.branch
    BY <2>1, CommandIs
  <2>3. /\ TrackedName' = TrackedName /\ Lost' = Lost
        /\ Contains(tracking, TrackedName)' = Contains(tracking, TrackedName)
    BY <2>1, <2>2 DEF TrackedName, Lost, Contains, Has
  <2>4. CheckoutInv'
    BY <2>1, <2>2, <2>3 DEF PullInv, CheckoutInv
  <2> QED
    BY <2>1, <2>2, <2>4, AnswerStays DEF PullInv, CleanInv, HeadInv
<1>7. CASE SetReference
  <2>1. /\ cmd # Idle /\ cmd.op = "checkout" /\ cmd.pc = "setref" /\ Goto("switch")
        /\ local' = With(local, cmd.branch, tracking[TrackedName]) /\ Has(tracking, TrackedName)
        /\ UNCHANGED <<tracking, head, server>>
    BY <1>7 DEF SetReference, Running, Step
  <2>2. cmd'.op = "checkout" /\ cmd'.pr = cmd.pr /\ cmd'.pc = "switch" /\ cmd'.branch = cmd.branch
    BY <2>1, GotoIs DEF Phase
  <2>3. /\ TrackedName' = TrackedName /\ Lost' = Lost
        /\ Contains(tracking, TrackedName)' = Contains(tracking, TrackedName)
    BY <2>1, <2>2 DEF TrackedName, Lost, Contains, Has
  <2>4. Lost \/ Contains(tracking, TrackedName)
    BY <2>1 DEF PullInv, CheckoutInv
  <2>5. /\ DOMAIN local' = DOMAIN local \cup {cmd.branch}
        /\ local'[cmd.branch] = tracking[TrackedName]
    BY <2>1 DEF With
  <2>a. Has(local', cmd'.branch) /\ IsTracked(local[cmd.branch])'
    <3>1. local'[cmd'.branch] = tracking'[TrackedName'] /\ Has(tracking', TrackedName')
      BY <2>1, <2>2, <2>3, <2>5 DEF Has
    <3>2. Has(local', cmd'.branch)
      BY <2>2, <2>5 DEF Has
    <3> QED
      BY <3>1, <3>2 DEF IsTracked
  <2>6. CheckoutInv'
    BY <2>1, <2>2, <2>3, <2>4, <2>a DEF CheckoutInv
  <2>7. HeadInv'
    BY <2>1, <2>5 DEF PullInv, HeadInv
  <2> QED
    BY <2>1, <2>2, <2>6, <2>7, AnswerStays DEF PullInv, CleanInv
<1>8. CASE NoTrackingBranch \/ FetchRefused
  <2>1. HeadInv'
    BY <1>8 DEF NoTrackingBranch, FetchRefused, repo, PullInv, HeadInv
  <2> QED
    BY <1>8, <2>1, EndKeepsPull DEF NoTrackingBranch, FetchRefused
<1>9. CASE Switch
  <2>1. HeadInv' /\ \E r : Ends(r)
    <3>1. CASE Has(RefToCheckout, NameToCheckout)
      <4>1. head' = cmd.branch /\ local' = local
        BY <1>9, <3>1 DEF Switch, Checkout
      <4>2. cmd.branch = Detached \/ cmd.branch \in DOMAIN local
        BY <3>1 DEF RefToCheckout, NameToCheckout, Has
      <4> QED
        BY <1>9, <3>1, <4>1, <4>2 DEF Switch, HeadInv
    <3>2. CASE ~Has(RefToCheckout, NameToCheckout)
      BY <1>9, <3>2 DEF Switch, repo, PullInv, HeadInv
    <3> QED
      BY <3>1, <3>2
  <2> QED
    BY <2>1, EndKeepsPull
<1> QED
  BY <1>1, <1>2, <1>3, <1>4, <1>5, <1>6, <1>7, <1>8, <1>9 DEF PullCheckout

LEMMA CleanKeepsPull ==
    ASSUME TypeInv, PullInv, PullClean
    PROVE  PullInv'
<1>1. CASE StartClean
  BY <1>1, StartKeepsPull
<1>2. CASE FindBranch
  <2>1. /\ cmd # Idle /\ cmd.op = "clean" /\ cmd.pc = "match"
        /\ UNCHANGED <<local, tracking, head, server, result>>
    BY <1>2 DEF FindBranch, Running, Step, repo
  <2>2. PICK b \in Branch : /\ Chooses(b, "leave") /\ b \in DOMAIN local
                            /\ ~cmd.flag => /\ local[b] = cmd.pr.sha
                                            /\ \E t \in DOMAIN tracking : tracking[t] = cmd.pr.sha
    <3>1. /\ \A b \in TeaFindBranchBySha(cmd.pr.sha) :
                b \in DOMAIN local /\ b \in Branch /\ local[b] = cmd.pr.sha
                /\ \E t \in DOMAIN tracking : tracking[t] = cmd.pr.sha
          /\ \A b \in TeaFindBranchByName(Head) : b \in DOMAIN local /\ b \in Branch
      BY FoundIsLocal DEF TypeInv
    <3> QED
      BY <1>2, <3>1 DEF FindBranch, Chooses
  <2>3. /\ cmd'.op = "clean" /\ cmd'.pr = cmd.pr /\ cmd'.flag = cmd.flag
        /\ cmd'.pc = "leave" /\ cmd'.branch = b
    BY <2>1, <2>2, ChosenIs DEF Phase
  <2>4. CleanInv'
    BY <2>1, <2>2, <2>3 DEF CleanInv, Has
  <2> QED
    BY <2>1, <2>3, <2>4, AnswerStays DEF PullInv, CheckoutInv, HeadInv
<1>3. CASE NothingToClean
  <2>1. HeadInv'
    BY <1>3 DEF NothingToClean, repo, PullInv, HeadInv
  <2> QED
    BY <1>3, <2>1, EndKeepsPull DEF NothingToClean
<1>4. CASE LeaveBranch
  <2>1. cmd # Idle /\ cmd.op = "clean" /\ cmd.pc = "leave" /\ Step
    BY <1>4 DEF LeaveBranch, Running
  <2>2. CASE Ends("failed") /\ UNCHANGED repo
    <3>1. HeadInv'
      BY <2>2 DEF repo, PullInv, HeadInv
    <3> QED
      BY <2>2, <3>1, EndKeepsPull
  <2>3. CASE ~(Ends("failed") /\ UNCHANGED repo)
    <3>1. /\ head' = IF head = cmd.branch THEN Default ELSE head
          /\ UNCHANGED <<local, tracking>> /\ Goto("unconfig")
      BY <1>4, <2>3 DEF LeaveBranch, Checkout, repo
    <3>2. /\ cmd'.op = "clean" /\ cmd'.pr = cmd.pr /\ cmd'.flag = cmd.flag
          /\ cmd'.pc = "unconfig" /\ cmd'.branch = cmd.branch
      BY <2>1, <3>1, GotoIs DEF Phase
    <3>3. CleanInv'
      BY <2>1, <3>1, <3>2 DEF PullInv, CleanInv, Has
    <3> QED
      BY <2>1, <3>1, <3>2, <3>3, AnswerStays DEF PullInv, CheckoutInv, HeadInv, Step, Has
  <2> QED
    BY <2>2, <2>3
<1>5. CASE DeleteBranch
  <2>1. /\ cmd # Idle /\ cmd.op = "clean" /\ cmd.pc = "unconfig" /\ Goto("delete")
        /\ UNCHANGED <<local, tracking, head, server>>
    BY <1>5 DEF DeleteBranch, Running, Step
  <2>2. /\ cmd'.op = "clean" /\ cmd'.pr = cmd.pr /\ cmd'.flag = cmd.flag
        /\ cmd'.pc = "delete" /\ cmd'.branch = cmd.branch
    BY <2>1, GotoIs DEF Phase
  <2>3. CleanInv'
    BY <2>1, <2>2 DEF PullInv, CleanInv, Has
  <2> QED
    BY <2>1, <2>2, <2>3, AnswerStays DEF PullInv, CheckoutInv, HeadInv
<1>6. CASE RemoveReference
  <2>1. /\ cmd # Idle /\ cmd.op = "clean" /\ cmd.pc = "delete"
        /\ local' = Minus(local, cmd.branch) /\ UNCHANGED <<tracking, head, server>>
        /\ Goto("push") \/ Ends("ok")
    BY <1>6 DEF RemoveReference, Running, Step
  <2>2. HeadInv'
    <3>1. DOMAIN local' = DOMAIN local \ {cmd.branch}
      BY <2>1, MinusIs
    <3> QED
      BY <2>1, <3>1 DEF PullInv, CleanInv, HeadInv
  <2>3. CASE Goto("push")
    <3>1. cmd'.op = "clean" /\ cmd'.pr = cmd.pr /\ cmd'.pc = "push"
      BY <2>1, <2>3, GotoIs DEF Phase
    <3> QED
      BY <2>1, <2>2, <3>1, AnswerStays DEF PullInv, CheckoutInv, CleanInv
  <2>4. CASE Ends("ok")
    BY <2>2, <2>4, EndKeepsPull
  <2> QED
    BY <2>1, <2>3, <2>4
<1>7. CASE TeaDeleteRemoteBranch
  <2>1. HeadInv' /\ \E r : Ends(r)
    BY <1>7 DEF TeaDeleteRemoteBranch, PullInv, HeadInv
  <2> QED
    BY <2>1, EndKeepsPull
<1> QED
  BY <1>1, <1>2, <1>3, <1>4, <1>5, <1>6, <1>7 DEF PullClean

LEMMA PullInvariance == Spec => []PullInv
<1>1. TypeInv /\ CommitsInv /\ PullInv /\ [Next]_vars => PullInv'
  <2> SUFFICES ASSUME TypeInv, CommitsInv, PullInv, [Next]_vars PROVE PullInv'
    OBVIOUS
  <2>1. CASE UNCHANGED vars
    BY <2>1 DEF vars, repo, PullInv, AnswerInv, CheckoutInv, CleanInv, HeadInv, Lost, Contains,
                IsTracked, TrackedName, CreatedName, Has
  <2>2. CASE StepFails
    <3>1. HeadInv' /\ Ends("failed")
      BY <2>2 DEF StepFails, repo, PullInv, HeadInv
    <3> QED
      BY <3>1, EndKeepsPull
  <2> QED
    BY <2>1, <2>2, CheckoutKeepsPull, CleanKeepsPull, ServerKeepsPull, UserKeepsPull, EnvironmentIs
       DEF Next
<1> QED
  BY <1>1, InitPull, TypeInvariance, CommitsInvariance, PTL DEF Spec

\* HEAD names no branch that is gone but the default branch, whatever step
\* fails and whatever the server and the user do: clean leaves any other
\* branch before it deletes it, checkout creates one before it switches.
THEOREM HeadExistsButDefault == Spec => []HeadExists
<1>1. PullInv => HeadExists
  BY DEF PullInv, HeadInv, HeadExists, Has
<1> QED
  BY <1>1, PullInvariance, PTL

\* A checkout that reports success shows the commits that the pull request
\* had when it was read, for any sequence of pushes, merges and failures
\* between.  Only if its branch was deleted or rewritten meanwhile may it show
\* the tracking branch as it was fetched last.
THEOREM CheckoutIsOfPull == Spec => CheckoutShowsPull
<1> DEFINE Shows ==
            cmd # Idle /\ cmd.op = "checkout" /\ result' = "ok"
            => \/ cmd.pr.sha \subseteq work'
               \/ Rewritten /\ Has(tracking, Head) /\ work' = tracking[Head]
<1>1. TypeInv /\ PullInv /\ [Next]_vars => [Shows]_vars
  <2> SUFFICES ASSUME TypeInv, PullInv, Next,
                      cmd # Idle, cmd.op = "checkout", result' = "ok"
               PROVE  \/ cmd.pr.sha \subseteq work'
                      \/ Rewritten /\ Has(tracking, Head) /\ work' = tracking[Head]
    OBVIOUS
  <2>0. result \in {"none", "exists"}
    BY DEF TypeInv, ResultType
  <2>1. CASE Switch
    <3>1. /\ cmd.pc = "switch" /\ Has(RefToCheckout, NameToCheckout)
          /\ work' = RefToCheckout[NameToCheckout] /\ result = "none"
      BY <2>0, <2>1 DEF Switch, Running, Checkout, Ends
    <3>2. Lost \/ Contains(tracking, TrackedName)
      BY <3>1 DEF PullInv, CheckoutInv
    <3>3. work' = cmd.pr.sha \/ IsTracked(work')
      <4>1. CASE cmd.branch = Detached
        BY <3>1, <4>1 DEF IsTracked, RefToCheckout, NameToCheckout
      <4>2. CASE cmd.branch # Detached
        BY <3>1, <4>2 DEF PullInv, CheckoutInv, RefToCheckout, NameToCheckout
      <4> QED
        BY <4>1, <4>2
    <3>4. CASE IsTracked(work') /\ Lost
      BY <3>4 DEF IsTracked, Lost, Rewritten, TrackedName
    <3>5. CASE IsTracked(work') /\ Contains(tracking, TrackedName)
      BY <3>5 DEF IsTracked, Contains
    <3> QED
      BY <3>2, <3>3, <3>4, <3>5
  <2>2. CASE PullCheckout /\ ~Switch
    \* no other step of a checkout reports success
    BY <2>0, <2>2 DEF PullCheckout, StartCheckout, Start, GetOrCreateRemote, Fetch, FetchRefused,
                      ChooseRef, CreateBranch, BranchExists, SetReference, NoTrackingBranch, Goto, Ends
  <2>3. CASE PullClean
    BY <2>3 DEF PullClean, StartClean, Start, FindBranch, NothingToClean, LeaveBranch,
                DeleteBranch, RemoveReference, TeaDeleteRemoteBranch, Running
  <2>4. CASE StepFails
    BY <2>4 DEF StepFails, Ends
  <2>5. CASE Environment
    BY <2>0, <2>5, EnvironmentIs, ServerStep, UserStep DEF TypeInv
  <2> QED
    BY <2>1, <2>2, <2>3, <2>4, <2>5 DEF Next
<1> QED
  BY <1>1, TypeInvariance, PullInvariance, PTL DEF Spec, CheckoutShowsPull

\* The local branch that clean deletes is at the tip of a tracking branch.
LEMMA RemovalKeepsTips ==
    ASSUME PullInv, RemoveReference, ~cmd.flag
    PROVE  Reachable \subseteq Reachable'
<1>1. /\ cmd # Idle /\ cmd.op = "clean" /\ cmd.pc = "delete"
      /\ local' = Minus(local, cmd.branch) /\ UNCHANGED <<tracking, server>>
  BY DEF RemoveReference, Running, Step
<1>2. PICK t \in DOMAIN tracking : tracking[t] = local[cmd.branch]
  BY <1>1 DEF PullInv, CleanInv
<1>3. \A b \in DOMAIN local \ {cmd.branch} :
        b \in DOMAIN local' /\ local'[b] = local[b]
  BY <1>1, MinusIs
<1>4. ASSUME NEW c \in Tips(local) PROVE c \in Tips(local') \cup Tips(tracking)
  <2>1. PICK b \in DOMAIN local : c \in local[b]
    BY <1>4 DEF Tips
  <2>2. CASE b = cmd.branch
    BY <1>2, <2>1, <2>2 DEF Tips
  <2>3. CASE b # cmd.branch
    BY <1>3, <2>1, <2>3 DEF Tips
  <2> QED
    BY <2>2, <2>3
<1>5. Tips(tracking') = Tips(tracking) /\ Tips(server'.branches) = Tips(server.branches)
      /\ server'.pull = server.pull
  BY <1>1
<1> QED
  BY <1>4, <1>5 DEF Reachable

\* f loses no more than what its branch Head holds.
LEMMA MinusLoses ==
    ASSUME NEW f, NEW c \in Tips(f)
    PROVE  c \in Tips(Minus(f, Head)) \/ (Has(f, Head) /\ c \in f[Head])
<1>1. PICK b \in DOMAIN f : c \in f[b]
  BY DEF Tips
<1>2. CASE b = Head
  BY <1>1, <1>2 DEF Has
<1>3. CASE b # Head
  <2>1. b \in DOMAIN Minus(f, Head) /\ Minus(f, Head)[b] = f[b]
    BY <1>1, <1>3, MinusIs
  <2> QED
    BY <1>1, <2>1 DEF Tips
<1> QED
  BY <1>2, <1>3

\* The remote branch takes with it only what the pull request lacks.
LEMMA PushLosesOnlyRemote ==
    ASSUME TypeInv, TeaDeleteRemoteBranch
    PROVE  cmd.pc = "push" /\ Reachable \ Reachable' \subseteq OnlyRemote
<1>1. /\ cmd.pc = "push" /\ local' = local /\ server'.pull = server.pull
      /\ \/ server'.branches = Minus(server.branches, Head) /\ tracking' = Minus(tracking, Head)
         \/ UNCHANGED <<server, tracking>>
  BY DEF TeaDeleteRemoteBranch, Running, TypeInv, ServerType
<1>2. CASE UNCHANGED <<server, tracking>>
  <2>1. Reachable' = Reachable
    BY <1>1, <1>2 DEF Reachable, Tips
  <2> QED
    BY <1>1, <2>1
<1>3. CASE server'.branches = Minus(server.branches, Head) /\ tracking' = Minus(tracking, Head)
  <2> SUFFICES ASSUME NEW c \in Reachable, c \notin Reachable'
               PROVE  c \in OnlyRemote
    BY <1>1
  <2>1. /\ c \notin Tips(Minus(tracking, Head)) /\ c \notin Tips(Minus(server.branches, Head))
        /\ c \notin server.pull /\ c \notin Tips(local)
    BY <1>1, <1>3 DEF Reachable, Tips
  <2>2. c \in Tips(tracking) \/ c \in Tips(server.branches)
    BY <2>1 DEF Reachable
  <2> QED
    BY <2>1, <2>2, MinusLoses DEF OnlyRemote
<1> QED
  BY <1>1, <1>2, <1>3

\* Without --ignore-sha clean makes no commit unreachable but those that the
\* remote branch holds and the pull request does not.
THEOREM CleanLosesOnlyRemote == Spec => CleanKeepsCommits
<1> DEFINE Keeps ==
            cmd # Idle /\ cmd.op = "clean" /\ ~cmd.flag /\ cmd' # cmd
            => Reachable \ Reachable' \subseteq IF cmd.pc = "push" THEN OnlyRemote ELSE {}
<1>1. TypeInv /\ PullInv /\ [Next]_vars => [Keeps]_vars
  <2> SUFFICES ASSUME TypeInv, PullInv, Next,
                      cmd # Idle, cmd.op = "clean", ~cmd.flag, cmd' # cmd
               PROVE  Reachable \ Reachable' \subseteq IF cmd.pc = "push" THEN OnlyRemote ELSE {}
    OBVIOUS
  <2>a. ASSUME UNCHANGED <<local, tracking, server>>
        PROVE  Reachable' = Reachable
    BY <2>a DEF Reachable, Tips
  <2>1. CASE RemoveReference
    BY <2>1, RemovalKeepsTips
  <2>2. CASE TeaDeleteRemoteBranch
    BY <2>2, PushLosesOnlyRemote
  <2>3. CASE PullClean /\ ~RemoveReference /\ ~TeaDeleteRemoteBranch
    <3>1. UNCHANGED <<local, tracking, server>>
      BY <2>3 DEF PullClean, StartClean, Start, FindBranch, NothingToClean, LeaveBranch,
                  DeleteBranch, Checkout, Step, repo
    <3> QED
      BY <2>a, <3>1
  <2>4. CASE PullCheckout
    BY <2>4 DEF PullCheckout, StartCheckout, Start, GetOrCreateRemote, Fetch, FetchRefused, ChooseRef,
                CreateBranch, BranchExists, SetReference, NoTrackingBranch, Switch, Running
  <2>5. CASE StepFails
    <3>1. UNCHANGED <<local, tracking, server>>
      BY <2>5 DEF StepFails, repo
    <3> QED
      BY <2>a, <3>1
  <2>6. CASE Environment
    BY <2>6, EnvironmentIs, ServerStep, UserStep DEF TypeInv
  <2> QED
    BY <2>1, <2>2, <2>3, <2>4, <2>5, <2>6 DEF Next
<1> QED
  BY <1>1, TypeInvariance, PullInvariance, PTL DEF Spec, CleanKeepsCommits

=============================================================================
