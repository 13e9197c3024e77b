---------------------------- MODULE PullBranches ----------------------------
(***************************************************************************)
(* pulls checkout and pulls clean: PullCheckout and PullClean in           *)
(* modules/task, over the git repository of the user (modules/git) and the *)
(* server.  A pull request comes from the branch Head of a repository the  *)
(* local repository may know as a remote; the base branch is Default.      *)
(*                                                                         *)
(* A commit is a number and the tip of a branch is the set of the commits  *)
(* it contains, so that two branches are at the same sha when their sets   *)
(* are equal.  Between two commands the user works in the repository; the  *)
(* server changes at any time.                                             *)
(***************************************************************************)
EXTENDS Naturals, FiniteSets, Functions

CONSTANTS
    Default,        \* the default branch of the repository
    Head,           \* the branch of the pull request
    Pull,           \* pulls/<index>, which checkout --branch creates
    PullOfDeleted,  \* the same when the branch is deleted at the server
    Detached,       \* a HEAD that is no branch
    NoBranch,
    MaxCommit,      \* bound on the commits that are made
    MaxMoves,       \* bound on the steps of the server and of the user
    MaxCommands,    \* bound on the commands that are run
    MaxFaults,      \* bound on the steps that fail
    MayPush         \* may the user push to the repository of the branch?

ASSUME BoundsAssumption ==
    /\ MaxCommit \in Nat /\ MaxCommit >= 2
    /\ MaxMoves \in Nat /\ MaxCommands \in Nat /\ MaxFaults \in Nat
    /\ MayPush \in BOOLEAN

\* The branches of a pull request differ, the names that checkout creates do
\* not name the default branch, and a detached HEAD is no branch.
ASSUME BranchAssumption ==
    /\ Default \notin {Head, Pull, PullOfDeleted}
    /\ Detached \notin {Default, Head, Pull, PullOfDeleted}

Branch == {Default, Head, Pull, PullOfDeleted}
Commit == 1 .. MaxCommit
Tip == SUBSET Commit

VARIABLES
    local,      \* refs/heads: the branches there are and their tips
    tracking,   \* refs/remotes/<remote>: likewise
    entries,    \* the branches with an entry in .git/config
    remote,     \* is the repository of the pull request a remote?
    head,       \* the branch that is checked out
    work,       \* the tip that is checked out
    server,     \* the server: its branches, the pull request and its ref
    cmd,        \* the command that runs
    result,     \* how the last command ended
    commits, moves, commands, faults    \* counters

repo == <<local, tracking, entries, remote, head, work>>
counters == <<commits, moves, commands, faults>>
vars == <<repo, server, cmd, result, counters>>

\* The API answer a command has read: the branch of the pull request is
\* deleted or not, the sha of its head, whether it is open.
PullRequest == [deleted : BOOLEAN, sha : Tip, open : BOOLEAN]

Phase == {"remote", "fetch", "find", "create", "setref", "switch",
          "match", "leave", "unconfig", "delete", "push"}
Idle == [op |-> "none"]
Command == [op : {"checkout", "clean"}, pc : Phase, flag : BOOLEAN,
            pr : PullRequest, branch : Branch \cup {NoBranch, Detached}]

\* f with x mapped to v, and f without x.
With(f, x, v) == [y \in DOMAIN f \cup {x} |-> IF y = x THEN v ELSE f[y]]
Minus(f, x) == Restrict(f, DOMAIN f \ {x})
Singleton(x, v) == [y \in {x} |-> v]

\* Every variable has its type.
TypeOK ==
    /\ DOMAIN local \subseteq Branch /\ \A b \in DOMAIN local : local[b] \in Tip
    /\ DOMAIN tracking \subseteq {Default, Head, Pull}
    /\ \A b \in DOMAIN tracking : tracking[b] \in Tip
    /\ entries \subseteq Branch
    /\ remote \in BOOLEAN
    /\ head \in Branch \cup {Detached}
    /\ work \in Tip
    /\ DOMAIN server.branches \subseteq {Default, Head}
    /\ \A b \in DOMAIN server.branches : server.branches[b] \in Tip
    /\ server.pull \in Tip /\ server.open \in BOOLEAN /\ server.merged \in BOOLEAN
    /\ \/ cmd = Idle
       \/ /\ cmd \in Command
          \* from the search on, clean has a branch to delete
          /\ cmd.pc \in {"leave", "unconfig", "delete", "push"} => cmd.branch \in Branch
    /\ result \in {"none", "ok", "exists", "failed"}
    /\ commits \in 2 .. MaxCommit
    /\ moves \in 0 .. MaxMoves
    /\ commands \in 0 .. MaxCommands
    /\ faults \in 0 .. MaxFaults

Init ==
    /\ local = Singleton(Default, {1})
    /\ tracking = Singleton(Default, {1})
    /\ entries = {Default}
    /\ remote \in BOOLEAN
    /\ head = Default
    /\ work = {1}
    /\ \/ server = [branches |-> With(Singleton(Default, {1}), Head, {1, 2}),
                    pull |-> {1, 2}, open |-> TRUE, merged |-> FALSE]
       \/ server = [branches |-> Singleton(Default, {1}),
                    pull |-> {1, 2}, open |-> FALSE, merged |-> FALSE]
    /\ cmd = Idle
    /\ result = "none"
    /\ commits = 2 /\ moves = 0 /\ commands = 0 /\ faults = 0

Has(f, x) == x \in DOMAIN f

----------------------------------------------------------------------------
(* The server, at any time, and the user, between two commands.            *)

Move ==
    /\ moves < MaxMoves /\ moves' = moves + 1
    /\ UNCHANGED <<commands, faults>>

FreshCommit == Move /\ commits < MaxCommit /\ commits' = commits + 1
NoCommit == Move /\ UNCHANGED commits

OnServer(s) ==
    /\ server' = s
    /\ UNCHANGED <<repo, cmd, result>>

\* The ref of the pull request follows its branch while it is open.
Pushed(tip) ==
    [server EXCEPT !.branches = With(@, Head, tip),
                   !.pull = IF server.open THEN tip ELSE @]

AuthorPushes ==
    /\ Has(server.branches, Head)
    /\ FreshCommit
    /\ OnServer(Pushed(server.branches[Head] \cup {commits + 1}))

\* The branch is rewritten: a new commit on the default branch in its place.
AuthorForcePushes ==
    /\ Has(server.branches, Head)
    /\ FreshCommit
    /\ OnServer(Pushed(server.branches[Default] \cup {commits + 1}))

Merge ==
    /\ server.open /\ Has(server.branches, Head)
    /\ LET main == server.branches[Default]
           pulled == server.branches[Head]
           merged(tip) == [server EXCEPT !.branches = With(@, Default, tip),
                                         !.open = FALSE, !.merged = TRUE]
       IN  \/ main \subseteq pulled /\ NoCommit /\ OnServer(merged(pulled))
           \/ FreshCommit /\ OnServer(merged(main \cup pulled \cup {commits + 1}))

ClosePull ==
    /\ server.open
    /\ OnServer([server EXCEPT !.open = FALSE]) /\ NoCommit

ReopenPull ==
    /\ ~server.open /\ ~server.merged /\ Has(server.branches, Head)
    /\ OnServer([server EXCEPT !.open = TRUE, !.pull = server.branches[Head]])
    /\ NoCommit

DeleteOnServer ==
    /\ ~server.open /\ Has(server.branches, Head)
    /\ OnServer([server EXCEPT !.branches = Minus(@, Head)]) /\ NoCommit

AtWork == cmd = Idle /\ UNCHANGED <<cmd, result>>

\* The checked out branch gets a new tip.
HeadTo(tip) == work' = tip /\ local' = With(local, head, tip)

UserCommits ==
    /\ AtWork /\ Has(local, head)
    /\ FreshCommit /\ HeadTo(local[head] \cup {commits + 1})
    /\ UNCHANGED <<tracking, entries, remote, head, server>>

\* git merge of a local or a tracking branch, by fast-forward or not.
UserMerges(tip) ==
    /\ AtWork /\ Has(local, head)
    /\ \/ local[head] \subseteq tip /\ NoCommit /\ HeadTo(tip)
       \/ FreshCommit /\ HeadTo(local[head] \cup tip \cup {commits + 1})
    /\ UNCHANGED <<tracking, entries, remote, head, server>>

\* git push of the checked out branch, without force.
UserPushes ==
    /\ AtWork /\ remote /\ MayPush /\ Has(local, head) /\ head \in {Default, Head}
    /\ Has(server.branches, head) => server.branches[head] \subseteq local[head]
    /\ server' = IF head = Head THEN Pushed(local[head])
                 ELSE [server EXCEPT !.branches = With(@, Default, local[head])]
    /\ tracking' = With(tracking, head, local[head])
    /\ NoCommit /\ UNCHANGED <<local, entries, remote, head, work>>

\* git switch --create without a branch to track: no entry in .git/config.
UserCreatesBranch(b) ==
    /\ AtWork /\ ~Has(local, b) /\ Has(local, head)
    /\ local' = With(local, b, local[head])
    /\ head' = b /\ work' = local[head]
    /\ NoCommit /\ UNCHANGED <<tracking, entries, remote, server>>

\* git switch to a local branch.
UserSwitches(b) ==
    /\ AtWork /\ Has(local, b) /\ head # b
    /\ head' = b /\ work' = local[b]
    /\ NoCommit /\ UNCHANGED <<local, tracking, entries, remote, server>>

\* What a fetch of the branches leaves of the tracking branches.
Fetched == [b \in DOMAIN tracking \cup DOMAIN server.branches |->
              IF Has(server.branches, b) THEN server.branches[b] ELSE tracking[b]]

\* git fetch, and git merge --ff-only of the checked out branch.
UserPulls ==
    /\ AtWork /\ remote /\ Has(local, head) /\ Has(server.branches, head)
    /\ tracking' = Fetched
    /\ local[head] \subseteq server.branches[head] /\ HeadTo(server.branches[head])
    /\ NoCommit /\ UNCHANGED <<entries, remote, head, server>>

Environment ==
    \/ AuthorPushes \/ AuthorForcePushes
    \/ Merge \/ ClosePull \/ ReopenPull \/ DeleteOnServer
    \/ UserCommits \/ UserPulls \/ UserPushes
    \/ \E b \in DOMAIN local : UserMerges(local[b])
    \/ \E b \in DOMAIN tracking : UserMerges(tracking[b])
    \/ \E b \in {Head, Pull} : UserCreatesBranch(b)
    \/ \E b \in Branch : UserSwitches(b)

----------------------------------------------------------------------------
(* Commands.                                                               *)

\* client.GetPullRequest: the sha is that of the branch, or of the ref of
\* the pull request once the branch is deleted.
GetPullRequest ==
    [deleted |-> ~Has(server.branches, Head),
     sha |-> IF Has(server.branches, Head) THEN server.branches[Head] ELSE server.pull,
     open |-> server.open]

Running(op, pc) == cmd # Idle /\ cmd.op = op /\ cmd.pc = pc
Goto(pc) == cmd' = [cmd EXCEPT !.pc = pc] /\ UNCHANGED result
Ends(r) == cmd' = Idle /\ result' = r
Step == UNCHANGED <<server, counters>>

Start(op, pc, flag) ==
    /\ cmd = Idle /\ commands < MaxCommands
    /\ commands' = commands + 1
    /\ cmd' = [op |-> op, pc |-> pc, flag |-> flag, pr |-> GetPullRequest, branch |-> NoBranch]
    /\ result' = "none"
    /\ UNCHANGED <<repo, server, commits, moves, faults>>

\* Any step may report an error, and the command stops where it is: the
\* network, the disk, a worktree with unstaged changes, a killed process.
StepFails ==
    /\ cmd # Idle
    /\ faults < MaxFaults /\ faults' = faults + 1
    /\ Ends("failed")
    /\ UNCHANGED <<repo, server, commits, moves, commands>>

\* Worktree.Checkout: a branch or, for another ref, its commit.
Checkout(b, tip) ==
    /\ head' = b /\ work' = tip
    /\ UNCHANGED <<local, tracking, entries, remote>>

\* A local branch at the sha, whichever it is, when the tracking branches of
\* the remote hold the sha too.
TeaFindBranchBySha(sha) ==
    IF remote /\ \E t \in DOMAIN tracking : tracking[t] = sha
    THEN {b \in DOMAIN local : local[b] = sha} ELSE {}

TeaFindBranchByName(b) ==
    IF remote /\ Has(tracking, b) /\ Has(local, b) THEN {b} ELSE {}

----------------------------------------------------------------------------
(* PullCheckout; the flag is --branch.                                     *)

TrackedName == IF cmd.pr.deleted THEN Pull ELSE Head
CreatedName == IF cmd.pr.deleted THEN PullOfDeleted ELSE Pull

StartCheckout == \E force \in BOOLEAN : Start("checkout", "remote", force)

GetOrCreateRemote ==
    /\ Running("checkout", "remote")
    /\ remote' = TRUE
    /\ Goto("fetch") /\ Step
    /\ UNCHANGED <<local, tracking, entries, head, work>>

\* Without the fetch.
FetchNothing ==
    /\ Running("checkout", "fetch")
    /\ Goto("find") /\ Step
    /\ UNCHANGED repo

\* The ref of the pull request, under the name of a tracking branch, may only
\* go forward.
MayFetch ==
    cmd.pr.deleted /\ Has(tracking, Pull) => tracking[Pull] \subseteq server.pull

\* The branches of the remote; only the ref of the pull request, under
\* another name, when its branch is deleted.
Fetch ==
    /\ Running("checkout", "fetch")
    /\ MayFetch
    /\ tracking' = IF cmd.pr.deleted THEN With(tracking, Pull, server.pull) ELSE Fetched
    /\ Goto("find") /\ Step
    /\ UNCHANGED <<local, entries, remote, head, work>>

FetchRefused ==
    /\ Running("checkout", "fetch")
    /\ ~MayFetch
    /\ Ends("failed") /\ Step /\ UNCHANGED repo

\* A local branch at the sha; a new branch; the remote tracking branch.
ChooseRef ==
    /\ Running("checkout", "find")
    /\ LET found == TeaFindBranchBySha(cmd.pr.sha)
       IN  \/ \E b \in found : cmd' = [cmd EXCEPT !.branch = b, !.pc = "switch"]
           \/ found = {} /\ cmd.flag /\ cmd' = [cmd EXCEPT !.branch = CreatedName, !.pc = "create"]
           \/ found = {} /\ ~cmd.flag /\ cmd' = [cmd EXCEPT !.branch = Detached, !.pc = "switch"]
    /\ Step /\ UNCHANGED <<repo, result>>

\* TeaCreateBranch, first half: the entry in .git/config.
CreateBranch ==
    /\ Running("checkout", "create")
    /\ cmd.branch \notin entries
    /\ entries' = entries \cup {cmd.branch}
    /\ Goto("setref") /\ Step
    /\ UNCHANGED <<local, tracking, remote, head, work>>

\* ErrBranchExists: the branch is used as it is.
BranchExists ==
    /\ Running("checkout", "create")
    /\ cmd.branch \in entries
    /\ result' = "exists"
    /\ cmd' = [cmd EXCEPT !.pc = "switch"]
    /\ Step /\ UNCHANGED repo

\* Second half: the ref, at the commit of the tracking branch.
SetReference ==
    /\ Running("checkout", "setref")
    /\ Has(tracking, TrackedName)
    /\ local' = With(local, cmd.branch, tracking[TrackedName])
    /\ Goto("switch") /\ Step
    /\ UNCHANGED <<tracking, entries, remote, head, work>>

NoTrackingBranch ==
    /\ Running("checkout", "setref")
    /\ ~Has(tracking, TrackedName)
    /\ Ends("failed") /\ Step /\ UNCHANGED repo

RefToCheckout == IF cmd.branch = Detached THEN tracking ELSE local
NameToCheckout == IF cmd.branch = Detached THEN TrackedName ELSE cmd.branch

Switch ==
    /\ Running("checkout", "switch")
    /\ IF Has(RefToCheckout, NameToCheckout)
       THEN /\ Checkout(cmd.branch, RefToCheckout[NameToCheckout])
            /\ Ends(IF result = "exists" THEN "exists" ELSE "ok")
       ELSE Ends("failed") /\ UNCHANGED repo
    /\ Step

PullCheckout ==
    \/ StartCheckout \/ GetOrCreateRemote \/ Fetch \/ FetchRefused \/ ChooseRef \/ CreateBranch
    \/ BranchExists \/ SetReference \/ NoTrackingBranch \/ Switch

----------------------------------------------------------------------------
(* PullClean; the flag is --ignore-sha.                                    *)

StartClean == \E ignoreSHA \in BOOLEAN : Start("clean", "match", ignoreSHA)

\* Without the test for nil.
FindBranchUnchecked ==
    /\ Running("clean", "match")
    /\ ~cmd.pr.open
    /\ LET found == IF cmd.flag THEN TeaFindBranchByName(Head) ELSE TeaFindBranchBySha(cmd.pr.sha)
       IN  \/ \E b \in found : cmd' = [cmd EXCEPT !.branch = b, !.pc = "leave"]
           \/ found = {} /\ cmd' = [cmd EXCEPT !.pc = "leave"]
    /\ Step /\ UNCHANGED <<repo, result>>

\* The sha is not looked at.
FindBranchByName ==
    /\ Running("clean", "match")
    /\ ~cmd.pr.open
    /\ \E b \in TeaFindBranchByName(Head) :
          cmd' = [cmd EXCEPT !.branch = b, !.pc = "leave"]
    /\ Step /\ UNCHANGED <<repo, result>>

FindBranch ==
    /\ Running("clean", "match")
    /\ ~cmd.pr.open
    /\ \E b \in IF cmd.flag THEN TeaFindBranchByName(Head) ELSE TeaFindBranchBySha(cmd.pr.sha) :
          cmd' = [cmd EXCEPT !.branch = b, !.pc = "leave"]
    /\ Step /\ UNCHANGED <<repo, result>>

NothingToClean ==
    /\ Running("clean", "match")
    /\ \/ cmd.pr.open
       \/ (IF cmd.flag THEN TeaFindBranchByName(Head) ELSE TeaFindBranchBySha(cmd.pr.sha)) = {}
    /\ Ends("failed") /\ Step /\ UNCHANGED repo

\* The branch to delete stays checked out.
LeaveBranchNever ==
    /\ Running("clean", "leave")
    /\ Goto("unconfig") /\ Step
    /\ UNCHANGED repo

\* The default branch is checked out if HEAD is on the branch to delete.
\* Reading a HEAD whose branch is gone is an error.
LeaveBranch ==
    /\ Running("clean", "leave")
    /\ \/ /\ head = cmd.branch /\ Has(local, head) /\ Has(local, Default)
          /\ Checkout(Default, local[Default]) /\ Goto("unconfig")
       \/ /\ head # cmd.branch /\ (head = Detached \/ Has(local, head))
          /\ UNCHANGED repo /\ Goto("unconfig")
       \/ /\ head # Detached /\ ~(Has(local, head) /\ (head = cmd.branch => Has(local, Default)))
          /\ UNCHANGED repo /\ Ends("failed")
    /\ Step

\* TeaDeleteLocalBranch: the entry, if there is one, then the ref.
DeleteBranch ==
    /\ Running("clean", "unconfig")
    /\ entries' = entries \ {cmd.branch}
    /\ Goto("delete") /\ Step
    /\ UNCHANGED <<local, tracking, remote, head, work>>

RemoveReference ==
    /\ Running("clean", "delete")
    /\ local' = Minus(local, cmd.branch)
    /\ IF MayPush /\ ~cmd.pr.deleted THEN Goto("push") ELSE Ends("ok")
    /\ Step
    /\ UNCHANGED <<tracking, entries, remote, head, work>>

\* The push that deletes takes the tracking branch along; there being
\* nothing to delete is an error.
TeaDeleteRemoteBranch ==
    /\ Running("clean", "push")
    /\ IF Has(server.branches, Head)
       THEN /\ server' = [server EXCEPT !.branches = Minus(@, Head)]
            /\ tracking' = Minus(tracking, Head)
            /\ Ends("ok")
       ELSE Ends("failed") /\ UNCHANGED <<server, tracking>>
    /\ UNCHANGED <<local, entries, remote, head, work, counters>>

PullClean ==
    \/ StartClean \/ FindBranch \/ NothingToClean \/ LeaveBranch
    \/ DeleteBranch \/ RemoveReference \/ TeaDeleteRemoteBranch

----------------------------------------------------------------------------
Next == PullCheckout \/ PullClean \/ StepFails \/ Environment

Spec == Init /\ [][Next]_vars

----------------------------------------------------------------------------
Tips(f) == UNION {f[b] : b \in DOMAIN f}
Reachable == Tips(local) \cup Tips(tracking) \cup Tips(server.branches) \cup server.pull

\* HEAD names no branch that is gone, whatever step fails, but for the default
\* branch: clean leaves a branch before it deletes it, checkout creates one
\* before it switches.  The default branch clean deletes while HEAD is on it,
\* if it is at the sha of the pull request.
HeadExists == head # Detached /\ ~Has(local, head) => head = Default

\* The branch of the pull request does not hold any more what was read of it.
Rewritten ==
    ~cmd.pr.deleted /\ (Has(server.branches, Head) => ~(cmd.pr.sha \subseteq server.branches[Head]))

\* A checkout that reports success shows the pull request: all the commits
\* it had when the command read it, whatever was pushed, fetched or failed
\* before.  Only if its branch was deleted or rewritten since may it show the
\* tracking branch instead, as it was fetched last.
CheckoutShowsPull ==
    [][cmd # Idle /\ cmd.op = "checkout" /\ result' = "ok"
        => \/ cmd.pr.sha \subseteq work'
           \/ Rewritten /\ Has(tracking, Head) /\ work' = tracking[Head]]_vars

\* The commits of the remote branch, as it is or was fetched last, which the
\* pull request lacks: those pushed after it was closed, or rewritten before.
OnlyRemote ==
    ((IF Has(server.branches, Head) THEN server.branches[Head] ELSE {})
     \cup (IF Has(tracking, Head) THEN tracking[Head] ELSE {})) \ server.pull

\* Without --ignore-sha, no step of clean makes a commit unreachable in the
\* local repository and at the server ("If you still want to continue & are
\* sure you don't loose any important commits", pull_clean.go:69), but for
\* those it deletes with the remote branch: clean does not look at what that
\* holds by then.
CleanKeepsCommits ==
    [][cmd # Idle /\ cmd.op = "clean" /\ ~cmd.flag /\ cmd' # cmd
        => Reachable \ Reachable' \subseteq
             IF cmd.pc = "push" THEN OnlyRemote ELSE {}]_vars

=============================================================================
