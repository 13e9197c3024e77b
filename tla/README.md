# A verification development for tea

`tea` is a command line client for Gitea: every command reads the configured
logins, works out which server and which repository it is about, talks to the
server, and sometimes changes the config file, the credential store or the git
repository of the user. This directory models the parts of it where several
processes, goroutines, stores or partial failures meet, in TLA+; it checks the
models with TLC on small instances and proves the most important results with
TLAPS for every value of the constants.

All paths below are relative to the repository's `src/` unless they name a
module of this directory.

## 1. Inventory of the system

| component | state it keeps | operations | hard behaviour |
|---|---|---|---|
| config lock: `modules/config/lock.go`, `modules/filelock` | a process mutex, a flock on `config.yml.lock` | acquire with a deadline, release, `withConfigLock` | two locks nested, one deadline, error paths, death of the holder, a holder that never returns |
| login store: `modules/config/{config,login,credstore}.go`, `cmd/login`, `modules/task/login_create.go` | `config.yml`, the credential store, the config in the memory of each process | add, delete, set default, refresh, save tokens, look up | decisions on an unlocked snapshot, reload under the lock, truncating writes, two stores updated one after the other |
| token refresh: `modules/config/login.go`, `cmd/login/oauth_refresh.go` | access token, refresh token and expiry, at the client and at the server | refresh if needed, refresh, reauthenticate | double check, two expiry margins, rotation, lost answers |
| browser login: `modules/auth/oauth.go` | local HTTP server, three channels | redirect handlers, wait, exchange, store | handler goroutines that overlap, a timeout, shutting down |
| command context: `modules/context` | none of its own; reads flags, environment, git config, logins | resolve login and repository, requirements | precedence of five sources, fallback to some login |
| pull request branches: `modules/task/pull_{checkout,clean}.go`, `modules/git` | refs, `.git/config`, remotes, worktree; branches at the server | checkout, clean | many writes one after the other, each may fail; the API answer is stale by the time it is used |
| clone: `modules/task/repo_clone.go` | a new repository | clone, add upstream | remote setup fails after the clone |
| issue and pull request commands: `cmd/issues`, `cmd/pulls`, `cmd/comment.go`, `modules/task`, `cmd/flags` | records at the server | list, show, create, edit, close, reopen, merge, review, comment | names resolved before labels, reviewers and fields are changed; several calls of which one may fail |
| milestones, labels, tracked times: `cmd/milestones`, `cmd/labels`, `cmd/times` | records at the server | create, edit, link to issues, delete | a test of what was read, then an edit; loops over arguments |
| releases, attachments: `cmd/releases`, `cmd/attachments` | records at the server | create, edit, delete | search through pages while rows come and go; loops that end early |
| webhooks, actions, branches, repositories, notifications: `cmd/webhooks`, `cmd/actions`, `cmd/branches`, `cmd/repos`, `cmd/notifications` | records at the server | one request each, some read before they write | read, merge, write back |
| users, organizations, keys: `cmd/admin`, `cmd/organizations`, `cmd/sshkeys` | records at the server | one request each, some two | a user is made, then restricted |
| job logs: `cmd/actions/runs/logs.go`, `cmd/actions/workflows/dispatch.go` | the length printed, a deadline | dispatch, follow, show | polling the status and the log of a job that runs |
| interactive prompts: `modules/interact` | answers of the user | forms, comment pages | choices fetched while the user types; defaults that are accepted unseen; quitting |
| api command: `cmd/api.go`, `modules/api` | none | one request | flags that exclude each other; the host the token may go to |
| credential helper: `cmd/login/helper.go` | as login store | get, setup | refresh inside a git command |
| print, theme, debug, version, utils, docs | none | formatting | none |

How they interact. A command calls `context.InitCommand`, which loads the
config (once per process, without the lock) and picks a login; `login.Client()`
refreshes the token of an OAuth login when it is near its expiry, which takes
the config lock, asks the server and writes the credential store or the config
file. The `login` commands change the config under the lock. `login add
--oauth` and, as a fallback, `login oauth-refresh` run the browser flow, which
ends in the login store. Processes share the config file, its lock file, the
credential store and the server; they share nothing else. Inside one process
the goroutines are the handlers of the browser flow, the server goroutine, and
the fetch of choices behind a prompt. With its login and its repository found, a
command makes its calls one after the other and returns at the first error;
what the calls before have done stays.

What makes each component correct:

- *config lock*: at most one holder of all processes; no way out leaves a lock
  taken; every call is answered though a holder hangs.
- *login store*: names are unique; a command that reports success has its
  change in the file; nothing another command wrote is undone, but by the
  refresh of a legacy login, which writes its stale copy back (section 3); an
  OAuth login has its token while nothing fails; only a fault may lose the list,
  and a crash in the middle of a write does.
- *token refresh*: the refresh token of an OAuth login is used once; what is
  stored is what the server accepts; both as long as no answer is lost.
- *browser login*: a login is given up for its state only if a foreign redirect
  has come. The code that is exchanged and the state that is checked go through
  two channels: they come from one redirect unless another one overtakes it
  between its two sends; then they mix, which `modules/auth/oauth.go:184` does
  not expect, and `StateComesWithCode` says exactly when. The command always
  gets out of its wait.
- *pull request branches*: a checkout shows the pull request; clean deletes the
  feature branches, and loses no commit but those that only the remote branch
  has by then. It may delete the default branch, and HEAD with it (section 3).
  Neither can always be given again: a clean that failed after the local branch
  was deleted finds no branch, and a `checkout --branch` that failed between the
  entry in `.git/config` and the ref takes the branch for one that exists. What
  holds of every failure is that a checkout which reports success shows the pull
  request, and that HEAD is left on no branch that is gone but the default one.
- *commands at the server*: a command that succeeds has done all that was asked
  for every argument, but for the wishes that section 3 lists; one that is
  refused has done nothing, but for an unknown reviewer or assignee; nothing else
  is changed, though a command that sends all fields writes back what it has
  read of the others; what is there is found; a repetition completes the work of
  a command that makes nothing anew and deletes at most one thing.
- *job logs*: what is printed is the log, all of it when the job was seen to be
  completed; a follower ends or waits for an answer that never comes.
- *context*: a command has a login, and the login and the repository it uses
  belong together.

`PROJECT.json` lists, at their lines, the hazards the properties are for.

## 2. Modules

| module | models | lines of code it stands for |
|---|---|---|
| `ExclusiveLock` | what the config lock promises: one holder at a time | `lock.go` |
| `ConfigLock` | the two-level lock that keeps this promise | `lock.go`, `filelock*.go` |
| `ConfigLockProofs` | theorems about `ConfigLock` | |
| `Logins` | a login, lists of logins, lookup by name without case | `login.go` |
| `LoginRegistry` | what the login store promises: one change at a time | `login.go` |
| `LoginStore` | config file, credential store, processes, commands, faults | `config.go`, `login.go`, `credstore.go`, `oauth.go`, `login_create.go`, `cmd/login` |
| `LoginStoreProofs` | theorems about `LoginStore`, `Logins` and the refinement of `LoginRegistry` | |
| `TokenRefreshProofs`, `OAuthCallbackProofs`, `CommandContextProofs`, `PullBranchesProofs`, `ServerCommandsProofs`, `JobLogsProofs` | theorems about the modules they are named for | |
| `TokenRefresh` | expiry, double check, rotation, the token endpoint | `login.go`, `oauth.go`, `oauth_refresh.go` |
| `OAuthCallback` | the local server and the wait for the redirect | `oauth.go` |
| `CommandContext` | which login and repository a command is about | `modules/context`, lookups of `login.go` |
| `PullBranches` | `pulls checkout` and `pulls clean` | `pull_checkout.go`, `pull_clean.go`, `modules/git` |
| `ApiCalls` | the calls, questions and tests a command consists of | the Gitea SDK as the commands use it |
| `ServerCommands` | a command running against a server, with faults and other users | `labels.go`, `releases/utils.go`, `prompts.go`, ... |
| `CommandShapes` | in which order the steps of a command may come, and which fields they may set, for the theorems about refusals and about what is changed | |
| `ItemCommands`, `RepoCommands`, `AdminCommands` | the handlers, one operator each | `cmd`, `modules/task`, `modules/interact` |
| `JobLogs` | dispatching a workflow and following the log of a job | `actions/runs/logs.go`, `actions/workflows/dispatch.go` |
| `MC...` | values for the constants; in `MCServerCommands` the server and the commands given, and that they have the shapes of `CommandShapes` | |

`LoginStore` and `TokenRefresh` take the lock as one atomic variable, `holder`:
that is `ExclusiveLock`, and `ConfigLock` is shown (checked and proved) to
implement it. `OAuthCallback` ends with a token; what happens to it, the login
entry and then its credential, is the `oauth` command of `LoginStore`.

Naming. An action has the name of the function or of the step it models; where
an operator stands for what the code would do after a plausible slip (a dropped
test, a swapped order), it is defined just before the right one, its comment
says what is different, and no specification uses it.

### ConfigLock

State: `mutex[p]` (`configMutex` of process p), `flock` (the thread whose open
file holds the lock), `pc[t]` (the place in `acquireConfigLock` and in the
`unlock` it returns), `left[t]` (ticks to the deadline, where a tick is a poll
interval). The mutex loop is `TakeMutex` / `MutexTimeout`, the file lock
`OpenLockFile`, `TakeFlock`, `FileLockFails`; `unlock` is `ReleaseFlock` and
`ReleaseMutex`. `Crash(p)` is the end of a process at any step: its memory goes
and the kernel drops its flock. `ReleaseFlock` is not fair: the holder may stay
(`doOAuthRefresh` makes a request without a timeout).

### Logins, LoginRegistry, LoginStore

A login is a name, a kind (`plain`: a token in the file; `legacy`: OAuth with
its tokens in the file; `oauth`: tokens in the credential store), the default
flag and the token in the file. `Folded` is the letter case folding of
`strings.EqualFold`.

`LoginStore` has `file` (absent, empty after a truncation, or YAML with a
list), `creds[n]`, `holder`, and for every process a record: its place, the
command, the function it passes to `withConfigLock`, the typed name, the login,
its memory `mem` (the global `config.Logins`) and the token to store. A command
is a sequence of steps:

    Start -> CreateLogin | RunLoginDelete | GetLoginByName      (no lock)
          -> AcquireLock | LockTimeout
          -> AddLogin | DeleteLogin | SetDefaultLogin | SaveLoginTokens
             | RefreshOAuthToken -> DoOAuthRefresh -> StoreRefreshedToken
          -> Truncate -> Write -> Unlock -> Resume               (os.WriteFile is two steps)
          -> StoreNewToken, Reauthenticate                       (no lock)

`Reloaded(p)` is `reloadConfigFromDisk`: the list in the file, or, when the file
is empty, what is in memory. A write that breaks off may leave the file `empty`
or `broken`; a broken one does not parse, and is an error of every load
(`LoadFails`) and reload (`ReloadFails`). A part of a file that happens to parse,
as a shorter list, is not modelled. `SaveFails`, `ReadFails`, `StoreFails` and `Crash` are the
faults. A legacy login is read with its token and written back whole after the
refresh, as `config.Logins[i] = *l` does (`login.go:362`), its default flag
included.

`LoginRegistry` is the abstract specification: a list that changes by one
`Add`, `Delete`, `SetDefault` or `Rewrite` (of tokens only) at a time, and may
be lost by a fault, in the step of that fault. What undoes the change of another
command has an action of its own, so that nothing else can: `WriteBack` puts back
one of the `copies` of legacy logins that running refreshes have read (`Read`).
The refinement mapping reads the list from the file, or, between truncation and
write, from the process that writes it; `lost` is an empty file nobody is
writing.

### TokenRefresh

One login of either kind (`authMethod`: `oauth` with its tokens in the
credential store, `legacy` with its tokens in the config file), its token as the
number of the refresh token and an expiry, the clock, and the server: which refresh tokens it accepts and how often each was
sent. A process runs `RefreshIfNeeded` (threshold), `AcquireLock`,
`DoubleCheck`, `LoadToken` (from the credential store, or the copy of a legacy
login), `TokenSource` (which returns that token while it is valid to within the
library's own margin, and sends it otherwise; the browser may store another one in
between), the request, `Store`, `Unlock`; a manual refresh falls back to the browser, whose token is stored without the
lock for an `oauth` login (`StoreUnlocked`) and under it for a `legacy` one.

### OAuthCallback

The command (`flow`), the server (`server` from `net.Listen` to
`server.Close`, `serve` for the goroutine that runs `Serve`), one goroutine per
request (`handler`, `query`), the three channels with room for one value, and
`page`, what the browser shows: `net/http` sends a page when the handler has
returned and the connection is still open.

### CommandContext

`args` is what the user gives (`--repo`, `--remote`, `--login`, the
environment) and what the command requires; `pc`, `remote` and `ctx` are the
local variables of `InitCommand` and the `TeaContext` it fills: `ParseRepoFlag`,
`PreferredRemote`, `CheckEnvLogin`, `ContextFromLocalRepo`, `LoginFlag` or
`KeepLogin`, `DefaultLogin`, `ParseSlug`, `Ensure`, each with its errors.
`snapshot` is the global `config`, read by the first call of `loadConfig`
(`sync.Once`), whichever step makes it; `Truncate` and `Write` are another
process that saves meanwhile. `MatchLogins` compares a login with a URL by host
(ssh) or by prefix (http); the model has the servers and the relation
`PrefixOf`. A slug carries the server it was read from, or none if it was typed:
that is what relates the login to the repository.

### PullBranches

The local repository (`local`, `tracking`, `entries` for the branch entries of
`.git/config`, `remote`, `head`, `work`), the server (branches, the pull request
and its own ref) and the running command with the API answer it has read. A tip
is a set of commits. Every write is a step of its own, and `StepFails` stops a
command before any of them; `FetchRefused` is the fetch of a pull request's ref
that does not go forward. The user
commits, creates and switches branches, pulls, merges the pull request locally
and pushes between two commands; pushes and forced pushes of the author, merges
(by a merge commit or by fast-forward), closing, reopening and deletion at the
server happen at any time. `moves` counts all of these. In the
beginning the pull request is open, or closed and its branch deleted. go-git's behaviour (`CreateBranch` looks at
`.git/config` only, a deleting push takes the tracking ref along) is taken from
how the code uses it (`modules/git/branch.go:53-58`) and marked external where it
is an action.

### ApiCalls, ServerCommands and the handlers

A handler is a sequence of steps, and its operator builds this sequence from its
arguments and the flags that are set. `ApiCalls` has the steps: `Get`,
`Search` and `Collect` (page by page), `Edit`, `CreateRow`, `Delete`, `Change`,
`AddCollected` and `RemoveCollected`, `List`, `Request`; at the client `Ask` and
`Form`, the selections of a form, `Fail`, `Tell`, `Return`, and the ways to put
steps together: `If`, `Require`, `Each`, `OneOrAll`. What is decided from the
arguments alone is decided when the sequence is built; what is decided from an
answer is a step.

    EditIssue(index, opts) ==  ResolveLabelOpts ... \o ResolveMilestoneID ...
                               \o ApplyLabelChanges ... \o Edit or Get

`ServerCommands` runs one such sequence. `db` is the server: rows with a kind,
an id, a name, an owner and attributes. `reg` holds what the command has read
(the row it has found, the fields to write back, the page, the labels to add and
to remove). A step is an action; each may be `Lost`, each change may be done and
its answer lost (`Answered`), the server may refuse (`Missing`, `Exists`, and
`UserUnknown` for a reviewer or an assignee it does not know, whom no handler
looks up before);
`Again` is the user who gives the command again after a failed call.
`OtherChanges` and `OtherCreates` are other users, between any two steps.

A command comes with what the user asks of it (`asks`), which is stated on its
own: which attributes rows are to have, which members, which rows are to be gone
or shown. A wish that the arguments express and the code is known not to meet is
stated too, as `Unmet`, and `DoneAsAsked` checks that it is not met: if the code
is mended, the run fails and the wish loses its mark. What a form does unasked is
a wish named `Unasked` in `MCServerCommands`. `DoneAsAsked` and `OnlyAsked` compare
wishes and steps. `FoundUnlessShifted` and
`CollectedUnlessShifted` are about lists that other users change between two
pages.

`CommandShapes` says of a sequence of steps, without running it, what makes the
two other properties true. `LooksUpFirst`: a step that may be refused (a name to
be found, a row to be there, an argument to be right) comes before the first step
that writes, or is about what the writes before it leave there: the same row
again, the row just made, another row of the same owner. `WritesAsked`: each step
that edits, makes or deletes picks rows a wish of the user covers and sets fields
the wish names; fields that are written back were read from the row that is
edited (`KeepsOfFound`); a row that was read under a name, and is picked again
to be written, still has this name and this id (`ReadRowsStay`). The named
assumptions of `MCServerCommands` evaluate them for each of the 131 commands, and
for two handlers with a slip, which they tell apart from the right ones.
They are not true of every command line: `api --output` into a file that cannot
be made fails after its request, and `branches protect` of one branch twice is
refused because of its own rule. The commands given include no case of the kind,
and those theorems are not about one.

### JobLogs

The server has the status, the log and the attempt of every job; `pc`, `job`,
`isRunning` and `lastLogLength` are the local variables of
`followDispatchedRun` and `followJobLogs`, one loop with the differences between
the two commands (`LogsFail`, `InTime`). `seen` is the status read last; a job
may have a status the client does not know (`other`), which it takes for the end.
A line is the attempt and its number, so
that a gap, a repetition and a line of another attempt can be told apart.

## 3. Runs

Runs that pass:

| run | instance | question |
|---|---|---|
| `config_lock` | 3 threads in 2 processes, timeout 2 ticks | do mutex, flock, timeouts, errors and crashes make one exclusive lock that always answers? |
| `login_store` | 2 processes, 2 commands of all six, 1 fault, names a, A, b, logins of all kinds | do file and credential store stay consistent under concurrent commands, does the store implement one-command-at-a-time, and does every command end? |
| `token_refresh` | 2 processes, both kinds of login, 6 ticks, 4 tokens, 1 loss | is each refresh token used once and the stored one accepted? |
| `oauth_callback` | 3 requests of any kind | does the wait end, with the right outcome, and when do code and state come from one redirect? |
| `command_context` | 3 servers, 5 configs, 6 repositories, 1 rewrite | do login, repository and fallback fit together, whatever is given or missing? |
| `pull_branches` | 2 commands, 1 failed step, 4 commits, 5 moves of user, author and server | is what checkout shows and what clean deletes right? |
| `server_commands` | 131 commands, pages of 2 rows, 1 fault, 1 change by others | does a command do what it is asked, all of it and nothing else, also when a call is lost and it is given again? |
| `job_logs` | 2 jobs, 2 polls for the first, a deadline at 3 ticks, 2 lines, 2 attempts, 1 failed call | is what is printed the log, is it whole, and does following end? |

Why the bounds are enough: contention needs two parties on each level, and the
lock instance has two threads on the mutex and two processes on the flock. A
lost update or a stale check needs one command to change what another has read:
two processes with a command each; the theorems are about any number. Two spellings of one name and a
second name cover the lookups. The clock runs past one lifetime plus threshold,
so that a token expires, is renewed and is near its expiry again; four tokens
allow two renewals by each process. Two overlapping redirects and a third
request of another kind fill every channel. A branch needs one commit of the
user and one of the author to diverge; a second command sees what a failed
first one has left, and five moves are enough for push, merge, pull, close and
deletion in a row. The context needs a server whose URL is a prefix of
another's, a remote with two URLs, and for each rule that chooses a remote a
repository to which it applies; `InitCommand` reads the config at two places, so
one rewrite comes between them. The server has at least one list with two pages and
a name on the second, which needs three rows and pages of two; one row that goes,
or is made, shifts a page; one lost call or answer stops a command at each of its
steps, and the next try has none. A log is read at least three times while it
grows to two lines; a second job tells the one that is followed from another.

Runs that show a disagreement between a comment or message and the code; each
checks one property, quoted in `PROJECT.json` under `findings`:

| run | what happens |
|---|---|
| `legacy_login_undone` | a legacy refresh writes back the whole login it read before the lock, and undoes a `login default` |
| `legacy_token_race` | a legacy refresh sends the copy of the refresh token it read before the lock |
| `clean_default` | `pulls clean` deletes the default branch after a fast-forward merge |
| `releases_delete_tag` | `releases delete --delete-tag` with two tags returns after the first |

Disagreements that are known from the code and have no run of their own. Those
that `PROJECT.json` has as hazards: `login delete` with another spelling leaves
the token in the credential store; a refresh of a token that is near its expiry
but valid renews nothing, against the comments of `login.go:290` and `:418`;
`Ensure` lets a command that requires a repository go on with an empty owner;
code and state of two redirects that overlap may mix; clean cannot be run again
when only the remote branch is left, nor `checkout --branch` when only the entry
of the new branch is; clean deletes the remote branch with what was pushed to it
meanwhile; labels that do not exist are dropped silently; `pulls edit
--milestone ""` changes nothing; `milestones close --force` deletes the first of
several; an unknown reviewer or assignee is refused when the labels have been
changed; a call that is never answered keeps `dispatch` beyond its deadline; a
status the client does not know is taken for the end of a job.

Others are visible in the models only. Two `login add` with one token both pass
the test for it, which is made without the lock; the page the browser shows at the
end of the login may be lost when the server is closed; the hint to run `tea
login add` is never printed, because `InitCommand` compares with a message that
is spelled otherwise; the form of an issue preselects none of its labels and
accepts the first open milestone for one that has none (`Selected`,
`DefaultMilestone`, and the command with an `Unasked` milestone); the agit flow
sends neither labels nor milestone (`Unmet` labels); `variables set` cannot set a
variable that exists; a user to be restricted is not until the second call;
filters of `actions runs list` and `repos list` are applied to one page.

Deadlock is checked in `config_lock` and in the refresh runs. The other models
stop where the program does: all commands have run, the command has ended, the
context is found, the bounds are used up.

### Fairness

`ConfigLock`: the clock ticks and a thread that waits for a lock polls
(`time.Sleep` loops); nothing is assumed of the holder. `LoginStore`: a process
that is not waiting for the server or the user is scheduled; the refresh
request and the browser may never return. `OAuthCallback`: goroutines are
scheduled and the timer fires; no request need come, `open.Run` need not return
and the exchange, which has no timeout, need not be answered, so `FlowEnds`
starts at the wait and ends at the exchange. `ServerCommands`: a command goes on
with its next statement, and the user who gave it gives it again when a call has
failed (`RerunFinishes` is about such a user). `JobLogs`: only the steps the
command takes by itself are fair (`Local`: the test of the deadline, the sleep,
which takes time). A call is no such step: nothing is assumed of the server, its
answers or its runner, a job may stay queued or run for ever, and `FollowEnds`
leaves out the command that waits for an answer for ever (`NeverAnswered`). The other specifications are
checked for safety only.

## 4. Proofs

Checked by TLAPS, for any number of threads, processes, logins, names and
tokens and any bounds:

- `ConfigLockProofs`. `TypeCorrect`, then `LockInv`, the inductive
  strengthening: who owns the mutex of a process is a thread of it at a place
  where it holds it, and the reverse; the same for the flock. One step per
  action. `LocksAreReleased`, `LocksAreNested`, `LockIsExclusive` follow, and
  `LockRefines`: every step maps to an `Acquire`, a `Release` or a stutter of
  `ExclusiveLock`. It needs the invariant because the owner of the abstract
  lock is chosen from those inside, which must be at most one.
- `LoginStoreProofs`. `StoreTypeCorrect`, then `NamesAreUnique`: the uniqueness
  of names in the file alone is not inductive, since a process writes its memory
  back, so the invariant is about the file and every memory; lemmas say what
  appending a free name, removing, rewriting and setting the default do to a
  list.
  `StoreInv` is what the rest stands on: a process is under the lock exactly if
  it holds it (`Mutex`); the file is empty only in the hands of its writer; what
  a process is about to write is one change away from what is in the file
  (`FromFile`), and shows the effect its command is to have (`Edited`). A list
  that was read before the lock, or kept after it, is not under it, which is why
  the invariant says nothing of those. From it: `FileIsWhole`
  (`TruncatedOnlyByWriter`), `SuccessIsStored` (`SuccessIsOnDisk`),
  `RefreshIsForLiveLogin`, and `StoreRefinesRegistry`: every step maps to one
  change of the registry, to the loss of the list by a fault, or to a stutter;
  the copy that a refresh puts back is one of those that were read.
  `CredentialsAreKept`: no step changes both stores, so `CredentialInv` says who
  is between the two: the command that has added a login and is still to store
  its token, and the one that has removed a token and is still to save the list.
- `TokenRefreshProofs`. `RefreshTypeCorrect`, `StoredTokenIsAccepted`,
  `TokensAreUsedOnce`. What a process stores may be a copy it
  read long ago, so the properties are not inductive. `TokenInv` is about all
  tokens in use (stored, in the memory of a process, on their way): their
  numbers are unique, those the server has dropped have expired, and a token
  from the browser has not been seen by anyone else. Hence a valid token that is
  written back is one the server accepts. `UseInv` adds, for an OAuth login,
  that a refresh token that is stored, or about to be, has not been sent.
- `CommandContextProofs`. `ContextTypeCorrect` (proved only, no run checks it),
  `CommandsHaveLogin`, `LoginFitsRepo`, `FallbackIsLast`. `ContextInv` says what holds from the local
  repository on: nothing is found before it, a slug with a server has a login
  that fits it unless another is forced, and the config that was searched is
  the snapshot the process keeps.
- `OAuthCallbackProofs`. `CallbackTypeCorrect`, with the room of every channel.
  `RedirectInv` follows a value through the channels: what a handler sends is of
  its own redirect, what is in a channel or was received comes from some
  redirect, and the flow acts on what it has received. Hence
  `MismatchIsForeign` for any number of requests, and `CodeAndStateBelongTogether`
  (`StateComesWithCode`): the state that is received is that of the redirect whose
  code was, or of one that has overtaken it.
- `PullBranchesProofs`. `PullBranchesTypeCorrect`, then `CommitsInv` (no commit is
  anywhere before it is made) and `PullInv`: the commits the command was told of
  stay at the server unless its branch was rewritten or deleted (`AnswerInv`),
  from the fetch on a tracking branch has them, then the local branch that is
  created or found (`CheckoutInv`); the branch that clean is to delete is at the
  tip of a tracking branch and HEAD has left it, unless it is the default branch
  (`CleanInv`). From it `HeadExistsButDefault`, `CheckoutIsOfPull` and
  `CleanLosesOnlyRemote`, the last two about steps. Nothing is assumed of the way
  the server merges: that clean may delete the default branch (the run
  `clean_default`) is the exception these properties name.
- `ServerCommandsProofs`. About any commands, rows and page size, any number of
  lost calls and of changes by others. `CommandTypeCorrect`: ids stay distinct
  because a fresh one is above all that were ever seen (`RowInv` keeps the
  bound, over the rows that others removed too), no step leads out of the
  command, what is written back never has an id. `FoundIfThere` and
  `CollectedIfThere`: a row that is there all the time is reported missing by the
  search through the pages, or left out of what is collected from them, only if a
  row went while pages after the first were read. `PagesInv` says that the
  row's place in the list is behind the pages that were read, or else the row
  was collected from one of them (`NotPassed`, `TakenOrAhead`): a change keeps
  ids, kinds and owners, a new row comes last, a row that goes is what the
  theorems exclude; and that no other step is taken on a page but the first
  (`OnFirstPage`), so that no list is begun in the middle.
  `RefusedIsUnchanged`, for commands that look up first
  (`OneThingLooksUpFirst`): that a refused command has changed nothing is not
  inductive, since what a step to come will find depends on what was written.
  `LookUpInv` adds that once something is changed every step still to come that
  may be refused is `Ready`, the row it is about being there; that a running
  command that has changed something is past a step that writes, or at the
  removal of labels, which goes on; and which fields may be written back. One
  lemma per kind of step. A reviewer or an assignee the server does not know is
  not part of this: that refusal does come after changes, and how far they go
  (`UnknownUserKeepsFields`) is left to TLC. The theorem is about each run of the command: what a run left
  when a call of it was lost, the next one finds there.
  `OnlyAskedIsDone`, for commands whose writes answer to a wish
  (`AllWriteAsAsked`): a step that writes a row it has read before changes only
  what was asked if the row still is the one that was read. `ReadInv` says so:
  what is to be written back is what was read of the row found (`PatchAsRead`,
  `FoundAsKept`), the row found and the rows collected have the names they were
  looked for under and no other row has their ids (`FoundAsNamed`,
  `ListedAsRead`), and a command that makes no rows meets none but the first ones
  and those of others (`KnownRows`). TLC checked it before it was proved. It needs that nobody else renames a row meanwhile
  (`NobodyRenames`); without it a label that another user gives a new name after
  its id was read would be removed under a name nobody has asked to remove, which
  is how the code behaves, since it goes by ids from then on.
- `JobLogsProofs`. `JobLogsTypeCorrect`. `FollowPrintsLog`: what was printed of a
  job that is not run again is the beginning of its log, from
  `LengthIsPrinted`, that the length remembered is that of what was printed.
  `FollowPrintsWholeLog`, from `SeenComplete`: the status is read before the
  log, so when the loop is left the log that is read grows no more.

The assumptions are those the modules name (`...Assumption`): the free value is
not a process or thread, bounds are natural numbers, the initial lists have
distinct names, the margin is less than the threshold, configs and repositories
have logins and URLs of their types, the default branch is not one of those of
the pull request and checkout makes no branch of its name
(`BranchAssumption`), rows of the server have distinct ids, and nobody sets an
id, a kind or an owner (`RowsAssumption`, `OthersAssumption`). `StepFits` is what `ServerCommandsProofs`
assumes of a command: a question skips no further than the end, a search goes
through all rows of a kind, no patch or body has an id. TLC evaluates them in
every run, `StepFits` for each step of the 131 commands. The hypotheses of
`RefusedIsUnchanged` and `OnlyAskedIsDone` are evaluated in `server_commands`, for
the 131 commands and for what others do in these runs. So TLC looks at the text
of the commands, which is finite, and the theorems cover every server, every
loss of a call and every interleaving with other users.

Every safety invariant and action property of the passing runs is proved, but
for two. `UnknownUserKeepsFields` is one; `DoneAsAsked` is the other. It says that a handler has done all it is asked. The wishes
are rows of a given server (the labels a name stands for, the rows of a filter),
and that the steps of a handler add up to them has one argument per command and no
general one: it stays with TLC.
Only model-checked is also liveness (`CallIsAnswered`, `CommandEnds`, `FlowEnds`,
`RerunFinishes`, `FollowEnds`), which rests on fairness and is beyond the prover.

## 5. Plan

*Done*: lock, login store, token refresh, browser login, command context, pull
request branches, the commands at the server, job logs.

*Done*: a type invariant for every component, and each safety property of the
runs but the two named in section 4, as theorems.

To come:

1. `JobLogs`: what a follower prints of a job that is run again meanwhile, which
   `PrintedIsLog` leaves out.
2. `ServerCommands`: `DoneAsAsked` for commands without lists, from a condition
   on their steps like those of `CommandShapes`.
3. `ServerCommands`: `UnknownUserKeepsFields` for commands that set no field
   before the last step that names users.
4. `TokenRefresh` under `LoginStore`: the credential a refresh stores is the
   newest one the server has issued.

## 6. Not modelled

- Formatting (`modules/print`, theme, tables), logging, the manual and shell
  completion, version and user agent strings, file and URL helpers: no state.
- `clone`: one API call and then go-git in a new directory that nobody else
  uses. The credential helper: a lookup by name or host, the refresh that
  `TokenRefresh` models for any number of processes, and output. `open`, the SSH
  agent and the choice of keys.
- In the login store: the preferences (read only), the migration of the old
  config path, the form of `login add`, which only fills the arguments of
  `CreateLogin`. Windows file locking is used through the same two calls as
  flock.
- In the commands: wording and layout of what they print, `--output` but for
  the order in which `api` makes its file, the parsing of dates, colors and
  indices (refused before the first call, as missing arguments are), the diff
  behind a review, `TeaFindBranchRemote`. The goroutine that fetches the choices
  of a form is a step of the command: its channel has room for its one answer,
  and the command waits for it before the choices are shown.
