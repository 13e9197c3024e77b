---------------------------- MODULE RepoCommands ----------------------------
(***************************************************************************)
(* The commands on repositories and on what a repository has besides its   *)
(* issues: releases and their attachments, webhooks, secrets, variables    *)
(* and runs of its actions, branches, notifications.                       *)
(***************************************************************************)
EXTENDS ApiCalls

----------------------------------------------------------------------------
(* Releases and attachments.                                               *)

\* Found by its tag in the pages of all releases.
GetReleaseByTag(tag) == Search(ByName("release", tag))

\* Files are opened one by one, each before it is sent (`files`: their names,
\* or Unset for one that cannot be read).
Attach(files) ==
    Each(files, LAMBDA f : Require(f # Unset, CreateWithin(Row("asset", 0, f, 0))))

\* With --delete-tag the command returns after the tag of the first release.
ReleaseDelete(tags, confirm, deleteTag) ==
    IF tags = <<>> \/ ~confirm THEN Tell
    ELSE Each(tags, LAMBDA t :
             GetReleaseByTag(t) \o Delete(Found("release"))
             \o If(deleteTag, Delete(ByName("tag", t)) \o Return))

ReleaseEdit(tags, patch) ==
    IF tags = <<>> THEN Tell
    ELSE Each(tags, LAMBDA t : GetReleaseByTag(t) \o Edit(Found("release"), patch))

\* The tag is given by --tag or as the argument.
ReleaseCreate(row, bothTags, noteReadable, files) ==
    Require(~bothTags /\ noteReadable, CreateUnique(row) \o Attach(files))

ReleasesList == List("release", NoFields)

ReleaseAttachmentCreate(tag, files) ==
    Require(tag # "" /\ files # <<>>, GetReleaseByTag(tag) \o Attach(files))

\* All attachments of the release are listed before the first is deleted; of
\* several with one name the last is meant.
ReleaseAttachmentDelete(tag, names, confirm) ==
    Require(tag # "" /\ names # <<>>,
            IF ~confirm THEN Tell
            ELSE GetReleaseByTag(tag) \o CollectWithin("asset")
                 \o Each(names, LAMBDA n : Delete(Listed("asset", n))))

ReleaseAttachmentList(tag, id) ==
    Require(tag # "", GetReleaseByTag(tag) \o List("asset", [of |-> {id}]))

----------------------------------------------------------------------------
(* Webhooks of a repository or an organization; global ones are refused.   *)

HookFields == {"url", "secret", "events", "active"}

WebhooksCreate(row, global) == Require(row.url # "" /\ ~global, CreateAnother(row))

\* --active before --inactive (each not set, or its value).
ActiveFlag(active, inactive) ==
    IF active # {} THEN [active |-> TRUE \in active]
    ELSE IF inactive # {} THEN [active |-> FALSE \in inactive] ELSE NoFields

\* All fields are sent: those not set are as they were read.
WebhooksUpdate(id, patch, active, inactive, global) ==
    Require(~global,
            GetToKeep(ById("hook", id), HookFields)
            \o Edit(ById("hook", id), patch @@ ActiveFlag(active, inactive)))

WebhooksDelete(id, confirm, global) ==
    Require(~global, Get(ById("hook", id)) \o Confirmed(confirm) \o Delete(ById("hook", id)))

\* `webhooks`, without a verb.
RunWebhooks(args, global, list) ==
    OneOrAll(args, Require(~global, Get(ById("hook", args[1]))), list)

WebhooksList(owner, global) == Require(~global, List("hook", [of |-> {owner}]))

----------------------------------------------------------------------------
(* Actions: secrets, variables, workflows and their runs.                  *)

\* A value comes from --file, else --stdin, else the argument, else it is
\* typed; an unreadable file has the value Unreadable.
Unreadable == "unreadable"
TooLong == "too long"
Prompted(given) == given.file = Unset /\ given.stdin = Unset /\ given.arg = Unset
ReadValue(given) ==
    IF given.file # Unset THEN given.file
    ELSE IF given.stdin # Unset THEN given.stdin
    ELSE IF given.arg # Unset THEN given.arg ELSE given.typed
Value(given, steps) ==
    If(Prompted(given), AskOrFail) \o Require(ReadValue(given) \notin {"", Unreadable}, steps)

SecretsCreate(name, given) ==
    Value(given, CreateOrSet(Row("secret", 0, name, 0) @@ [value |-> ReadValue(given)]))

SecretsDelete(name, confirm) == Confirmed(confirm) \o Delete(ByName("secret", name))

SecretsList == List("secret", NoFields)

\* A variable that exists is not set: the call creates one.
VariablesSet(name, valid, given) ==
    Require(valid,
            Value(given, Require(ReadValue(given) # TooLong,
                CreateUnique(Row("variable", 0, name, 0) @@ [value |-> ReadValue(given)]))))

VariablesDelete(name, confirm) == Confirmed(confirm) \o Delete(ByName("variable", name))

\* Only a variable of a name can be shown.
VariablesList(name) == IF name = "" THEN Tell ELSE Get(ByName("variable", name))

RunsDelete(id, confirm) == Confirmed(confirm) \o Delete(ById("run", id))

RunsView(id, jobs) == Get(ById("run", id)) \o If(jobs, List("job", [of |-> {id}]))

\* The status is filtered by the server, the time by the client, in the page.
RunsList(where, times, valid) == Require(valid, ListIf("run", where, times))

WorkflowsDisable(name, confirm) ==
    Confirmed(confirm) \o Edit(ByName("workflow", name), [active |-> FALSE])
WorkflowsEnable(name) == Edit(ByName("workflow", name), [active |-> TRUE])
WorkflowsList == List("workflow", NoFields)
WorkflowsView(name) == Get(ByName("workflow", name))

----------------------------------------------------------------------------
(* Branches.                                                               *)

BranchesProtect(branches, protect) ==
    Require(branches # <<>>,
            Each(branches, LAMBDA b : IF protect THEN CreateUnique(Row("protection", 0, b, 0))
                                      ELSE Delete(ByName("protection", b))))

BranchesRename(args) ==
    Require(Len(args) = 2, Edit(ByName("branch", args[1]), [name |-> args[2]]))

\* The first page of the branches, and the first of the protections.
BranchesList == List("branch", NoFields) \o List("protection", NoFields)

----------------------------------------------------------------------------
(* Repositories.  A repository is shown with its topics after each change: *)
(* another call, whose failure is the command's.                           *)

ShowRepo == List("topic", NoFields)
RunRepos(args, list) == OneOrAll(args, Get(ByName("repo", args[1])) \o ShowRepo, list)

RepoCreate(row, knownTrustModel) == Require(knownTrustModel, CreateUnique(row) \o ShowRepo)
RepoCreateFromTemplate(row) == CreateUnique(row) \o ShowRepo
RepoFork(row) == CreateUnique(row) \o ShowRepo
RepoMigrate(row, knownService) == Require(knownService, CreateUnique(row) \o ShowRepo)
RepoEdit(name, patch) == Edit(ByName("repo", name), patch) \o ShowRepo

\* Without --force the name must be typed.
RepoDelete(name, force) == If(~force, AskOrFail) \o Delete(ByName("repo", name))

\* The owner is looked up among the organizations first: both ways list what
\* it owns.  --watched is cut into pages by the client; --type filters a page.
ReposList(owner, where, types) ==
    If(owner # "", List("org", [name |-> {owner}])) \o ListIf("repo", where, types)

\* An owner that is no organization must be a user.
ReposSearch(owner, isOrg, where, validType) ==
    If(owner # "", List("org", [name |-> {owner}]) \o If(~isOrg, Get(ByName("user", owner))))
    \o Require(validType, List("repo", where))

----------------------------------------------------------------------------
(* Notifications.                                                          *)

\* All in one of the states, of the repository or of all (--mine), or one.
MarkNotificationAs(subject, filterStates, of, targetState) ==
    IF subject = 0
    THEN Edit(All("notification", [state |-> filterStates, of |-> of]), [state |-> targetState])
    ELSE Edit(ById("notification", subject), [state |-> targetState])
         \o Get(ById("notification", subject))

\* Without --states: unread ones are marked read or pinned, read ones unread;
\* unpin looks for pinned ones only, and marks them read.
NotificationsMark(as, states, subject, of) ==
    MarkNotificationAs(subject,
        IF as = "unpin" THEN {"pinned"}
        ELSE IF states # {} THEN states
        ELSE IF as = "unread" THEN {"read"} ELSE {"unread"},
        of, IF as = "unpin" THEN "read" ELSE as)

NotificationsList(states, of) == List("notification", [state |-> states, of |-> of])

----------------------------------------------------------------------------
(* `api`: any request.  An endpoint has a host ("": that of the login) and *)
(* names rows.  Of -f and -F fields key and value remain: Unset for one    *)
(* that cannot be read or parsed.                                          *)

Endpoint(host, pick) == [host |-> host, pick |-> pick]
BuildURL(endpoint) == endpoint.host \in {"", "login"}

\* --data is one body, or none; one that cannot be read or parsed has no fields.
BodyGiven(data, fields) == data # {} \/ fields # <<>>
ValidBody(data, fields) ==
    /\ data = {} \/ fields = <<>>
    /\ NoFields \notin data
    /\ \A i \in DOMAIN fields : fields[i][1] # "" /\ fields[i][2] # Unset
    /\ \A i, j \in DOMAIN fields : fields[i][1] = fields[j][1] => i = j
Body(data, fields) ==
    IF data # {} THEN CHOOSE d \in data : TRUE
    ELSE [k \in {f[1] : f \in ToSet(fields)} |-> (CHOOSE f \in ToSet(fields) : f[1] = k)[2]]

\* A body makes it a POST unless --method is given.
Method(given, data, fields) ==
    IF given # "" THEN given ELSE IF BodyGiven(data, fields) THEN "POST" ELSE "GET"

\* The file of --output is made only after the request.
Api(args, validHeaders, data, fields, method, outputFails) ==
    Require(args # <<>> /\ validHeaders /\ ValidBody(data, fields),
        Require(BuildURL(args[1]),
            Request(Method(method, data, fields), args[1].pick, Body(data, fields))
            \o If(outputFails, Fail)))
=============================================================================
