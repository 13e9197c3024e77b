---------------------------- MODULE ItemCommands ----------------------------
(***************************************************************************)
(* The commands on issues, pull requests and what belongs to them: labels, *)
(* milestones, comments, reviews, tracked times.  Parameters are the       *)
(* arguments and the flags that are set: `patch` has a field for each flag *)
(* that sets one, and names are sets where their order does not matter.    *)
(* Indices that are no numbers are left out: they are refused before the   *)
(* first call, as missing arguments are.                                   *)
(***************************************************************************)
EXTENDS ApiCalls

Item(index) == ById("item", index)

----------------------------------------------------------------------------
(* Flags and tasks.                                                        *)

NoOpts == [patch |-> NoFields, milestone |-> Unset, add |-> {}, rm |-> {},
           addReviewers |-> {}, rmReviewers |-> {}]
\* The options of edit: those of the flags that are set.
GetIssuePREditFlags(set) == set @@ NoOpts

\* --milestone: not set, set to "" (it is taken off), or the name of one,
\* whose id is what is sent.
ResolveMilestoneID(milestone) ==
    If(milestone \notin {Unset, ""}, GetLink(ByName("milestone", milestone), "milestone"))

\* Each list of names is resolved to ids; a name without a label is dropped.
ResolveLabelOpts(names, into) == If(names # {}, CollectNamed("label", names, into))

\* Mutant: added first.
ApplyLabelChangesAddFirst(index, add, rm) ==
    If(add # {}, AddCollected(Item(index), "labels"))
    \o If(rm # {}, RemoveCollected(Item(index), "labels"))

\* Removed first: a label that is both added and removed stays.
ApplyLabelChanges(index, add, rm) ==
    If(rm # {}, RemoveCollected(Item(index), "labels"))
    \o If(add # {}, AddCollected(Item(index), "labels"))

ApplyReviewerChanges(index, add, rm) ==
    If(rm # {}, Change(Item(index), "reviewers", {}, rm))
    \o If(add # {}, Change(Item(index), "reviewers", add, {}))

\* Mutant: the milestone is resolved after the labels are changed.
EditIssueResolvesLate(index, opts) ==
    LET dirty == opts.patch # NoFields \/ opts.milestone # Unset IN
    ResolveLabelOpts(opts.add, "add") \o ResolveLabelOpts(opts.rm, "rm")
    \o ApplyLabelChanges(index, opts.add, opts.rm)
    \o ResolveMilestoneID(opts.milestone)
    \o If(dirty, Edit(Item(index), opts.patch @@ IF opts.milestone = ""
                                                 THEN [milestone |-> 0] ELSE NoFields))
    \o If(~dirty, Get(Item(index)))

\* Mutant: a flag that is not set is sent as if it were empty.
EditIssueSendsUnset(index, opts) ==
    ResolveLabelOpts(opts.add, "add") \o ResolveLabelOpts(opts.rm, "rm")
    \o ResolveMilestoneID(opts.milestone)
    \o ApplyLabelChanges(index, opts.add, opts.rm)
    \o Edit(Item(index), opts.patch @@ IF opts.milestone \in {"", Unset}
                                       THEN [milestone |-> 0] ELSE NoFields)

\* The names of labels and of the milestone are resolved before the first
\* change.  The fields, the assignees among them, are sent last, and only if
\* there are any.
EditIssue(index, opts) ==
    LET dirty == opts.patch # NoFields \/ opts.milestone # Unset IN
    ResolveLabelOpts(opts.add, "add") \o ResolveLabelOpts(opts.rm, "rm")
    \o ResolveMilestoneID(opts.milestone)
    \o ApplyLabelChanges(index, opts.add, opts.rm)
    \o If(dirty, Edit(Item(index), opts.patch @@ IF opts.milestone = ""
                                                 THEN [milestone |-> 0] ELSE NoFields))
    \o If(~dirty, Get(Item(index)))

\* Mutant: the reviewers are requested last.
EditPullReviewersLast(index, opts) ==
    LET dirty == opts.patch # NoFields \/ opts.milestone # Unset IN
    ResolveLabelOpts(opts.add, "add") \o ResolveLabelOpts(opts.rm, "rm")
    \o ResolveMilestoneID(opts.milestone)
    \o ApplyLabelChanges(index, opts.add, opts.rm)
    \o If(dirty, Edit(Item(index), opts.patch)) \o If(~dirty, Get(Item(index)))
    \o ApplyReviewerChanges(index, opts.addReviewers, opts.rmReviewers)

\* As for an issue, and reviewers are requested after the labels are changed.
\* A milestone "" is sent as the id 0, which for a pull request changes nothing.
EditPull(index, opts) ==
    LET dirty == opts.patch # NoFields \/ opts.milestone # Unset IN
    ResolveLabelOpts(opts.add, "add") \o ResolveLabelOpts(opts.rm, "rm")
    \o ResolveMilestoneID(opts.milestone)
    \o ApplyLabelChanges(index, opts.add, opts.rm)
    \o ApplyReviewerChanges(index, opts.addReviewers, opts.rmReviewers)
    \o If(dirty, Edit(Item(index), opts.patch)) \o If(~dirty, Get(Item(index)))

\* The flags of create: the labels are always looked up.
GetIssuePRCreateFlags(opts) ==
    CollectNamed("label", opts.add, "add") \o ResolveMilestoneID(opts.milestone)

CreateIssue(row) == If(row.name = "", Fail) \o CreateAnother(row)

\* --base defaults to the default branch of the repository, and --head to the
\* branch that is checked out; `where` has both ("": there is no such branch).
GetDefaultPRBase(base) == If(base = "", Get(ByName("repo", "this")))
BaseBranch(base, where) == IF base = "" THEN where.default ELSE base
HeadBranch(head, where) == IF head = "" THEN where.current ELSE head

\* A pull request from a branch to itself is refused.  The server does not
\* take the maintainers' permission at creation, so that it is edited at once.
\* (`maintain`: no value or one.)
CreatePull(row, head, base, where, maintain) ==
    GetDefaultPRBase(base)
    \o Require(HeadBranch(head, where) \notin {"", BaseBranch(base, where)} /\ row.name # "",
          CreateAnother(row)
          \o If(maintain \notin {{}, {row.maintain}},
                Edit(Found("item"), [maintain |-> TRUE \in maintain])))

\* The pull request is made by a push to a remote, with no more than its
\* title and its body; the topic defaults to the head.
CreateAgitFlowPull(title, body, remote, head, base, topic, where) ==
    GetDefaultPRBase(base)
    \o Require(/\ remote # "" /\ title # ""
               /\ HeadBranch(head, where) \notin {"", BaseBranch(base, where)}
               /\ topic # BaseBranch(base, where),
          Request("POST", ByName("item", title), [body |-> body]))

\* The server merges open pull requests only.
PullMerge(index) == Edit(ByIdIf("item", index, [state |-> {"open"}]), [state |-> "merged"])

CreatePullReview(index, state) == CreateAnother(Row("review", 0, state, index))

CreateMilestone(row) == If(row.name = "", Fail) \o CreateUnique(row)

----------------------------------------------------------------------------
(* Forms.                                                                  *)

\* Fetched while title and description are typed; without the permission to
\* push nothing further can be set.
FetchIssueSelectables(mayPush) ==
    List("repo", NoFields)
    \o If(mayPush, List("milestone", NoFields) \o CollectAll("label"))

PromptIssueProperties(labels, mayPush) ==
    Form \o FetchIssueSelectables(mayPush)
    \o If(mayPush, Form \o AcceptMilestone \o SelectLabels(labels))

CreateIssueForm(row, labels, mayPush) ==
    PromptIssueProperties(labels, mayPush) \o CreateIssue(row)

\* The branches are asked for before the properties; what is chosen of these
\* is not sent in the agit flow.
CreatePullForm(row, labels, head, base, where, maintain) ==
    Form \o GetDefaultPRBase("") \o Form \o PromptIssueProperties(labels, TRUE)
    \o CreatePull(row, head, base, where, {maintain})
CreateAgitFlowPullForm(title, body, labels, remote, head, base, topic, where) ==
    Form \o GetDefaultPRBase("") \o Form \o PromptIssueProperties(labels, TRUE)
    \o CreateAgitFlowPull(title, body, remote, head, base, topic, where)

\* Title and description are prefilled with what was read, and sent in any
\* case.  The labels selected are to replace those of the issue.  (EditIssue
\* resolves their names again; here the ids are kept.)
EditIssueForm(index, labels) ==
    GetToKeep(Item(index), {"name", "body"})
    \o FetchIssueSelectables(TRUE) \o Form \o AcceptMilestone \o SelectLabels(labels)
    \o RemoveCollected(Item(index), "labels") \o AddCollected(Item(index), "labels")
    \o Edit(Item(index), NoFields)

\* The pages of open pull requests are offered until one is chosen.
MergePullForm(index) == List("item", [state |-> {"open"}]) \o Form \o PullMerge(index)

\* Quitting the review of one goes on with the next.
ReviewPullForm(index, state) == FormSkip(1) \o CreatePullReview(index, state)

----------------------------------------------------------------------------
(* Issues.                                                                 *)

IssuesCreate(row, opts) == GetIssuePRCreateFlags(opts) \o CreateIssue(row)

\* Without a flag the user fills in a form for each.
IssuesEdit(indices, opts) ==
    Require(indices # <<>>, Each(indices, LAMBDA i : EditIssue(i, opts)))
IssuesEditForm(indices, labels) ==
    Require(indices # <<>>, Each(indices, LAMBDA i : EditIssueForm(i, labels)))

\* The states and kinds that --state and --kind stand for; others are refused.
ParseState(state) ==
    CASE state = "all"          -> {"open", "closed", "merged"}
      [] state \in {"", "open"} -> {"open"}
      [] state = "closed"       -> {"closed", "merged"}
      [] OTHER                  -> {}
\* (Whether an item is a pull request.)
ParseIssueKind(kind, default) ==
    CASE kind = ""                        -> default
      [] kind = "all"                     -> {FALSE, TRUE}
      [] kind \in {"issue", "issues"}     -> {FALSE}
      [] kind \in {"pull", "pulls", "pr"} -> {TRUE}
      [] OTHER                            -> {}

\* Those of a repository, or of all; then --assignee is refused.  The other
\* flags (`where`) are filters of the server too.
RunIssuesList(inRepo, assignee, state, kind, where) ==
    LET pull == ParseIssueKind(kind, {FALSE}) IN
    Require(ParseState(state) # {} /\ pull # {} /\ (inRepo \/ ~assignee),
            List("item", [state |-> ParseState(state), pull |-> pull] @@ where))

\* --comments: its value, or not set; then, at a terminal, the user is asked
\* for each page.  (For an item that has comments.)
ShowCommentsMaybeInteractive(index, comments) ==
    IF comments = {TRUE} THEN List("comment", [of |-> {index}])
    ELSE If(comments = {}, FormSkip(1) \o TryList("comment", [of |-> {index}]))

RunIssueDetail(index, json, comments) ==
    Get(Item(index)) \o List("reaction", [of |-> {index}])
    \o IF json THEN If(comments = {TRUE}, List("comment", [of |-> {index}]))
       ELSE ShowCommentsMaybeInteractive(index, comments)

RunIssues(args, json, comments, list) ==
    OneOrAll(args, RunIssueDetail(args[1], json, comments), list)

EditIssueState(indices, state) ==
    Require(indices # <<>>, Each(indices, LAMBDA i : Edit(Item(i), [state |-> state])))
IssuesClose(indices)  == EditIssueState(indices, "closed")
IssuesReopen(indices) == EditIssueState(indices, "open")

----------------------------------------------------------------------------
(* Pull requests.                                                          *)

PullsCreate(row, opts, head, base, where, maintain) ==
    GetIssuePRCreateFlags(opts) \o CreatePull(row, head, base, where, maintain)
PullsCreateAgit(title, body, opts, remote, head, base, topic, where) ==
    GetIssuePRCreateFlags(opts)
    \o CreateAgitFlowPull(title, body, remote, head, base, topic, where)

PullsEdit(indices, opts) ==
    Require(indices # <<>>, Each(indices, LAMBDA i : EditPull(i, opts)))

EditPullState(indices, state) ==
    Require(indices # <<>>, Each(indices, LAMBDA i : Edit(Item(i), [state |-> state])))
PullsClose(indices)  == EditPullState(indices, "closed")
PullsReopen(indices) == EditPullState(indices, "open")

\* With the field ci the status of each (`pulls`) is looked up; a failure is
\* shown in its place.
RunPullsList(state, ci, pulls) ==
    Require(ParseState(state) # {},
            List("item", [pull |-> {TRUE}, state |-> ParseState(state)])
            \o If(ci, Each(pulls, LAMBDA p : TryList("status", [of |-> {p}]))))

\* Reviews, the status and, unless the output is JSON, the comments may be
\* missing from what is shown.
RunPullDetail(index, json, comments) ==
    Get(Item(index)) \o TryList("review", [of |-> {index}])
    \o IF json THEN If(comments = {TRUE}, List("comment", [of |-> {index}]))
       ELSE TryList("status", [of |-> {index}])
            \o IF comments = {TRUE} THEN TryList("comment", [of |-> {index}])
               ELSE ShowCommentsMaybeInteractive(index, comments)

RunPulls(args, json, comments, list) ==
    OneOrAll(args, RunPullDetail(args[1], json, comments), list)

\* Without an index the user chooses.
PullsMerge(indices, chosen) ==
    IF Len(indices) # 1 THEN MergePullForm(chosen) ELSE PullMerge(indices[1])

\* A rejection needs a comment.
RunPullReview(args, state, requireComment) ==
    Require(Len(args) >= (IF requireComment THEN 2 ELSE 1), CreatePullReview(args[1], state))
PullsApprove(args) == RunPullReview(args, "approved", FALSE)
PullsReject(args)  == RunPullReview(args, "rejected", TRUE)

RunResolveComment(ids, resolved) ==
    Require(ids # <<>>, Edit(ById("comment", ids[1]), [resolved |-> resolved]))
PullsResolve(ids)   == RunResolveComment(ids, TRUE)
PullsUnresolve(ids) == RunResolveComment(ids, FALSE)

\* The comments of all reviews: a call for each review.
ListPullReviewComments(index, reviews) ==
    List("review", [of |-> {index}])
    \o Each(reviews, LAMBDA r : List("comment", [of |-> {r}]))
PullsReviewComments(args, reviews) ==
    Require(args # <<>>, ListPullReviewComments(args[1], reviews))

\* Each in turn is reviewed, if there is a terminal.
PullsReview(indices, state, terminal) ==
    Require(indices # <<>> /\ terminal, Each(indices, LAMBDA i : ReviewPullForm(i, state)))

\* The body comes from the arguments and the standard input, or from a form.
AddComment(indices, body, piped) ==
    Require(indices # <<>>,
            If(body = "", IF piped THEN Fail ELSE Form)
            \o CreateAnother(Row("comment", 0, body, indices[1]) @@ [resolved |-> FALSE]))

----------------------------------------------------------------------------
(* Labels, milestones, tracked times.                                      *)

\* One label, or those of the lines of a file that have a color and a name.
LabelsCreate(row, file, lines) ==
    IF ~file THEN CreateAnother(row)
    ELSE Each(SelectSeq(lines, LAMBDA l : l.name # "" /\ l.color # ""),
              LAMBDA l : CreateAnother(l))

\* Only flags that are not empty are sent.
LabelsUpdate(id, patch) == Edit(ById("label", id), patch)

LabelsDelete(id) == Get(ById("label", id)) \o Delete(ById("label", id))

\* --save writes what would be shown.
LabelsList == List("label", NoFields)

\* Without a flag the user fills in a form.
CreateMilestoneForm(row) == Form \o CreateMilestone(row)
MilestonesCreate(row, interactive) ==
    IF interactive THEN CreateMilestoneForm(row) ELSE CreateMilestone(row)

EditMilestoneStatus(names, state) ==
    Require(names # <<>>,
            Each(names, LAMBDA n : Edit(ByName("milestone", n), [name |-> n, state |-> state])))

MilestonesDelete(name) == Delete(ByName("milestone", name))

\* close --force deletes.
MilestonesClose(names, force) ==
    IF force THEN MilestonesDelete(IF names = <<>> THEN "" ELSE names[1])
    ELSE EditMilestoneStatus(names, "closed")
MilestonesReopen(names) == EditMilestoneStatus(names, "open")

MilestonesList(state) ==
    Require(ParseState(state) # {}, List("milestone", [state |-> ParseState(state)]))

RunMilestones(args, list) == OneOrAll(args, Get(ByName("milestone", args[1])), list)

\* (`id`: of the milestone; its name is the filter that is sent.)
MilestoneIssueList(names, id, state, kind) ==
    LET pull == ParseIssueKind(kind, {FALSE, TRUE}) IN
    Require(ParseState(state) # {} /\ pull # {} /\ Len(names) = 1,
            Get(ByName("milestone", names[1]))
            \o List("item", [state |-> ParseState(state), pull |-> pull, milestone |-> {id}]))

MilestoneIssueAdd(args) ==
    Require(Len(args) = 2, GetLink(ByName("milestone", args[1]), "milestone")
                           \o Edit(Item(args[2]), NoFields))

\* The issue must be in the milestone; it is taken off what it is in then.
MilestoneIssueRemove(args) ==
    Require(Len(args) = 2, GetLinkedTo(Item(args[2]), "milestone", args[1])
                           \o Edit(Item(args[2]), [milestone |-> 0]))

TrackedTimesAdd(args) ==
    Require(Len(args) >= 2, CreateAnother(Row("time", 0, args[2], args[1])))

TrackedTimesDelete(args) == Require(Len(args) >= 2, Delete(ById("time", args[2])))

TrackedTimesReset(args) ==
    Require(Len(args) = 1, Delete(All("time", [of |-> {args[1]}])))

\* Of an issue, a user, the repository, or one's own.
TrackedTimesList(where) == List("time", where)
=============================================================================
