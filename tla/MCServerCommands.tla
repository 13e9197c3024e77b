-------------------------- MODULE MCServerCommands --------------------------
(* Commands on a small server.  Its repository has two issues, a pull       *)
(* request, three labels on two pages, two milestones, three releases on    *)
(* two pages.  Every command of the handlers is given at least once; the    *)
(* ways in which its arguments are refused only where they differ.          *)
EXTENDS CommandShapes, ItemCommands, RepoCommands, AdminCommands

MCItem(id, name, pull, labels, milestone) ==
    Row("item", id, name, 0) @@
    [body |-> "old", state |-> "open", pull |-> pull, labels |-> labels,
     milestone |-> milestone, reviewers |-> {}, assignees |-> {}, maintain |-> FALSE]
MCUser(id, name) ==
    Row("user", id, name, 0) @@
    [email |-> "e", password |-> "old", mustChange |-> FALSE, admin |-> FALSE,
     restricted |-> FALSE, prohibitLogin |-> FALSE]
MCHook(id, of) ==
    Row("hook", id, "", of) @@
    [url |-> "u", secret |-> "s", events |-> {"push"}, active |-> FALSE]

MCRows ==
    {Row("repo", 1, "this", 0) @@ [archived |-> FALSE, fork |-> FALSE],
     Row("repo", 2, "rest", 95) @@ [archived |-> FALSE, fork |-> TRUE],
     MCItem(11, "i1", FALSE, {21}, 32), MCItem(12, "i2", FALSE, {}, 0),
     MCItem(13, "p1", TRUE, {22}, 32),
     Row("label", 21, "bug", 0) @@ [color |-> "red"],
     Row("label", 22, "doc", 0) @@ [color |-> "red"],
     Row("label", 23, "new", 0) @@ [color |-> "red"],
     Row("milestone", 31, "m1", 0) @@ [state |-> "open"],
     Row("milestone", 32, "m2", 0) @@ [state |-> "open"],
     Row("comment", 41, "c1", 61) @@ [resolved |-> FALSE],
     Row("time", 51, "1h", 11), Row("time", 52, "2h", 11),
     Row("review", 61, "approved", 13),
     Row("release", 71, "v1", 0) @@ [title |-> "old"],
     Row("release", 72, "v2", 0) @@ [title |-> "old"],
     Row("release", 73, "v3", 0) @@ [title |-> "old"],
     Row("tag", 74, "v1", 0), Row("tag", 75, "v2", 0), Row("tag", 76, "v3", 0),
     Row("asset", 77, "a", 73), Row("asset", 78, "b", 73), Row("asset", 79, "a", 73),
     MCHook(81, 0), MCHook(82, 96),
     Row("secret", 83, "S", 0) @@ [value |-> "old"],
     Row("variable", 84, "V", 0) @@ [value |-> "old"],
     Row("run", 85, "r1", 0) @@ [status |-> "success", started |-> 1], Row("job", 86, "j1", 85),
     Row("workflow", 87, "w", 0) @@ [active |-> TRUE],
     Row("branch", 88, "dev", 0), Row("branch", 89, "main", 0), Row("protection", 90, "main", 0),
     Row("notification", 91, "n1", 1) @@ [state |-> "unread"],
     Row("notification", 92, "n2", 1) @@ [state |-> "pinned"],
     Row("notification", 93, "n3", 2) @@ [state |-> "unread"],
     Row("reaction", 42, "+1", 11), Row("comment", 44, "c2", 11) @@ [resolved |-> FALSE],
     Row("status", 43, "success", 13), Row("topic", 98, "go", 1),
     MCUser(94, "ann"), MCUser(95, "bob"),
     Row("org", 96, "org", 0) @@ [visibility |-> "public"],
     Row("key", 97, "id", 0) @@ [key |-> "k"]}

MCOthersPatch ==
    [k \in {r.kind : r \in MCRows} |->
        CASE k = "item" -> [body |-> "theirs"]
          [] k = "label" -> [color |-> "blue"]
          [] k = "milestone" -> [state |-> "closed"]
          [] k = "comment" -> [resolved |-> TRUE]
          [] k = "release" -> [title |-> "theirs"]
          [] k = "hook" -> [events |-> {"push", "issues"}]
          [] k \in {"secret", "variable"} -> [value |-> "theirs"]
          [] k = "notification" -> [state |-> "read"]
          [] k = "user" -> [email |-> "theirs"]
          [] OTHER -> NoFields]

Does(steps, wishes) == [does |-> steps, asks |-> wishes]

With(set) == GetIssuePREditFlags(set)
Labels(id, in, out) == ToMember(Item(id), "labels", in, out)
New(kind, name, fields) == ToHave(ByName(kind, name), fields)
ToSeeAll(kind) == {ToSee(All(kind, NoFields))}
\* No label and no user has this id.
Nobody == 99
\* Nobody asked for it, and it is done.
Unasked(wish) == wish
Arg(value) == [file |-> Unset, stdin |-> Unset, arg |-> value, typed |-> ""]

IssueCommandsGiven == <<
    Does(IssuesEdit(<<11, 12>>, With([patch |-> [name |-> "new"]])),
         {ToHave(Item(11), [name |-> "new"]), ToHave(Item(12), [name |-> "new"])}),
    Does(IssuesEdit(<<11>>, With([add |-> {"new", "bug"}, rm |-> {"bug", "doc"}])),
         {Labels(11, {21, 23}, {22})}),
    Does(IssuesEdit(<<11, 12>>, With([rm |-> {"bug"}, milestone |-> ""])),
         {Labels(11, {}, {21}), Labels(12, {}, {21}),
          ToHave(Item(11), [milestone |-> 0]), ToHave(Item(12), [milestone |-> 0])}),
    Does(IssuesEdit(<<12>>, With([milestone |-> "m1"])), {ToHave(Item(12), [milestone |-> 31])}),
    Does(IssuesEdit(<<12>>, With([milestone |-> "m3", add |-> {"bug"}])),
         {Labels(12, {21}, {}), OrNot(ToHave(Item(12), [milestone |-> 0]))}),
    Does(IssuesEdit(<<12>>, With([add |-> {"bug", "none"}])),
         {Labels(12, {21}, {}), Unmet(Labels(12, {Nobody}, {}))}),
    Does(IssuesEdit(<<11, 12>>, With([patch |-> [assignees |-> {94, 95}]])),
         {ToHave(Item(11), [assignees |-> {94, 95}]), ToHave(Item(12), [assignees |-> {94, 95}])}),
    Does(IssuesEdit(<<12>>, With([add |-> {"bug"}, patch |-> [body |-> "new", assignees |-> {94, Nobody}]])),
         {Labels(12, {21}, {}), ToHave(Item(12), [body |-> "new", assignees |-> {94, Nobody}])}),
    Does(IssuesEdit(<<>>, NoOpts), {}),
    Does(IssuesEditForm(<<11>>, {"new"}),
         {Labels(11, {23}, {21}), ToHave(Item(11), [milestone |-> 32])}),
    Does(IssuesEditForm(<<12>>, {"new"}),
         {Labels(12, {23}, {}), Unasked(ToHave(Item(12), [milestone |-> 31]))}),
    Does(IssuesClose(<<11, 12>>),
         {ToHave(Item(11), [state |-> "closed"]), ToHave(Item(12), [state |-> "closed"])}),
    Does(RunIssuesList(TRUE, TRUE, "", "", NoFields), {ToSee(All("item", [pull |-> {FALSE}, state |-> {"open"}]))}),
    Does(RunIssues(<<11>>, FALSE, {TRUE}, RunIssuesList(TRUE, FALSE, "", "", NoFields)),
         {ToSee(All("comment", [of |-> {11}])), ToSee(All("reaction", [of |-> {11}]))}),
    Does(RunIssues(<<>>, FALSE, {}, RunIssuesList(FALSE, TRUE, "all", "pr", NoFields)),
         {ToSee(All("item", [pull |-> {TRUE}]))}),
    Does(IssuesCreate(MCItem(0, "i3", FALSE, {}, 0), With([add |-> {"new"}, milestone |-> "m2"])),
         {New("item", "i3", [labels |-> {23}, milestone |-> 32])}),
    Does(CreateIssueForm(MCItem(0, "i3", FALSE, {}, 0), {"bug"}, TRUE),
         {New("item", "i3", [labels |-> {21}])}),
    Does(LabelsCreate(Row("label", 0, "x", 0), FALSE, <<>>), {New("label", "x", NoFields)}),
    Does(LabelsCreate(Row("label", 0, "", 0), TRUE,
                      <<Row("label", 0, "x", 0) @@ [color |-> "red"],
                        Row("label", 0, "z", 0) @@ [color |-> ""],
                        Row("label", 0, "y", 0) @@ [color |-> "red"]>>),
         {New("label", "x", NoFields), New("label", "y", NoFields)}),
    Does(LabelsUpdate(21, [color |-> "green"]), {ToHave(ById("label", 21), [color |-> "green"])}),
    Does(LabelsDelete(21), {ToGo(ById("label", 21))}),
    Does(LabelsList, ToSeeAll("label")),
    Does(MilestonesCreate(Row("milestone", 0, "m3", 0) @@ [state |-> "open"], TRUE),
         {New("milestone", "m3", NoFields)}),
    Does(MilestonesClose(<<"m1", "m2">>, FALSE),
         {New("milestone", "m1", [state |-> "closed"]), New("milestone", "m2", [state |-> "closed"])}),
    Does(MilestonesClose(<<"m1", "m2">>, TRUE),
         {ToGo(ByName("milestone", "m1")), Unmet(ToGo(ByName("milestone", "m2")))}),
    Does(MilestonesReopen(<<"m1", "none">>),
         {New("milestone", "m1", [state |-> "open"]),
          OrNot(New("milestone", "none", [state |-> "open"]))}),
    Does(IssuesReopen(<<11>>), {ToHave(Item(11), [state |-> "open"])}),
    Does(MilestonesDelete("m1"), {ToGo(ByName("milestone", "m1"))}),
    Does(RunMilestones(<<"m3">>, MilestonesList("any")), {}),
    Does(MilestonesList(""), {ToSee(All("milestone", [state |-> {"open"}]))}),
    Does(MilestoneIssueList(<<"m2">>, 32, "open", "issues"),
         {ToSee(All("item", [state |-> {"open"}, pull |-> {FALSE}, milestone |-> {32}]))}),
    Does(MilestoneIssueAdd(<<"m1", 11>>), {ToHave(Item(11), [milestone |-> 31])}),
    Does(MilestoneIssueRemove(<<"m2", 11>>), {ToHave(Item(11), [milestone |-> 0])}),
    Does(MilestoneIssueRemove(<<"m1", 11>>), {ToHave(Item(11), [milestone |-> 0])}),
    Does(TrackedTimesAdd(<<12, "3h">>), {New("time", "3h", [of |-> 12])}),
    Does(TrackedTimesDelete(<<11, 51>>), {ToGo(ById("time", 51))}),
    Does(TrackedTimesReset(<<11>>), {ToGo(All("time", [of |-> {11}]))}),
    Does(TrackedTimesList([of |-> {11}]), {ToSee(All("time", [of |-> {11}]))})
    >>

OnBranch(branch) == [current |-> branch, default |-> "main"]

PullCommandsGiven == <<
    Does(PullsEdit(<<13>>, With([add |-> {"new"}, addReviewers |-> {94}, rmReviewers |-> {95}])),
         {Labels(13, {23}, {}), ToMember(Item(13), "reviewers", {94}, {95})}),
    Does(PullsEdit(<<13>>, With([add |-> {"new"}, addReviewers |-> {Nobody}, rmReviewers |-> {95},
                                 patch |-> [name |-> "new"]])),
         {Labels(13, {23}, {}), ToMember(Item(13), "reviewers", {Nobody}, {95}),
          ToHave(Item(13), [name |-> "new"])}),
    Does(PullsEdit(<<13>>, With([rm |-> {"doc"}, milestone |-> ""])),
         {Labels(13, {}, {22}), Unmet(ToHave(Item(13), [milestone |-> 0]))}),
    Does(PullsEdit(<<13>>, With([milestone |-> "m1", patch |-> [body |-> "new"]])),
         {ToHave(Item(13), [milestone |-> 31, body |-> "new"])}),
    Does(PullsReopen(<<>>), {}),
    Does(PullsClose(<<13>>), {ToHave(Item(13), [state |-> "closed"])}),
    Does(RunPullsList("open", TRUE, <<13>>), {ToSee(All("item", [pull |-> {TRUE}, state |-> {"open"}]))}),
    Does(RunPulls(<<13>>, FALSE, {}, RunPullsList("", FALSE, <<>>)), {}),
    Does(RunPulls(<<13>>, TRUE, {TRUE}, RunPullsList("", FALSE, <<>>)),
         {ToSee(All("comment", [of |-> {13}]))}),
    Does(PullsCreate(MCItem(0, "p2", TRUE, {}, 0), NoOpts, "dev", "", OnBranch("dev"), {TRUE}),
         {New("item", "p2", [maintain |-> TRUE])}),
    Does(PullsCreate(MCItem(0, "p2", TRUE, {}, 0), NoOpts, "", "main", OnBranch("main"), {}),
         {New("item", "p2", NoFields)}),
    Does(PullsCreate(MCItem(0, "p2", TRUE, {}, 0), NoOpts, "", "", OnBranch(""), {}),
         {New("item", "p2", NoFields)}),
    Does(PullsCreateAgit("p2", "b", With([add |-> {"new"}]), "origin", "", "", "topic", OnBranch("dev")),
         {New("item", "p2", [body |-> "b"]), Unmet(New("item", "p2", [labels |-> {23}]))}),
    Does(PullsCreateAgit("p2", "b", NoOpts, "origin", "", "", "main", OnBranch("dev")),
         {New("item", "p2", [body |-> "b"])}),
    Does(CreatePullForm(MCItem(0, "p2", TRUE, {}, 0), {"bug"}, "dev", "main", OnBranch("dev"), TRUE),
         {New("item", "p2", [maintain |-> TRUE, labels |-> {21}])}),
    Does(CreateAgitFlowPullForm("p2", "b", {"bug"}, "origin", "dev", "main", "topic", OnBranch("dev")),
         {New("item", "p2", [body |-> "b"]), Unmet(New("item", "p2", [labels |-> {21}]))}),
    Does(PullsMerge(<<13>>, 0), {ToHave(Item(13), [state |-> "merged"])}),
    Does(PullsMerge(<<>>, 13), {ToHave(Item(13), [state |-> "merged"])}),
    Does(PullsReject(<<13, "no">>), {New("review", "rejected", [of |-> 13])}),
    Does(PullsReject(<<13>>), {New("review", "rejected", [of |-> 13])}),
    Does(PullsApprove(<<13>>), {New("review", "approved", [of |-> 13])}),
    Does(PullsUnresolve(<<41>>), {ToHave(ById("comment", 41), [resolved |-> FALSE])}),
    Does(PullsResolve(<<41>>), {ToHave(ById("comment", 41), [resolved |-> TRUE])}),
    Does(PullsReviewComments(<<13>>, <<61>>), {ToSee(All("comment", [of |-> {61}]))}),
    Does(PullsReview(<<13, 13>>, "comment", TRUE),
         {OrNot(New("review", "comment", [of |-> 13]))}),
    Does(AddComment(<<12>>, "hi", FALSE), {New("comment", "hi", [of |-> 12])}),
    Does(AddComment(<<12>>, "", TRUE), {New("comment", "", [of |-> 12])})
    >>

RepoCommandsGiven == <<
    Does(ReleaseDelete(<<"v1", "v3">>, TRUE, FALSE),
         {ToGo(ByName("release", "v1")), ToGo(ByName("release", "v3"))}),
    Does(ReleaseDelete(<<"v3">>, TRUE, TRUE), {ToGo(ByName("release", "v3")), ToGo(ByName("tag", "v3"))}),
    Does(ReleaseEdit(<<"v3", "v1">>, [title |-> "new"]),
         {New("release", "v3", [title |-> "new"]), New("release", "v1", [title |-> "new"])}),
    Does(ReleaseCreate(Row("release", 0, "v4", 0) @@ [title |-> ""], FALSE, TRUE, <<"x", "y">>),
         {New("release", "v4", NoFields), New("asset", "x", NoFields), New("asset", "y", NoFields)}),
    Does(ReleaseCreate(Row("release", 0, "v1", 0) @@ [title |-> ""], FALSE, TRUE, <<>>),
         {New("release", "v1", [title |-> ""])}),
    Does(ReleasesList, ToSeeAll("release")),
    Does(ReleaseAttachmentCreate("v3", <<"x", Unset>>),
         {New("asset", "x", [of |-> 73]), New("asset", "z", [of |-> 73])}),
    Does(ReleaseAttachmentDelete("v3", <<"a", "b">>, TRUE),
         {ToGo(ById("asset", 79)), ToGo(ById("asset", 78)),
          OrNot(ToGo(ByName("asset", "a"))), OrNot(ToGo(ByName("asset", "b")))}),
    Does(ReleaseAttachmentList("v3", 73), {ToSee(All("asset", [of |-> {73}]))}),
    Does(WebhooksCreate(MCHook(0, 0), FALSE), {New("hook", "", [of |-> 0])}),
    Does(WebhooksUpdate(81, [url |-> "new"], {}, {FALSE}, FALSE),
         {ToHave(ById("hook", 81), [url |-> "new", active |-> TRUE])}),
    Does(WebhooksDelete(82, FALSE, FALSE), {ToGo(ById("hook", 82))}),
    Does(WebhooksDelete(82, TRUE, TRUE), {ToGo(ById("hook", 82))}),
    Does(RunWebhooks(<<81>>, FALSE, WebhooksList(96, FALSE)), {}),
    Does(WebhooksList(96, FALSE), {ToSee(All("hook", [of |-> {96}]))}),
    Does(SecretsCreate("S", Arg("new")), {New("secret", "S", [value |-> "new"])}),
    Does(SecretsCreate("T", [Arg("new") EXCEPT !.stdin = "in"]), {New("secret", "T", [value |-> "in"])}),
    Does(SecretsDelete("S", FALSE), {ToGo(ByName("secret", "S"))}),
    Does(SecretsList, ToSeeAll("secret")),
    Does(VariablesSet("V", TRUE, Arg("new")), {New("variable", "V", [value |-> "new"])}),
    Does(VariablesSet("W", TRUE, [Arg(Unset) EXCEPT !.typed = "new"]),
         {New("variable", "W", [value |-> "new"])}),
    Does(VariablesDelete("V", TRUE), {ToGo(ByName("variable", "V"))}),
    Does(VariablesList("V"), {}),
    Does(RunsDelete(85, FALSE), {ToGo(ById("run", 85))}),
    Does(RunsView(85, TRUE), {ToSee(All("job", [of |-> {85}]))}),
    Does(RunsList([status |-> {"success"}], NoFields, TRUE), {ToSee(All("run", [status |-> {"success"}]))}),
    Does(WorkflowsDisable("w", FALSE), {New("workflow", "w", [active |-> FALSE])}),
    Does(WorkflowsEnable("w"), {New("workflow", "w", [active |-> TRUE])}),
    Does(WorkflowsList, ToSeeAll("workflow")),
    Does(WorkflowsView("none"), {}),
    Does(BranchesProtect(<<"dev", "rel">>, TRUE),
         {New("protection", "dev", NoFields), New("protection", "rel", NoFields)}),
    Does(BranchesProtect(<<"main">>, FALSE), {ToGo(ByName("protection", "main"))}),
    Does(BranchesRename(<<"dev", "new">>),
         {ToHave(ById("branch", 88), [name |-> "new"]),
          OrNot(ToHave(ByName("branch", "dev"), [name |-> "new"]))}),
    Does(BranchesList, ToSeeAll("branch") \cup ToSeeAll("protection")),
    Does(RepoCreate(Row("repo", 0, "r", 95), TRUE), {New("repo", "r", [of |-> 95])}),
    Does(RepoCreateFromTemplate(Row("repo", 0, "r", 95)), {New("repo", "r", NoFields)}),
    Does(RepoFork(Row("repo", 0, "this-fork", 95)), {New("repo", "this-fork", NoFields)}),
    Does(RepoMigrate(Row("repo", 0, "this", 95), TRUE), {New("repo", "this", [of |-> 95])}),
    Does(RunRepos(<<"this">>, ReposList("", NoFields, NoFields)), {ToSee(All("topic", NoFields))}),
    Does(RepoEdit("rest", [archived |-> TRUE]), {New("repo", "rest", [archived |-> TRUE])}),
    Does(RepoDelete("rest", FALSE), {ToGo(ByName("repo", "rest"))}),
    Does(ReposList("bob", [of |-> {95}], NoFields), {ToSee(All("repo", [of |-> {95}]))}),
    Does(ReposSearch("bob", FALSE, [of |-> {95}, fork |-> {TRUE}], TRUE),
         {ToSee(All("repo", [of |-> {95}, fork |-> {TRUE}]))}),
    Does(NotificationsMark("read", {}, 0, {1}), {ToTurn(All("notification", [of |-> {1}, state |-> {"unread"}]), [state |-> "read"])}),
    Does(NotificationsMark("unpin", {"unread"}, 0, {1, 2}),
         {ToTurn(All("notification", [state |-> {"pinned"}]), [state |-> "read"])}),
    Does(NotificationsMark("pinned", {}, 93, {1}), {ToHave(ById("notification", 93), [state |-> "pinned"])}),
    Does(NotificationsList({"unread"}, {1, 2}), {ToSee(All("notification", [state |-> {"unread"}]))}),
    Does(Api(<<Endpoint("", Item(11))>>, TRUE, {}, <<<<"body", "new">>, <<"name", "n">>>>, "PATCH", FALSE),
         {ToHave(Item(11), [body |-> "new", name |-> "n"])}),
    Does(Api(<<Endpoint("", ByName("label", "x"))>>, TRUE, {[color |-> "red"]}, <<>>, "", FALSE),
         {New("label", "x", [color |-> "red"])}),
    Does(Api(<<Endpoint("login", Item(11))>>, TRUE, {[body |-> "new"]}, <<<<"body", "new">>>>, "PATCH", FALSE),
         {ToHave(Item(11), [body |-> "new"])}),
    Does(Api(<<Endpoint("other", Item(11))>>, TRUE, {}, <<>>, "DELETE", FALSE), {ToGo(Item(11))}),
    Does(Api(<<Endpoint("", ById("comment", 41))>>, TRUE, {}, <<>>, "DELETE", FALSE),
         {ToGo(ById("comment", 41))}),
    Does(Api(<<Endpoint("", Item(99))>>, TRUE, {}, <<>>, "", TRUE), {})
    >>

NewPassword(password) ==
    [flag |-> password, file |-> Unset, stdin |-> Unset, typed |-> "p", again |-> "p"]

AdminCommandsGiven == <<
    Does(UserCreate("eve", "e", NewPassword(""), {"restricted"}, TRUE, TRUE),
         {New("user", "eve", [restricted |-> TRUE, admin |-> FALSE, password |-> "p"])}),
    Does(UserCreate("eve", "e", [NewPassword("") EXCEPT !.again = "q"], {}, TRUE, TRUE),
         {New("user", "eve", NoFields)}),
    Does(UserEdit(<<"ann">>, [email |-> "new"], YesNo("admin", {}, TRUE), {NewPassword("new")}, FALSE, TRUE),
         {New("user", "ann", [email |-> "new", admin |-> FALSE, password |-> "new", mustChange |-> TRUE])}),
    Does(UserEdit(<<"ann">>, NoFields, NoFields, {}, TRUE, TRUE), {New("user", "ann", [mustChange |-> FALSE])}),
    Does(UserDelete(<<"bob">>, FALSE), {ToGo(User("bob"))}),
    Does(RunUsers(<<"ann">>, UserList), {}),
    Does(RunUsers(<<>>, UserList), ToSeeAll("user")),
    Does(Whoami("ann"), {}),
    Does(OrganizationCreate(<<"two">>, ""), {New("org", "two", [visibility |-> "public"])}),
    Does(OrganizationDelete(<<"org">>), {ToGo(ByName("org", "org"))}),
    Does(RunOrganizations(<<>>, OrganizationList), ToSeeAll("org")),
    Does(SSHKeyAdd("id2", "k2", ""), {New("key", "id2", [key |-> "k2"])}),
    Does(SSHKeyDelete(97, FALSE), {ToGo(ById("key", 97))}),
    Does(SSHKeyList, ToSeeAll("key"))
    >>

MCCommands ==
    IssueCommandsGiven \o PullCommandsGiven \o RepoCommandsGiven \o AdminCommandsGiven

\* They, and what others do, are such as the theorems of ServerCommandsProofs
\* ask for.
ASSUME LookUpAssumption == OneThingLooksUpFirst(MCCommands)
ASSUME AskedAssumption == AllWriteAsAsked(MCCommands)
ASSUME NamesAssumption == NobodyRenames(MCOthersPatch)

\* Handlers with a plausible slip are not.
ASSUME LateSlipAssumption ==
    LET slip == With([milestone |-> "m3", add |-> {"bug"}]) IN
    /\ LooksUpFirst(EditIssue(12, slip))
    /\ ~LooksUpFirst(EditIssueResolvesLate(12, slip))
ASSUME UnsetSlipAssumption ==
    LET slip == With([add |-> {"bug"}]) IN
    /\ WritesAsked(EditIssue(12, slip), {Labels(12, {21}, {})})
    /\ ~WritesAsked(EditIssueSendsUnset(12, slip), {Labels(12, {21}, {})})

DeleteTagGiven == <<
    Does(ReleaseDelete(<<"v1", "v3">>, TRUE, TRUE),
         {ToGo(ByName(kind, tag)) : kind \in {"release", "tag"}, tag \in {"v1", "v3"}})
    >>
=============================================================================
