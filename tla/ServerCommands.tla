--------------------------- MODULE ServerCommands ---------------------------
(***************************************************************************)
(* A command runs its steps (see ApiCalls) one by one against the server.  *)
(* Each call may be lost, or its answer; the handlers then return the      *)
(* error at once, and the user may give the same command again.  Other     *)
(* users change the same rows between the calls.                           *)
(***************************************************************************)
EXTENDS ApiCalls

CONSTANTS
    Commands,       \* the commands: what each does, and what is asked of it
    Rows,           \* what the server has at first
    OthersPatch,    \* what other users set in rows of a kind
    PageSize,       \* rows on a page
    MaxFaults,      \* bound: calls that are lost, or whose answer is
    MaxOthers       \* bound: changes by other users

Calls == {"get", "search", "collect", "edit", "create", "delete",
          "change", "add", "remove", "list", "request"}
Exits == {"", "ok", "told", "usage", "missing", "exists", "unknown", "call"}

ASSUME PageSizeAssumption == PageSize \in Nat \ {0}
ASSUME BoundAssumption == MaxFaults \in Nat /\ MaxOthers \in Nat

\* The server has rows, each with an id of its own.
ASSUME RowsAssumption ==
    /\ IsFiniteSet(Rows) /\ Rows # {}
    /\ \A r \in Rows : {"kind", "id", "name", "of"} \subseteq DOMAIN r /\ r.id \in Nat
    /\ \A r, s \in Rows : r.id = s.id => r = s

\* Nobody sets the id of a row, makes it one of another kind, or moves it.
ASSUME OthersAssumption ==
    \A k \in DOMAIN OthersPatch : {"id", "kind", "of"} \cap DOMAIN OthersPatch[k] = {}

\* What the handlers make steps of: a question skips steps that follow it, a
\* list is searched for all rows of a kind, the id of a row is never set.
StepFits(step, after) ==
    /\ step.op \in Calls \cup {"try"} => step.pick.kind \in DOMAIN OthersPatch
    /\ step.op = "get" => "id" \notin {step.link} \cup step.keep
    /\ step.op = "search" => ~step.within
    /\ step.op = "collect" => step.into \in {"add", "rm", "listed"}
    /\ step.op = "edit" => "id" \notin DOMAIN step.patch
    /\ step.op = "create" => {"kind", "id", "name", "of"} \subseteq DOMAIN step.row
    /\ step.op \in {"change", "add", "remove"} => step.field # "id"
    /\ step.op = "request" => "id" \notin DOMAIN step.body
    /\ step.op = "ask" => step.skip \in 0 .. after /\ (step.skip = 0 => step.no \in Exits \ {"", "call", "unknown"})
    /\ step.op = "stop" => step.exit \in {"usage", "told", "ok"}

ASSUME CommandsAssumption ==
    \A c \in DOMAIN Commands :
        LET steps == Commands[c].does IN
        /\ Len(steps) \in Nat /\ DOMAIN steps = 1 .. Len(steps)
        /\ \A i \in DOMAIN steps : StepFits(steps[i], Len(steps) - i)

VARIABLES
    db,         \* the rows at the server
    cmd,        \* the command: what it does, and what is asked of it
    pc,         \* its next step
    reg,        \* what the command has read
    exit,       \* how it ended, if it has
    changed,    \* it has changed a row since it was started
    faults,
    touched,    \* the rows other users have changed, made or removed
    shifted     \* a row went while pages of its list were read

vars == <<db, cmd, pc, reg, exit, changed, faults, touched, shifted>>
others == <<touched, shifted>>

NoRow == Row("none", 0, "", 0)
NothingRead == [found |-> NoRow, patch |-> NoFields, page |-> 1,
                add |-> {}, rm |-> {}, listed |-> {}, shown |-> {}]

Kinds == {r.kind : r \in Rows}
Steps == cmd.does
Now(op) == exit = "" /\ pc \in DOMAIN Steps /\ Steps[pc].op = op

TypeOK ==
    /\ \A r \in db : {"kind", "id", "name", "of"} \subseteq DOMAIN r
    /\ \A r, s \in db : r.id = s.id => r = s
    /\ pc \in 1 .. Len(Steps) + 1
    /\ exit \in Exits
    /\ reg.page \in Nat \ {0}
    /\ \A r \in {reg.found} \cup reg.add \cup reg.rm \cup reg.listed \cup reg.shown \cup touched :
          r.id \in Nat
    /\ changed \in BOOLEAN /\ shifted \in BOOLEAN
    /\ faults \in 0 .. MaxFaults

Init ==
    /\ db = Rows
    /\ \E i \in DOMAIN Commands : cmd = Commands[i]
    /\ pc = 1
    /\ reg = NothingRead
    /\ exit = ""
    /\ changed = FALSE
    /\ faults = 0
    /\ touched = {} /\ shifted = FALSE

----------------------------------------------------------------------------
(* The rows a call is about, among those of the server.                    *)

Has(r, fields) == \A f \in DOMAIN fields : f \in DOMAIN r /\ r[f] = fields[f]
Among(r, where) == \A f \in DOMAIN where : f \in DOMAIN r /\ r[f] \in where[f]

Picked(p) ==
    {r \in db : /\ r.kind = p.kind /\ Among(r, p.where)
                /\ \/ p.by = "id" /\ r.id = p.id
                   \/ p.by = "name" /\ r.name = p.name
                   \/ p.by = "found" /\ r.id = reg.found.id
                   \/ /\ p.by = "listed"
                      /\ \E l \in reg.listed : l.id = r.id /\ l.name = p.name
                      /\ \A l \in reg.listed : l.name = p.name => l.id <= r.id
                   \/ p.by = "all"}

\* A list: its rows in the order of their ids, cut into pages.
ListOf(step) ==
    {r \in Picked(All(step.pick.kind, NoFields)) : step.within => r.of = reg.found.id}
Place(r, list) == Cardinality({s \in list : s.id <= r.id})
PageOf(list, n) ==
    {r \in list : (n - 1) * PageSize < Place(r, list) /\ Place(r, list) <= n * PageSize}
IsLastPage(list, n) == n * PageSize >= Cardinality(list)

\* What a new row belongs to.
Owner(step) == IF step.within THEN reg.found.id ELSE step.row.of

FreshId == Max({r.id : r \in db \cup touched \cup Rows}) + 1

----------------------------------------------------------------------------
(* The steps.                                                              *)

Proceed == pc' = pc + 1 /\ exit' = "" /\ UNCHANGED faults
End(why) == exit' = why /\ UNCHANGED pc
\* The call is done and answered, or done and its answer is lost.
Answered ==
    \/ Proceed
    \/ faults < MaxFaults /\ faults' = faults + 1 /\ End("call")

Refused(op, why) ==
    /\ Now(op) /\ End(why)
    /\ UNCHANGED <<db, cmd, reg, changed, faults, others>>

\* No row has the id or the name, or what a new row belongs to is not there.
Missing ==
    \/ \E op \in {"get", "edit", "delete", "change", "add", "remove"} :
         /\ Now(op)
         /\ Steps[pc].pick.by # "all" /\ Picked(Steps[pc].pick) = {}
         /\ op = "remove" => reg.rm # {}
         /\ Refused(op, "missing")
    \/ /\ Now("create")
       /\ Owner(Steps[pc]) # 0 /\ \A r \in db : r.id # Owner(Steps[pc])
       /\ Refused("create", "missing")

\* The reviewers and the assignees that are sent.
UsersNamed(step) ==
    CASE step.op = "change" -> step.in \cup step.out
      [] step.op = "edit" /\ "assignees" \in DOMAIN step.patch -> step.patch.assignees
      [] step.op = "create" /\ "assignees" \in DOMAIN step.row -> step.row.assignees
      [] OTHER -> {}
AreKnown(users) == users \subseteq {u.id : u \in Picked(All("user", NoFields))}

\* The server refuses the call when it does not know one of them.
UserUnknown ==
    \E op \in {"change", "edit", "create"} :
       /\ Now(op) /\ ~AreKnown(UsersNamed(Steps[pc]))
       /\ Refused(op, "unknown")

\* The row with these fields in place of its own.
Patched(fields, row) ==
    [f \in DOMAIN fields \cup DOMAIN row |->
        IF f \in DOMAIN fields THEN fields[f] ELSE row[f]]

\* Mutant: the events of a webhook are sent empty if they are not to be changed.
RememberedNoEvents(step, r) ==
    Patched(IF step.link = "" THEN NoFields ELSE [f \in {step.link} |-> r.id],
            Patched([f \in step.keep |-> IF f = "events" THEN {} ELSE r[f]], reg.patch))

\* What has been read for the edits to come: the id to link, the fields to
\* write back.
Remembered(step, r) ==
    Patched(IF step.link = "" THEN NoFields ELSE [f \in {step.link} |-> r.id],
            Patched([f \in step.keep |-> r[f]], reg.patch))

DoGet ==
    LET step == Steps[pc] IN
    /\ Now("get")
    /\ \E r \in Picked(step.pick) :
         /\ reg' = [reg EXCEPT !.found = r, !.patch = Remembered(step, r)]
         /\ IF step.expects # <<>>
                /\ ~ \E l \in db : l.id = r[step.expects[1]] /\ l.name = step.expects[2]
            THEN End("usage")
            ELSE pc' = pc + 1 /\ UNCHANGED exit
    /\ UNCHANGED <<db, cmd, changed, faults, others>>

\* Mutant: the name is looked for on the first page only.
DoSearchFirstPage ==
    LET step == Steps[pc]
        match == {r \in PageOf(ListOf(step), 1) : r.name = step.pick.name}
    IN
    /\ Now("search")
    /\ IF match = {} THEN End("missing") /\ UNCHANGED reg
       ELSE /\ reg' = [reg EXCEPT !.found = CHOOSE r \in match : TRUE]
            /\ pc' = pc + 1 /\ UNCHANGED exit
    /\ UNCHANGED <<db, cmd, changed, faults, others>>

\* A page of the list is read.
DoSearch ==
    LET step == Steps[pc]
        list == ListOf(step)
        match == {r \in PageOf(list, reg.page) : r.name = step.pick.name}
    IN
    /\ Now("search")
    /\ \/ /\ match # {}
          /\ \E r \in match : reg' = [reg EXCEPT !.found = r, !.page = 1]
          /\ pc' = pc + 1 /\ UNCHANGED exit
       \/ /\ match = {} /\ ~IsLastPage(list, reg.page)
          /\ reg' = [reg EXCEPT !.page = @ + 1]
          /\ UNCHANGED <<pc, exit>>
       \/ /\ match = {} /\ IsLastPage(list, reg.page)
          /\ End("missing") /\ UNCHANGED reg
    /\ UNCHANGED <<db, cmd, changed, faults, others>>

\* The rows with the names given, or all of them.
Sought(step, r) == step.names = {} \/ r.name \in step.names

\* Mutant: the same page is read again and again.
DoCollectSamePage ==
    LET step == Steps[pc]
        list == ListOf(step)
        match == {r \in PageOf(list, 1) : Sought(step, r)}
    IN
    /\ Now("collect")
    /\ reg' = [reg EXCEPT ![step.into] = match]
    /\ pc' = IF IsLastPage(list, 1) THEN pc + 1 ELSE pc
    /\ UNCHANGED <<db, cmd, exit, changed, faults, others>>

\* Mutant: what was on a page is forgotten with the next one.
DoCollectLastPage ==
    LET step == Steps[pc]
        list == ListOf(step)
        match == {r \in PageOf(list, reg.page) : Sought(step, r)}
        last == IsLastPage(list, reg.page)
    IN
    /\ Now("collect")
    /\ reg' = [reg EXCEPT ![step.into] = match, !.page = IF last THEN 1 ELSE @ + 1]
    /\ pc' = IF last THEN pc + 1 ELSE pc
    /\ UNCHANGED <<db, cmd, exit, changed, faults, others>>

DoCollect ==
    LET step == Steps[pc]
        list == ListOf(step)
        match == {r \in PageOf(list, reg.page) : Sought(step, r)}
        last == IsLastPage(list, reg.page)
    IN
    /\ Now("collect")
    /\ reg' = [reg EXCEPT ![step.into] = match \cup IF reg.page = 1 THEN {} ELSE @,
                          !.page = IF last THEN 1 ELSE @ + 1]
    /\ pc' = IF last THEN pc + 1 ELSE pc
    /\ UNCHANGED <<db, cmd, exit, changed, faults, others>>

Write(rows) == db' = rows /\ changed' = (changed \/ rows # db)

\* The fields of the patch are set, and those kept from a read.
DoEdit ==
    LET step == Steps[pc]
        rows == Picked(step.pick)
    IN
    /\ Now("edit") /\ AreKnown(UsersNamed(step))
    /\ rows # {} \/ step.pick.by = "all"
    /\ Write((db \ rows) \cup {Patched(step.patch, Patched(reg.patch, r)) : r \in rows})
    /\ reg' = [reg EXCEPT !.patch = NoFields]
    /\ Answered
    /\ UNCHANGED <<cmd, others>>

DoCreate ==
    LET step == Steps[pc]
        same == Picked(step.pick)
        labelled == IF "labels" \in DOMAIN step.row
                    THEN [step.row EXCEPT !.labels = {l.id : l \in reg.add}] ELSE step.row
        made == [Patched(reg.patch, labelled) EXCEPT !.id = FreshId, !.of = Owner(step)]
    IN
    /\ Now("create") /\ AreKnown(UsersNamed(step))
    /\ step.mode = "unique" => same = {}
    /\ Owner(step) = 0 \/ \E r \in db : r.id = Owner(step)
    /\ \/ /\ step.mode = "set" /\ same # {}
          /\ Write((db \ same) \cup {[Patched(made, r) EXCEPT !.id = r.id, !.of = r.of] : r \in same})
          /\ reg' = [reg EXCEPT !.patch = NoFields]
       \/ /\ step.mode = "set" => same = {}
          /\ Write(db \cup {made})
          /\ reg' = [reg EXCEPT !.patch = NoFields,
                                !.found = IF step.within THEN @ ELSE made]
    /\ Answered
    /\ UNCHANGED <<cmd, others>>

Exists ==
    /\ Now("create") /\ Steps[pc].mode = "unique" /\ Picked(Steps[pc].pick) # {}
    /\ Refused("create", "exists")

\* The rows go, and what belongs to them.
DoDelete ==
    LET rows == Picked(Steps[pc].pick) IN
    /\ Now("delete")
    /\ rows # {} \/ Steps[pc].pick.by = "all"
    /\ Write({r \in db : r \notin rows /\ r.of \notin {s.id : s \in rows}})
    /\ Answered
    /\ UNCHANGED <<cmd, reg, others>>

\* All at once: the members named, or those collected.
DoChange ==
    LET step == Steps[pc]
        in == IF step.op = "add" THEN {l.id : l \in reg.add} ELSE step.in
        out == IF step.op = "add" THEN {} ELSE step.out
    IN
    /\ Now("change") \/ Now("add")
    /\ AreKnown(UsersNamed(step))
    /\ \E r \in Picked(step.pick) :
         Write((db \ {r}) \cup {[r EXCEPT ![step.field] = (@ \ out) \cup in]})
    /\ Answered
    /\ UNCHANGED <<cmd, reg, others>>

\* Mutant: a label that is not there to be removed is an error.
DoRemoveIfThere ==
    LET step == Steps[pc]
        next == CHOOSE l \in reg.rm : \A m \in reg.rm : l.id <= m.id
    IN
    /\ Now("remove") /\ reg.rm # {}
    /\ \E r \in Picked(step.pick) :
         \/ /\ next.id \in r[step.field]
            /\ Write((db \ {r}) \cup {[r EXCEPT ![step.field] = @ \ {next.id}]})
            /\ reg' = [reg EXCEPT !.rm = @ \ {next}] /\ UNCHANGED <<pc, exit>>
         \/ /\ next.id \notin r[step.field]
            /\ End("missing") /\ UNCHANGED <<db, reg, changed>>
    /\ UNCHANGED <<cmd, faults, others>>

\* One by one, in the order in which they were listed.
DoRemove ==
    LET step == Steps[pc]
        next == CHOOSE l \in reg.rm : \A m \in reg.rm : l.id <= m.id
    IN
    /\ Now("remove") /\ reg.rm # {}
    /\ \E r \in Picked(step.pick) :
         Write((db \ {r}) \cup {[r EXCEPT ![step.field] = @ \ {next.id}]})
    /\ \/ reg' = [reg EXCEPT !.rm = @ \ {next}] /\ UNCHANGED <<pc, exit, faults>>
       \/ /\ faults < MaxFaults /\ faults' = faults + 1
          /\ End("call") /\ UNCHANGED reg
    /\ UNCHANGED <<cmd, others>>

NothingToDo ==
    /\ Now("remove") /\ reg.rm = {}
    /\ Proceed
    /\ UNCHANGED <<db, cmd, reg, changed, others>>

\* --page and --limit have defaults.
DefaultPage == 1

\* One page is shown; what the client filters, it filters out of this page.
DoList ==
    LET page == PageOf(Picked(Steps[pc].pick), DefaultPage) IN
    /\ Now("list") \/ Now("try")
    /\ reg' = [reg EXCEPT !.shown = @ \cup {r \in page : Among(r, Steps[pc].filter)}]
    /\ Proceed
    /\ UNCHANGED <<db, cmd, changed, others>>

\* The labels of the item are not preselected in the form.
Selected(labels) == {l \in reg.listed : l.name \in labels}

DoSelect ==
    LET selected == Selected(Steps[pc].labels) IN
    /\ Now("select")
    /\ reg' = [reg EXCEPT !.add = selected,
                          !.rm = {l \in reg.listed \ selected :
                                    "labels" \in DOMAIN reg.found /\ l.id \in reg.found.labels}]
    /\ Proceed
    /\ UNCHANGED <<db, cmd, changed, others>>

\* The options are the open milestones.  What is not among them, such as
\* "[none]" or a closed milestone, gives way to the first.
DefaultMilestone(current, options) ==
    IF current \in options THEN current ELSE Min(options)

DoAccept ==
    LET options == {m.id : m \in Picked(All("milestone", [state |-> {"open"}]))}
        current == IF "milestone" \in DOMAIN reg.found THEN reg.found.milestone ELSE 0
    IN
    /\ Now("accept")
    /\ reg' = IF options = {} THEN reg
              ELSE [reg EXCEPT !.patch = Patched(@, [milestone |-> DefaultMilestone(current, options)])]
    /\ Proceed
    /\ UNCHANGED <<db, cmd, changed, others>>

\* Mutant: skips one step too many.
DoAskPastEnd ==
    /\ Now("ask")
    /\ \/ Proceed
       \/ Steps[pc].skip = 0 /\ End(Steps[pc].no) /\ UNCHANGED faults
       \/ Steps[pc].skip # 0 /\ pc' = pc + 2 + Steps[pc].skip /\ UNCHANGED <<exit, faults>>
    /\ UNCHANGED <<db, cmd, reg, changed, others>>

DoAsk ==
    /\ Now("ask")
    /\ \/ Proceed
       \/ Steps[pc].skip = 0 /\ End(Steps[pc].no) /\ UNCHANGED faults
       \/ Steps[pc].skip # 0 /\ pc' = pc + 1 + Steps[pc].skip /\ UNCHANGED <<exit, faults>>
    /\ UNCHANGED <<db, cmd, reg, changed, others>>

DoStop ==
    /\ Now("stop") /\ Refused("stop", Steps[pc].exit)

Finish ==
    /\ exit = "" /\ pc = Len(Steps) + 1
    /\ End("ok")
    /\ UNCHANGED <<db, cmd, reg, changed, faults, others>>

\* The call is lost on its way: the handler returns the error, but for those
\* that it prints.
Lost ==
    /\ faults < MaxFaults /\ faults' = faults + 1
    /\ \/ (\E op \in Calls : Now(op)) /\ End("call")
       \/ Now("try") /\ pc' = pc + 1 /\ UNCHANGED exit
    /\ UNCHANGED <<db, cmd, reg, changed, others>>

\* A body is that of a row to be made, or of the fields to be set.
Requested(step) ==
    LET rows == Picked(step.pick) IN
    CASE step.method = "DELETE" -> {r \in db : r \notin rows /\ r.of \notin {s.id : s \in rows}}
      [] step.method = "PATCH"  -> (db \ rows) \cup {Patched(step.body, r) : r \in rows}
      [] step.method = "POST" /\ step.pick.by = "name" ->
            db \cup {[Patched(step.body, Row(step.pick.kind, 0, step.pick.name, 0)) EXCEPT !.id = FreshId]}
      [] OTHER -> db

DoRequest ==
    /\ Now("request")
    /\ Write(Requested(Steps[pc]))
    /\ Answered
    /\ UNCHANGED <<cmd, reg, others>>

\* The user gives the command again.
Again ==
    /\ exit = "call"
    /\ exit' = "" /\ pc' = 1
    /\ reg' = NothingRead /\ changed' = FALSE
    /\ UNCHANGED <<db, cmd, faults, others>>

----------------------------------------------------------------------------
(* Other users.                                                            *)

\* The kinds of rows the command deals with.
Concerned == {Steps[i].pick.kind : i \in {j \in DOMAIN Steps : Steps[j].op \in Calls \cup {"try"}}}

OtherChanges ==
    /\ exit = ""
    /\ Cardinality(touched) < MaxOthers
    /\ \E r \in {s \in db : s.kind \in Concerned} :
         /\ \/ /\ db' = {s \in db : s # r /\ s.of # r.id}
               /\ touched' = touched \cup (db \ db')
               /\ shifted' = (shifted \/ reg.page > 1)
            \/ /\ touched' = touched \cup {r}
               /\ db' = (db \ {r}) \cup {Patched(OthersPatch[r.kind], r)}
               /\ UNCHANGED shifted
    /\ UNCHANGED <<cmd, pc, reg, exit, changed, faults>>

OtherCreates ==
    /\ exit = ""
    /\ Cardinality(touched) < MaxOthers
    /\ \E r \in {s \in Rows : s.kind \in Concerned} :
         LET new == [Patched(OthersPatch[r.kind], r) EXCEPT !.id = FreshId, !.name = "theirs"] IN
         db' = db \cup {new} /\ touched' = touched \cup {new}
    /\ UNCHANGED <<cmd, pc, reg, exit, changed, faults, shifted>>

Step ==
    \/ DoGet \/ DoSearch \/ DoCollect \/ DoEdit \/ DoCreate \/ DoDelete
    \/ DoChange \/ DoRemove \/ NothingToDo \/ DoSelect \/ DoAccept \/ DoList \/ DoRequest
    \/ DoAsk \/ DoStop
    \/ Missing \/ UserUnknown \/ Exists \/ Finish

Next == Step \/ Lost \/ Again \/ OtherChanges \/ OtherCreates

\* A command goes on, and the user gives it again until it has ended.
Spec == Init /\ [][Next]_vars /\ WF_vars(Step) /\ WF_vars(Again)

----------------------------------------------------------------------------
(* What is asked of a command: that rows have attributes, that members are *)
(* in and others not in a field, that rows are gone.  The wishes are those *)
(* of the user, not derived from the steps.                                *)

ToHave(pick, fields) == [to |-> "have", pick |-> pick, fields |-> fields]
\* It may come to this, as when the user quits a form and the command goes on.
OrNot(wish) == [wish EXCEPT !.to = "may"]
ToGo(pick) == [to |-> "go", pick |-> pick, fields |-> NoFields]
\* All that are picked get the fields, and no longer are what they were.
ToTurn(pick, fields) == [to |-> "turn", pick |-> pick, fields |-> fields]
\* The first page of them is shown.
ToSee(pick) == [to |-> "see", pick |-> pick, fields |-> NoFields]
ToMember(pick, field, in, out) ==
    [to |-> "member", pick |-> pick, fields |-> field :> in, out |-> out]

\* The user may wish it, and the code does not do it.
Unmet(wish) == [to |-> "unmet", pick |-> wish.pick, fields |-> wish.fields, wish |-> wish]

Met(wish) ==
    LET rows == Picked(wish.pick) IN
    \/ wish.to = "may"
    \/ wish.to \in {"go", "turn"} /\ rows = {}
    \/ wish.to = "see" /\ PageOf(rows, DefaultPage) \subseteq reg.shown
    \/ wish.to = "have" /\ \E r \in rows : Has(r, wish.fields)
    \/ /\ wish.to = "member"
       /\ \E r \in rows : \A f \in DOMAIN wish.fields :
             wish.fields[f] \subseteq r[f] /\ r[f] \cap wish.out = {}

Holds(wish) == IF wish.to = "unmet" THEN ~Met(wish.wish) ELSE Met(wish)

\* Other users have touched what the wish is about, or what a name stands for.
Disturbed(wish) ==
    \E t \in touched :
       \/ t.kind \in {"label", "milestone"}
       \/ /\ t.kind = wish.pick.kind
          /\ wish.pick.by = "id" => t.id = wish.pick.id
          /\ wish.pick.by = "name" => t.name = wish.pick.name

Asked == cmd.asks
Fulfilled == \A wish \in Asked : Holds(wish)

----------------------------------------------------------------------------
(* Properties.                                                             *)

\* A command that ends without an error or a message has done all that was
\* asked of it, for each of its arguments, whatever other users do to other
\* rows meanwhile, and nothing of the wishes the code is known not to meet.
DoneAsAsked ==
    exit = "ok" => \A wish \in Asked : Holds(wish) \/ Disturbed(wish)

\* The commands that write back what they have read.
MayChange(r, s, f) ==
    \/ s[f] = r[f]
    \/ \E wish \in Asked : r \in Picked(wish.pick) /\ f \in DOMAIN wish.fields
    \/ reg.found.id = r.id /\ s[f] = reg.found[f]

MayGo(r) ==
    \E wish \in Asked : /\ wish.to \in {"go", "may"}
                        /\ \E p \in Picked(wish.pick) : p = r \/ p.id = r.of

\* A command removes no row but those named, makes none but those named, and
\* leaves every field it was not asked to set as it is, or as it has read it.
OnlyAsked ==
    [][~(OtherChanges \/ OtherCreates) =>
         /\ \A r \in db :
              \/ \E s \in db' : s.id = r.id /\ \A f \in DOMAIN r : MayChange(r, s, f)
              \/ MayGo(r) /\ \A s \in db' : s.id # r.id
         /\ \A s \in db' :
              (\A r \in db : r.id # s.id) =>
                 \E wish \in Asked : wish.to \in {"have", "may"} /\ s.kind = wish.pick.kind
                                     /\ s.name = wish.pick.name]_vars

\* What is looked for through the pages of a list, and is there all the time,
\* is reported missing only if a row went while the pages were read.
FoundUnlessShifted ==
    exit = "missing" /\ Steps[pc].op = "search" =>
        \A r \in db : r.kind = Steps[pc].pick.kind /\ r.name = Steps[pc].pick.name =>
            shifted \/ \E t \in touched : t.id = r.id

\* What is collected through the pages of a list has every row that was sought
\* and was there all the time, unless a row went while the pages were read.
CollectedUnlessShifted ==
    [][Now("collect") /\ pc' # pc =>
         \A r \in ListOf(Steps[pc]) : Sought(Steps[pc], r) =>
            \/ shifted \/ \E t \in touched : t.id = r.id
            \/ r \in reg'[Steps[pc].into]]_vars

\* A command about one thing that is refused, for its arguments or because
\* something is missing or exists, has changed nothing.  Reviewers and
\* assignees the server does not know are another matter: they are refused
\* after the labels have been changed (pull_edit.go:58-68, issue_edit.go:93-99).
RefusedUnchanged ==
    exit \in {"usage", "missing", "exists"} /\ touched = {}
        /\ Cardinality({wish.pick : wish \in Asked}) <= 1
        => ~changed

\* When an unknown reviewer or assignee is refused, no field of any row has
\* been set yet: the labels and the reviewers alone may have changed.
UnknownUserKeepsFields ==
    exit = "unknown" /\ touched = {} /\ Cardinality({wish.pick : wish \in Asked}) <= 1
        => \A r \in Rows : \E s \in db :
              s.id = r.id /\ \A f \in DOMAIN r \ {"labels", "reviewers"} : s[f] = r[f]

\* It makes nothing anew and deletes at most one thing.
Repeatable ==
    /\ \A i \in DOMAIN Steps : Steps[i].op = "create" => Steps[i].mode = "set"
    /\ \A i \in DOMAIN Steps : Steps[i].op = "request" => Steps[i].method # "POST"
    /\ Cardinality({i \in DOMAIN Steps : Steps[i].op = "delete"}) <= 1

\* Given again after each failure of a call, a command comes to what was
\* asked, though calls or their answers were lost, if it makes nothing anew
\* and deletes at most one thing; or it is refused, and no run of it has
\* changed anything unless it names a user the server does not know.
RerunFinishes ==
    Repeatable => <>(\/ Fulfilled
                     \/ exit \in {"usage", "missing"} /\ db = Rows
                     \/ exit \in {"told", "unknown"} \/ touched # {})

----------------------------------------------------------------------------
(* What the help of a command says and the code does not do.               *)

\* `releases delete`: "Delete one or more releases"; --delete-tag: "Also
\* delete the git tag for this release".  A delete that succeeds, with nobody
\* else at work, leaves neither a release nor a tag of those it was given.
EveryReleaseDeleted ==
    exit = "ok" /\ touched = {} =>
        \A wish \in Asked : wish.pick.kind \in {"release", "tag"} => Holds(wish)
=============================================================================
