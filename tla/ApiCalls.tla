------------------------------ MODULE ApiCalls ------------------------------
(***************************************************************************)
(* What a command that works at the server consists of: the calls it makes *)
(* through the client of its login, and the questions and tests between    *)
(* them, in the order of its handler.  ServerCommands says what each step  *)
(* does.                                                                   *)
(*                                                                         *)
(* What the server keeps is a set of rows.  Every row has a kind, an id, a *)
(* name (the title of an issue, the tag of a release) and the id of what   *)
(* it belongs to (0: the repository or the server), and the attributes of  *)
(* its kind.  Issues and pull requests are one kind, "item", as they are   *)
(* at the server.  A row is picked by its id, its name, or as the row the  *)
(* command has found before; rows are picked together by what they have.   *)
(***************************************************************************)
EXTENDS Naturals, SequencesExt

Row(kind, id, name, of) == [kind |-> kind, id |-> id, name |-> name, of |-> of]

Pick(kind, by, id, name, where) ==
    [kind |-> kind, by |-> by, id |-> id, name |-> name, where |-> where]
NoFields == [f \in {} |-> 0]
\* A flag that is not set.
Unset == "unset"

ById(kind, id)       == Pick(kind, "id", id, "", NoFields)
ByName(kind, name)   == Pick(kind, "name", 0, name, NoFields)
ByIdIf(kind, id, where) == Pick(kind, "id", id, "", where)
Found(kind)          == Pick(kind, "found", 0, "", NoFields)
\* The last one with the name among the rows collected before.
Listed(kind, name)   == Pick(kind, "listed", 0, name, NoFields)
\* The rows whose attributes are among those of `where`.
All(kind, where)     == Pick(kind, "all", 0, "", where)

----------------------------------------------------------------------------
(* The calls.                                                              *)

\* One call gets the row, and the client keeps it: its id, to be set in the
\* field `link` by a later edit, and its fields `keep`, to be written back.
\* `expects`: the name of the row its field must refer to.
GetRow(pick, link, keep, expects) ==
    <<[op |-> "get", pick |-> pick, link |-> link, keep |-> keep, expects |-> expects]>>
Get(pick)                 == GetRow(pick, "", {}, <<>>)
GetLink(pick, link)       == GetRow(pick, link, {}, <<>>)
GetToKeep(pick, keep)     == GetRow(pick, "", keep, <<>>)
GetLinkedTo(pick, f, row) == GetRow(pick, "", {}, <<f, row>>)

\* The first row of the name is looked for in the pages of a list.
Search(pick) == <<[op |-> "search", pick |-> pick, within |-> FALSE]>>

\* The rows with these names, or all (that belong to the row found), are
\* collected from the pages of a list.
Collect(kind, names, within, into) ==
    <<[op |-> "collect", pick |-> All(kind, NoFields), names |-> names,
       within |-> within, into |-> into]>>
CollectNamed(kind, names, into) == Collect(kind, names, FALSE, into)
CollectAll(kind)                == Collect(kind, {}, FALSE, "listed")
CollectWithin(kind)             == Collect(kind, {}, TRUE, "listed")

Edit(pick, patch)  == <<[op |-> "edit", pick |-> pick, patch |-> patch]>>
Delete(pick)       == <<[op |-> "delete", pick |-> pick]>>

CreateRow(row, within, mode) ==
    <<[op |-> "create", pick |-> ByName(row.kind, row.name), row |-> row,
       within |-> within, mode |-> mode]>>
\* A second row of the name is refused, is another one, or replaces the first.
CreateUnique(row)  == CreateRow(row, FALSE, "unique")
CreateAnother(row) == CreateRow(row, FALSE, "another")
CreateOrSet(row)   == CreateRow(row, FALSE, "set")
\* It belongs to the row found before.
CreateWithin(row)  == CreateRow(row, TRUE, "another")

\* Members of a field of the picked row: some are added and some removed by
\* one call; those collected are added by one call, or removed by one each.
Change(pick, field, in, out) ==
    <<[op |-> "change", pick |-> pick, field |-> field, in |-> in, out |-> out]>>
AddCollected(pick, field) ==
    <<[op |-> "add", pick |-> pick, field |-> field]>>
RemoveCollected(pick, field) ==
    <<[op |-> "remove", pick |-> pick, field |-> field]>>

\* One page of the rows is shown, but for those the client leaves out.
ListIf(kind, where, filter) ==
    <<[op |-> "list", pick |-> All(kind, where), filter |-> filter]>>
List(kind, where) == ListIf(kind, where, NoFields)
\* When this one fails the command says so and goes on without the rows.
TryList(kind, where) ==
    <<[op |-> "try", pick |-> All(kind, where), filter |-> NoFields]>>

\* Any request; what the server answers is printed, a refusal too.
Request(method, pick, body) ==
    <<[op |-> "request", method |-> method, pick |-> pick, body |-> body]>>

----------------------------------------------------------------------------
(* At the client.                                                          *)

\* The user is asked, or fills in a form; on a no, or when the user quits,
\* the command ends with a message, or with an error, or goes on after the
\* next `skip` steps.
Ask           == <<[op |-> "ask", skip |-> 0, no |-> "told"]>>
AskOrFail     == <<[op |-> "ask", skip |-> 0, no |-> "usage"]>>
Form          == Ask
\* --confirm, or the question.
Confirmed(confirm) == IF confirm THEN <<>> ELSE Ask
FormSkip(n)   == <<[op |-> "ask", skip |-> n, no |-> ""]>>

\* The form that edits an item: of the labels collected those with the names
\* `labels` are selected; the others it has had are to be removed.
SelectLabels(labels) == <<[op |-> "select", labels |-> labels]>>
\* The milestone is the default of the form, among those of the repository.
AcceptMilestone == <<[op |-> "accept"]>>

\* The command ends: with an error, after a message, or as if it were done.
Fail   == <<[op |-> "stop", exit |-> "usage"]>>
Tell   == <<[op |-> "stop", exit |-> "told"]>>
Return == <<[op |-> "stop", exit |-> "ok"]>>

If(condition, steps)      == IF condition THEN steps ELSE <<>>
\* With one argument a command shows what it names, and lists otherwise.
OneOrAll(args, one, all) == IF Len(args) = 1 THEN one ELSE all
Require(condition, steps) == IF condition THEN steps ELSE Fail
Each(args, Steps(_)) == FlattenSeq([i \in DOMAIN args |-> Steps(args[i])])
=============================================================================
