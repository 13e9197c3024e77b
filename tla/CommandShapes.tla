---------------------------- MODULE CommandShapes ----------------------------
(***************************************************************************)
(* What a command's list of steps must look like for it to keep what the   *)
(* properties of ServerCommands say of it.                                 *)
(***************************************************************************)
EXTENDS ServerCommands

----------------------------------------------------------------------------
(* Looking up first: what may be refused comes before the first change, or *)
(* is about what the changes before it leave there.                        *)

Writes(step) ==
    \/ step.op \in {"edit", "create", "delete", "change", "add", "remove"}
    \/ step.op = "request" /\ step.method \in {"DELETE", "PATCH", "POST"}

\* Calls about rows that are there.
OnRows == {"get", "edit", "delete", "change", "add", "remove"}

\* Something is missing or exists already, or an argument is wrong.
MayBeRefused(step) ==
    \/ step.op = "search"
    \/ step.op = "get"
    \/ step.op \in OnRows /\ step.pick.by # "all"
    \/ step.op = "create" /\ (step.mode = "unique" \/ step.within \/ step.row.of # 0)
    \/ step.op = "stop" /\ step.exit = "usage"
    \/ step.op = "ask" /\ step.skip = 0 /\ step.no \in {"usage", "missing", "exists"}

\* The fields an edit may write back: those kept from a read, linked, or
\* accepted in a form.
WrittenBack(steps) ==
    {"milestone"} \cup UNION {steps[i].keep \cup {steps[i].link} :
                                 i \in {j \in DOMAIN steps : steps[j].op = "get"}}

FieldsSet(steps, step) ==
    CASE step.op = "edit"   -> DOMAIN step.patch \cup WrittenBack(steps)
      [] step.op = "create" -> WrittenBack(steps)
      [] step.op \in {"change", "add", "remove"} -> {step.field}

\* The same row, by its id or its name, is what both calls are about, and it
\* is still picked after the first.
SameRow(steps, first, next) ==
    /\ next.op \in OnRows /\ (next.op = "get" => next.expects = <<>>)
    /\ next.pick.by \in {"id", "name"} /\ DOMAIN next.pick.where = {}
    /\ first.op \in {"edit", "create", "change", "add", "remove"} /\ first.pick = next.pick
    /\ first.op = "create" => /\ first.pick.by = "name"
                              /\ first.pick.kind = first.row.kind /\ first.pick.name = first.row.name
    /\ "kind" \notin FieldsSet(steps, first)
    /\ next.pick.by = "name" => "name" \notin FieldsSet(steps, first)

\* The row that was made is what the next call is about.
RowMade(steps, i, j) ==
    LET first == steps[i]
        next == steps[j]
    IN
    /\ next.op \in OnRows /\ (next.op = "get" => next.expects = <<>>)
    /\ next.pick.by = "found" /\ DOMAIN next.pick.where = {}
    /\ first.op = "create" /\ ~first.within /\ first.mode # "set"
    /\ first.row.kind = next.pick.kind /\ "kind" \notin WrittenBack(steps)
    /\ \A k \in i + 1 .. j - 1 : steps[k].op \notin {"get", "search", "create"}

\* Both make rows that belong to the same one.
SameOwner(first, next) ==
    /\ first.op = "create" /\ ~first.within
    /\ next.op = "create" /\ ~next.within /\ next.mode # "unique"
    /\ first.row.of = next.row.of

LooksUpFirst(steps) ==
    \A i, j \in DOMAIN steps :
        /\ i < j \/ (i = j /\ steps[i].op = "remove")
        /\ Writes(steps[i]) /\ MayBeRefused(steps[j])
        => \/ SameRow(steps, steps[i], steps[j])
           \/ RowMade(steps, i, j)
           \/ SameOwner(steps[i], steps[j])

OneThing(asks) == Cardinality({wish.pick : wish \in asks}) <= 1

OneThingLooksUpFirst(commands) ==
    \A c \in DOMAIN commands :
        OneThing(commands[c].asks) => LooksUpFirst(commands[c].does)

----------------------------------------------------------------------------
(* Setting only what is asked: every change of the command answers to a    *)
(* wish, for every field it sets.                                          *)

\* A question before it may lead past the step.
SkippedOver(steps, k) ==
    \E i \in 1 .. k - 1 : steps[i].op = "ask" /\ k <= i + steps[i].skip
\* A question before it may lead to the step.
SkippedTo(steps, k) ==
    \E i \in 1 .. k - 1 : steps[i].op = "ask" /\ steps[i].skip # 0 /\ k = i + 1 + steps[i].skip

\* The steps whose fields may still be to be written back: no edit and no
\* creation has written them.
Pending(steps, j) ==
    {i \in 1 .. j - 1 : i \in DOMAIN steps /\
        \A k \in i + 1 .. j - 1 : k \in DOMAIN steps /\ steps[k].op \in {"edit", "create"} => SkippedOver(steps, k)}
PendingGets(steps, j) == {i \in Pending(steps, j) : steps[i].op = "get"}

LinkedAt(steps, j) ==
    {steps[i].link : i \in {k \in PendingGets(steps, j) : steps[k].link # ""}}
    \cup {f \in {"milestone"} : \E i \in Pending(steps, j) : steps[i].op = "accept"}
KeptAt(steps, j) == UNION {steps[i].keep : i \in PendingGets(steps, j)}

\* What is kept is of the row that is edited, which is got by its id before;
\* nothing else is found until it is written back.
KeepsOfFound(steps) ==
    \A j \in DOMAIN steps : \A i \in PendingGets(steps, j) : steps[i].keep # {} =>
        /\ steps[i].pick.by = "id" /\ ~SkippedOver(steps, i)
        /\ steps[j].op \notin {"get", "search", "create"}
        /\ steps[j].op = "edit" => steps[j].pick.by = "id" /\ steps[j].pick.id = steps[i].pick.id

\* The row found has this name.
FindsNamed(step, name) ==
    \/ step.op = "search" /\ step.pick.name = name
    \/ step.op = "create" /\ ~step.within /\ step.mode # "set" /\ step.row.name = name

\* All rows the step picks have the name.
PicksNamed(steps, j, name) ==
    \/ steps[j].pick.by \in {"name", "listed"} /\ steps[j].pick.name = name
    \/ /\ steps[j].pick.by = "found" /\ j - 1 \in DOMAIN steps
       /\ FindsNamed(steps[j - 1], name) /\ ~SkippedTo(steps, j)

\* All rows the step picks are among those of the wish.
Covers(steps, j, pick) ==
    /\ pick.kind = steps[j].pick.kind
    /\ \A f \in DOMAIN pick.where :
          f \in DOMAIN steps[j].pick.where /\ steps[j].pick.where[f] \subseteq pick.where[f]
    /\ \/ pick.by = "all"
       \/ pick.by = "id" /\ steps[j].pick.by = "id" /\ steps[j].pick.id = pick.id
       \/ pick.by = "name" /\ PicksNamed(steps, j, pick.name)

MaySet(steps, j, asks, f) ==
    \E wish \in asks : Covers(steps, j, wish.pick) /\ f \in DOMAIN wish.fields
MayDelete(steps, j, asks) ==
    \E wish \in asks : Covers(steps, j, wish.pick) /\ wish.to \in {"go", "may"}
MayMake(asks, kind, name) ==
    \E wish \in asks : wish.to \in {"have", "may"} /\ wish.pick.kind = kind /\ wish.pick.name = name

RowFields == {"kind", "id", "name", "of"}

SetsAsked(steps, j, asks) ==
    LET step == steps[j] IN
    /\ step.op = "edit" =>
          /\ \A f \in DOMAIN step.patch :
                \/ MaySet(steps, j, asks, f)
                \/ f = "name" /\ step.pick.by = "name" /\ step.patch.name = step.pick.name
          /\ \A f \in LinkedAt(steps, j) : MaySet(steps, j, asks, f)
    /\ step.op \in {"change", "add", "remove"} => MaySet(steps, j, asks, step.field)
    /\ step.op = "request" /\ step.method = "PATCH" =>
          \A f \in DOMAIN step.body : MaySet(steps, j, asks, f)

MakesAsked(steps, j, asks) ==
    LET step == steps[j] IN
    /\ step.op = "create" =>
          /\ MayMake(asks, step.row.kind, step.row.name)
          /\ {"kind", "name"} \cap (LinkedAt(steps, j) \cup KeptAt(steps, j)) = {}
          /\ step.mode = "set" =>
                /\ step.pick.by = "name" /\ step.pick.name = step.row.name /\ step.pick.kind = step.row.kind
                /\ LinkedAt(steps, j) = {} /\ KeptAt(steps, j) = {}
                /\ \A f \in DOMAIN step.row \ RowFields : MaySet(steps, j, asks, f)
    /\ step.op = "request" /\ step.method = "POST" /\ step.pick.by = "name" =>
          /\ MayMake(asks, step.pick.kind, step.pick.name)
          /\ {"kind", "name"} \cap DOMAIN step.body = {}

Deletes(step) == step.op = "delete" \/ (step.op = "request" /\ step.method = "DELETE")
Makes(step) == step.op = "create" \/ (step.op = "request" /\ step.method = "POST")
Renames(steps, j) ==
    LET step == steps[j] IN
    \/ step.op = "edit" /\ "name" \in DOMAIN step.patch \cup LinkedAt(steps, j) \cup KeptAt(steps, j)
    \/ step.op \in {"change", "add", "remove"} /\ step.field = "name"
    \/ step.op = "request" /\ step.method = "PATCH" /\ "name" \in DOMAIN step.body

\* A row that was read before is picked again, to be written.
WritesWhatItRead(steps) ==
    \E j \in DOMAIN steps : Writes(steps[j]) /\ steps[j].pick.by \in {"found", "listed"}

\* Such a row keeps its name, and no other row gets its id.
ReadRowsStay(steps) ==
    WritesWhatItRead(steps) =>
        /\ \A j \in DOMAIN steps : ~Renames(steps, j)
        /\ ~\E i, j \in DOMAIN steps : Makes(steps[i]) /\ Deletes(steps[j])

WritesAsked(steps, asks) ==
    /\ KeepsOfFound(steps) /\ ReadRowsStay(steps)
    /\ \A j \in DOMAIN steps :
          /\ SetsAsked(steps, j, asks) /\ MakesAsked(steps, j, asks)
          /\ Deletes(steps[j]) => MayDelete(steps, j, asks)

AllWriteAsAsked(commands) ==
    \A c \in DOMAIN commands : WritesAsked(commands[c].does, commands[c].asks)

\* Nobody else gives a row another name.
NobodyRenames(patches) == \A k \in DOMAIN patches : "name" \notin DOMAIN patches[k]
=============================================================================
