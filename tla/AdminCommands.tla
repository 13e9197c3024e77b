---------------------------- MODULE AdminCommands ----------------------------
(***************************************************************************)
(* The commands on users, organizations and the user's own SSH keys.       *)
(* Attributes of a user that only an administrator sets are booleans.      *)
(***************************************************************************)
EXTENDS ApiCalls

User(name) == ByName("user", name)

\* A password comes from --password, else --password-file, else
\* --password-stdin, else it is typed twice.
TypedTwice(given) == given.flag = "" /\ given.file = Unset /\ given.stdin = Unset
Password(given) ==
    IF given.flag # "" THEN given.flag
    ELSE IF given.file # Unset THEN given.file
    ELSE IF given.stdin # Unset THEN given.stdin
    ELSE IF given.typed = given.again THEN given.typed ELSE ""
ReadPassword(given) ==
    If(TypedTwice(given), AskOrFail) \o If(Password(given) \in {"", "unreadable"}, Fail)

----------------------------------------------------------------------------
(* Users.                                                                  *)

Restrictions == {"admin", "restricted", "prohibitLogin"}

\* What restricts the user cannot be set at creation: it is set afterwards,
\* and until then the user is not restricted.
UserCreate(name, email, given, restrict, mustChange, validVisibility) ==
    LET row == Row("user", 0, name, 0)
               @@ [email |-> email, password |-> Password(given), mustChange |-> mustChange]
               @@ [f \in Restrictions |-> FALSE]
    IN
    ReadPassword(given)
    \o Require(email # "" /\ validVisibility, CreateUnique(row))
    \o If(restrict # {}, Edit(User(name), [f \in restrict |-> TRUE]) \o Get(User(name)))

\* A flag and its opposite: --admin with its value before --no-admin.
YesNo(field, yes, no) ==
    IF yes # {} THEN field :> (TRUE \in yes)
    ELSE IF no THEN field :> FALSE ELSE NoFields

\* A new password has to be changed at the next login unless the flag is set.
ChangedPassword(password, keepPassword) ==
    IF password = {} THEN NoFields
    ELSE [password |-> Password(CHOOSE p \in password : TRUE), mustChange |-> ~keepPassword]

\* (keepPassword alone is no change.)
UserEdit(names, patch, toggles, password, keepPassword, validVisibility) ==
    LET all == ChangedPassword(password, keepPassword) @@ patch @@ toggles IN
    Require(names # <<>>,
        Get(User(names[1])) \o If(~validVisibility, Fail)
        \o Each(SetToSeq(password), LAMBDA p : ReadPassword(p))
        \o Require(all # NoFields, Edit(User(names[1]), all) \o Get(User(names[1]))))

UserDelete(names, confirm) ==
    Require(names # <<>>, Get(User(names[1])) \o Confirmed(confirm) \o Delete(User(names[1])))

\* `admin users` and `organizations`, without a verb.
RunUsers(args, list) == OneOrAll(args, Get(User(args[1])), list)
RunOrganizations(args, list) == OneOrAll(args, Get(ByName("org", args[1])), list)
\* An error is not looked at.
Whoami(name) == TryList("user", [name |-> {name}])

UserList == List("user", NoFields)

----------------------------------------------------------------------------
(* Organizations and keys.                                                 *)

OrganizationCreate(names, visibility) ==
    Require(names # <<>> /\ visibility \in {"", "public", "private", "limited"},
            CreateUnique(Row("org", 0, names[1], 0) @@
                [visibility |-> IF visibility = "" THEN "public" ELSE visibility]))

OrganizationDelete(names) == Require(names # <<>>, Delete(ByName("org", names[1])))

OrganizationList == List("org", NoFields)

\* The title defaults to the name of the file.
SSHKeyAdd(file, content, title) ==
    Require(file # "" /\ content \notin {"", "unreadable"},
            CreateAnother(Row("key", 0, IF title = "" THEN file ELSE title, 0)
                          @@ [key |-> content]))

SSHKeyDelete(id, confirm) ==
    Get(ById("key", id)) \o Confirmed(confirm) \o Delete(ById("key", id))

SSHKeyList == List("key", NoFields)
=============================================================================
