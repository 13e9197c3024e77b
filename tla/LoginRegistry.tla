--------------------------- MODULE LoginRegistry ---------------------------
(***************************************************************************)
(* What the stored logins are to a user of tea: one list, changed by one   *)
(* command at a time, each change made to the result of the one before it. *)
(* Nothing of a command that failed shows.                                 *)
(*                                                                         *)
(* One change may undo others: the refresh of a legacy login puts back the *)
(* copy of the login that it had read before, whole, with its new token.   *)
(*                                                                         *)
(* The list is lost in the step in which a command dies, or its write      *)
(* fails, while it rewrites the file, and in no other.  The command that   *)
(* next writes the file installs what it still had in memory.              *)
(***************************************************************************)
EXTENDS Logins

CONSTANT InitialLogins      \* the lists a run may start from

VARIABLES
    logins,     \* the stored list
    lost,       \* the stored list was destroyed
    copies,     \* the legacy logins as running refreshes have read them
    faults      \* crashes and errors of the file or credential store so far

vars == <<logins, lost, copies, faults>>

Init ==
    /\ logins \in InitialLogins \cup {<<>>}     \* <<>>: no config file yet
    /\ lost = FALSE
    /\ copies = {}
    /\ faults = 0

\* Refreshes begin, each with a copy of a login, and end.
Read ==
    /\ copies' \subseteq copies \cup
            {logins[i] : i \in {j \in DOMAIN logins : logins[j].kind = "legacy"}}
    /\ UNCHANGED <<logins, lost, faults>>

Change == lost = FALSE /\ UNCHANGED <<lost, copies, faults>>

Add ==
    /\ Change
    /\ \E l \in Login :
        /\ ~NameTaken(logins, l.name)
        /\ logins' = Append(logins, l)

Delete ==
    /\ Change
    /\ \E i \in DOMAIN logins : logins' = Without(logins, i)

SetDefault ==
    /\ Change
    /\ \E i \in DOMAIN logins : logins' = OnlyDefault(logins, logins[i].name)

\* New tokens for one login, which stays as it is otherwise.
Rewrite ==
    /\ Change
    /\ \E i \in DOMAIN logins, t \in Token \cup {NoToken} :
        logins' = [logins EXCEPT ![i].token = t]

\* A refreshed legacy login, written back as the refresh had read it.
WriteBack ==
    /\ Change
    /\ \E i \in DOMAIN logins, l \in copies, t \in Token :
        /\ l.name = logins[i].name
        /\ logins' = [logins EXCEPT ![i] = [l EXCEPT !.token = t]]

Fault == faults' = faults + 1 /\ copies' \subseteq copies

Survive == Fault /\ UNCHANGED <<logins, lost>>

Lose == Fault /\ lost' = TRUE /\ logins' = <<>>

Recover ==
    /\ lost
    /\ lost' = FALSE
    /\ logins' \in Seq(Login)
    /\ DistinctNames(logins')
    /\ UNCHANGED <<copies, faults>>

Next ==
    \/ Read \/ Add \/ Delete \/ SetDefault \/ Rewrite \/ WriteBack
    \/ Survive \/ Lose \/ Recover

Spec == Init /\ [][Next]_vars
=============================================================================
