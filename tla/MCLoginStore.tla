---------------------------- MODULE MCLoginStore ----------------------------
(* Small instances of LoginStore: two login names, one of them with two    *)
(* spellings.                                                               *)
EXTENDS LoginStore, TLC

MCName == {"a", "A", "b"}
MCFolded == "a" :> "a" @@ "A" :> "a" @@ "b" :> "b"

MCLogin(n, k, d, t) == [name |-> n, kind |-> k, default |-> d, token |-> t]

CONSTANTS tk1, tk2

LegacyLists ==
    {<<MCLogin("a", "legacy", TRUE, tk1), MCLogin("b", "plain", FALSE, tk2)>>}

Lists == LegacyLists \cup
    {<<MCLogin("a", "oauth", TRUE, NoToken)>>,
     <<MCLogin("a", "oauth", TRUE, NoToken), MCLogin("b", "legacy", FALSE, tk1)>>}
=============================================================================
