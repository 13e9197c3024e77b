------------------------------- MODULE Logins -------------------------------
(***************************************************************************)
(* The list of logins of the config file (LocalConfig.Logins in            *)
(* modules/config/config.go) as data: what a login is, how a name is       *)
(* looked up, and the list edits that modules/config/login.go makes.       *)
(***************************************************************************)
EXTENDS Integers, Sequences

CONSTANTS
    Name,       \* spellings of login names
    Folded,     \* the case-folded form of each spelling
    Token,      \* access tokens, each with its refresh token and expiry
    NoToken     \* no token stored

ASSUME FoldedAssumption == Folded \in [Name -> Name]
ASSUME NoTokenAssumption == NoToken \notin Token

(***************************************************************************)
(* "plain": a token pasted or generated, without refresh token;            *)
(* "legacy": OAuth tokens in the YAML file, from before the credential     *)
(* store; "oauth": AuthMethodOAuth, tokens in the credential store.        *)
(***************************************************************************)
Kind == {"plain", "legacy", "oauth"}

Login ==
    [name : Name, kind : Kind, default : BOOLEAN, token : Token \cup {NoToken}]

\* strings.EqualFold
EqualFold(a, b) == Folded[a] = Folded[b]

\* The indices of the logins that go by name n.
Matches(s, n) == {i \in DOMAIN s : EqualFold(s[i].name, n)}

\* A for loop that stops at the first login that goes by name n stops at i.
IsFirst(s, n, i) ==
    /\ i \in Matches(s, n)
    /\ \A j \in Matches(s, n) : i <= j

\* The first login spelled exactly n: the loop of RefreshOAuthToken.
IsFirstExact(s, n, i) ==
    /\ s[i].name = n
    /\ \A j \in DOMAIN s : s[j].name = n => i <= j

\* Names compared with case.
NameTakenExact(s, n) == \E i \in DOMAIN s : s[i].name = n

\* AddLogin's check under the lock.
NameTaken(s, n) == Matches(s, n) # {}

\* append(s[:i], s[i+1:]...)
Without(s, i) ==
    [j \in 1 .. Len(s) - 1 |-> IF j < i THEN s[j] ELSE s[j + 1]]

\* SetDefaultLogin's loop: every flag is cleared, the match is set.
OnlyDefault(s, n) ==
    [i \in DOMAIN s |-> [s[i] EXCEPT !.default = EqualFold(s[i].name, n)]]

\* No two logins go by the same name (compared without case).
DistinctNames(s) ==
    \A i, j \in DOMAIN s : EqualFold(s[i].name, s[j].name) => i = j
=============================================================================
