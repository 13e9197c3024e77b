---------------------------- MODULE TokenRefresh ----------------------------
(***************************************************************************)
(* Renewing the OAuth token of one login (modules/config/login.go) in      *)
(* time: several tea processes find the stored token near its expiry, the  *)
(* lock lets one of them ask, and the server may accept every refresh      *)
(* token once only.                                                        *)
(*                                                                         *)
(* An "oauth" login has its token in the credential store, which is read   *)
(* anew at every use; a "legacy" login has it in the config file, and a    *)
(* process keeps the copy it read when it started.  The lock is            *)
(* ExclusiveLock (see ConfigLock).  A token is the number the server gave  *)
(* it and its expiry.                                                      *)
(***************************************************************************)
EXTENDS Integers

CONSTANTS
    Process,        \* tea processes
    NoProcess,      \* the holder of a free lock
    AuthMethods,    \* the kinds of login: "oauth", "legacy" or both
    Threshold,      \* TokenRefreshThreshold (5 min)
    Margin,         \* tokens this near their expiry count as expired in
                    \* golang.org/x/oauth2 (10 s)
    Lifetime,       \* lifetime of the tokens the server issues
    Rotates,        \* the server invalidates a refresh token that was used
    MaxTime,        \* bound: ticks of the clock
    MaxToken,       \* bound: tokens issued
    MaxLosses       \* bound: lost answers and crashes

ASSUME ProcessAssumption == NoProcess \notin Process
ASSUME AuthMethodAssumption == AuthMethods \subseteq {"oauth", "legacy"}
ASSUME RotatesAssumption == Rotates \in BOOLEAN
ASSUME TimeAssumption ==
    /\ Threshold \in Nat /\ Margin \in Nat /\ Margin < Threshold
    /\ Lifetime \in Nat \ {0}
ASSUME BoundsAssumption ==
    MaxTime \in Nat /\ MaxToken \in Nat \ {0} /\ MaxLosses \in Nat

VARIABLES
    authMethod, \* the kind of the login
    now,        \* the clock
    stored,     \* the token in the credential store, or in the config file
    accepted,   \* the refresh tokens the server accepts
    asked,      \* asked[k]: how often refresh token k was sent (2: or more)
    issued,     \* tokens issued so far
    losses,     \* answers of the server that were lost or not stored
    holder,     \* the process that holds the config lock
    proc        \* proc[p]: what process p is doing

server == <<accepted, asked, issued>>
vars == <<authMethod, now, stored, server, losses, holder, proc>>

Id == 1 .. MaxToken
Token == [id : Id, expiry : 0 .. MaxTime + Lifetime]

Phase == {"idle", "check", "lock", "locked", "source", "loaded", "sent",
          "store", "unlock", "browser", "relock", "restore"}

Critical == {"locked", "source", "loaded", "sent", "store", "unlock"}

\* copy: the login's token fields as p read them; got: the token to send or store;
\* manual: login oauth-refresh, not yet in the browser; ok: the refresh has succeeded.
Proc == [pc : Phase, copy : Token, got : Token, manual : BOOLEAN, ok : BOOLEAN]

\* Every variable has its type, and whoever is past the lock holds it.
TypeOK ==
    /\ authMethod \in AuthMethods
    /\ now \in 0 .. MaxTime
    /\ stored \in Token
    /\ accepted \subseteq 1 .. issued
    /\ asked \in [Id -> 0 .. 2]
    /\ issued \in Id
    /\ losses \in 0 .. MaxLosses
    /\ holder \in Process \cup {NoProcess}
    /\ proc \in [Process -> Proc]
    /\ \A p \in Process : proc[p].pc \in Critical => holder = p

FirstToken == [id |-> 1, expiry |-> Lifetime]

Exited ==
    [pc |-> "idle", copy |-> FirstToken, got |-> FirstToken,
     manual |-> FALSE, ok |-> FALSE]

Init ==
    /\ authMethod \in AuthMethods
    /\ now = 0
    /\ stored = FirstToken
    /\ accepted = {1}
    /\ asked = [k \in Id |-> 0]
    /\ issued = 1
    /\ losses = 0
    /\ holder = NoProcess
    /\ proc = [p \in Process |-> Exited]

At(p, label) == proc[p].pc = label

\* Process p takes a step of its own.
Local(p, state) ==
    /\ proc' = [proc EXCEPT ![p] = state]
    /\ UNCHANGED <<authMethod, now, stored, server, losses, holder>>

\* Client(), or login oauth-refresh: the login is read from the config file.
Start(p) ==
    /\ At(p, "idle")
    /\ \E manual \in BOOLEAN :
        Local(p, [Exited EXCEPT !.pc = IF manual THEN "lock" ELSE "check",
                    !.copy = stored, !.manual = manual])

\* The token as it was when the command started, whatever the login.
TokenOfSnapshot(p) == proc[p].copy

\* GetRefreshToken, GetTokenExpiry, loadOAuthToken: what the login object of
\* p gives for its token.
TokenOf(p) == IF authMethod = "oauth" THEN stored ELSE proc[p].copy

NearExpiry(t) == now + Threshold > t.expiry

\* RefreshOAuthTokenIfNeeded
RefreshIfNeeded(p) ==
    /\ At(p, "check")
    /\ Local(p, IF NearExpiry(TokenOf(p))
                THEN [proc[p] EXCEPT !.pc = "lock"] ELSE Exited)

\* A lock that is granted while another process holds it.
AcquireLockShared(p) ==
    /\ At(p, "lock") \/ At(p, "relock")
    /\ holder' = p
    /\ proc' = [proc EXCEPT ![p].pc = IF @ = "lock" THEN "locked" ELSE "store"]
    /\ UNCHANGED <<authMethod, now, stored, server, losses>>

AcquireLock(p) ==
    /\ At(p, "lock") \/ At(p, "relock")
    /\ holder = NoProcess
    /\ holder' = p
    /\ proc' = [proc EXCEPT ![p].pc = IF @ = "lock" THEN "locked" ELSE "store"]
    /\ UNCHANGED <<authMethod, now, stored, server, losses>>

\* The command fails, and login oauth-refresh turns to the browser, once.
Failed(p) ==
    IF proc[p].manual THEN [proc[p] EXCEPT !.pc = "browser"] ELSE Exited

LockTimeout(p) ==
    /\ At(p, "lock") \/ At(p, "relock")
    /\ holder # NoProcess
    /\ Local(p, Failed(p))

\* The double check: the login read under the lock has another expiry, not a
\* near one; then p goes on with that token.
DoubleCheck(p) ==
    /\ At(p, "locked")
    /\ Local(p,
        IF stored.expiry # TokenOf(p).expiry /\ now + Threshold < stored.expiry
        THEN [proc[p] EXCEPT !.pc = "unlock", !.ok = TRUE, !.copy = stored]
        ELSE [proc[p] EXCEPT !.pc = "source"])

SendsRefreshToken(t) ==
    asked' = [asked EXCEPT ![t.id] = IF @ = 2 THEN 2 ELSE @ + 1]

\* doOAuthRefresh loads the current token once.  The browser flow of another
\* process may store one before it is used.
LoadToken(p) ==
    /\ At(p, "source")
    /\ Local(p, [proc[p] EXCEPT !.pc = "loaded", !.got = TokenOf(p)])

\* oauth2.TokenSource(...).Token() hands out the token it was given while it
\* is valid, and sends its refresh token otherwise.
TokenSource(p) ==
    /\ At(p, "loaded")
    /\ LET t == proc[p].got IN
        \/ /\ now <= t.expiry - Margin
           /\ Local(p, [proc[p] EXCEPT !.pc = "store"])
        \/ /\ now > t.expiry - Margin
           /\ SendsRefreshToken(t)
           /\ proc' = [proc EXCEPT ![p].pc = "sent"]
           /\ UNCHANGED <<authMethod, now, stored, accepted, issued, losses, holder>>

\* The server issues a token and, if it rotates them, drops the one used.
Issue(old) ==
    /\ issued < MaxToken
    /\ issued' = issued + 1
    /\ accepted' = (IF Rotates THEN accepted \ old ELSE accepted) \cup {issued'}
    /\ UNCHANGED asked

NewToken == [id |-> issued', expiry |-> now + Lifetime]

Granted(p) ==
    /\ At(p, "sent")
    /\ proc[p].got.id \in accepted
    /\ Issue({proc[p].got.id})
    /\ proc' = [proc EXCEPT ![p].pc = "store", ![p].got = NewToken]
    /\ UNCHANGED <<authMethod, now, stored, losses, holder>>

Rejected(p) ==
    /\ At(p, "sent")
    /\ proc[p].got.id \notin accepted
    /\ Local(p, [proc[p] EXCEPT !.pc = "unlock"])

\* The server has answered, the answer does not arrive.
AnswerLost(p) ==
    /\ At(p, "sent")
    /\ proc[p].got.id \in accepted
    /\ losses < MaxLosses
    /\ losses' = losses + 1
    /\ Issue({proc[p].got.id})
    /\ proc' = [proc EXCEPT ![p].pc = "unlock"]
    /\ UNCHANGED <<authMethod, now, stored, holder>>

\* The new access token is stored beside the old refresh token.
StoreAccessTokenOnly(p) ==
    /\ At(p, "store")
    /\ stored' = [proc[p].got EXCEPT !.id = stored.id]
    /\ proc' = [proc EXCEPT ![p].pc = "unlock", ![p].ok = TRUE,
                            ![p].copy = proc[p].got]
    /\ UNCHANGED <<authMethod, now, server, losses, holder>>

\* Under the lock: SaveOAuthTokenFromOAuth2, or the login's token fields and
\* saveConfigUnsafe.
Store(p) ==
    /\ At(p, "store")
    /\ stored' = proc[p].got
    /\ proc' = [proc EXCEPT ![p].pc = "unlock", ![p].ok = TRUE,
                            ![p].copy = proc[p].got]
    /\ UNCHANGED <<authMethod, now, server, losses, holder>>

Unlock(p) ==
    /\ At(p, "unlock")
    /\ holder' = NoProcess
    /\ proc' = [proc EXCEPT ![p] = IF proc[p].ok THEN Exited ELSE Failed(p)]
    /\ UNCHANGED <<authMethod, now, stored, server, losses>>

\* ReauthenticateLogin: the user grants tea access once more, or gives up.
Reauthenticate(p) ==
    /\ At(p, "browser")
    /\ \/ Local(p, Exited)
       \/ /\ Issue({})
          /\ proc' = [proc EXCEPT ![p].got = NewToken, ![p].manual = FALSE,
                ![p].pc = IF authMethod = "oauth" THEN "restore" ELSE "relock"]
          /\ UNCHANGED <<authMethod, now, stored, losses, holder>>

\* SaveOAuthTokenFromOAuth2 without the lock.
StoreUnlocked(p) ==
    /\ At(p, "restore")
    /\ stored' = proc[p].got
    /\ proc' = [proc EXCEPT ![p] = Exited]
    /\ UNCHANGED <<authMethod, now, server, losses, holder>>

\* The credential store or the disk rejects the token.
StoreFails(p) ==
    /\ At(p, "store") \/ At(p, "restore")
    /\ losses < MaxLosses
    /\ losses' = losses + 1
    /\ proc' = [proc EXCEPT ![p] = IF @.pc = "store" THEN [@ EXCEPT !.pc = "unlock"]
                                    ELSE Exited]
    /\ UNCHANGED <<authMethod, now, stored, server, holder>>

\* The process is killed; what the server has just issued is lost with it.
Crash(p) ==
    /\ ~At(p, "idle")
    /\ losses < MaxLosses
    /\ losses' = losses + 1
    /\ proc' = [proc EXCEPT ![p] = Exited]
    /\ holder' = IF holder = p THEN NoProcess ELSE holder
    /\ UNCHANGED <<authMethod, now, stored, server>>

Tick ==
    /\ now < MaxTime
    /\ now' = now + 1
    /\ UNCHANGED <<authMethod, stored, server, losses, holder, proc>>

Refresh(p) == RefreshIfNeeded(p) \/ AcquireLock(p) \/ LockTimeout(p)
    \/ DoubleCheck(p) \/ LoadToken(p) \/ TokenSource(p) \/ Store(p)
    \/ Unlock(p) \/ StoreUnlocked(p)

Server(p) == Granted(p) \/ Rejected(p) \/ AnswerLost(p)

Next ==
    \/ \E p \in Process :
        \/ Start(p) \/ Refresh(p) \/ Server(p) \/ Reauthenticate(p)
        \/ StoreFails(p) \/ Crash(p)
    \/ Tick

Spec == Init /\ [][Next]_vars

----------------------------------------------------------------------------
(* Properties                                                              *)

\* Unless an answer was lost, no refresh token of an OAuth login is sent
\* twice, however many processes find it near its expiry.
RefreshTokenUsedOnce ==
    authMethod = "oauth" /\ losses = 0 => \A k \in Id : asked[k] <= 1

\* Unless an answer was lost, the server accepts the stored refresh token,
\* or the process in the lock is about to store its successor: a rotating
\* server never leaves tea with a token it has invalidated, whatever the
\* browser flow writes beside the lock.
StoredTokenAccepted ==
    losses = 0 =>
        \/ stored.id \in accepted
        \/ \E p \in Process : At(p, "store") /\ proc[p].got.id \in accepted

----------------------------------------------------------------------------
(* What comments of the code say and the code does not do.                 *)

\* "Uses double-checked locking to avoid unnecessary refresh calls when
\* multiple processes race": no refresh token is sent twice, whatever the login.
NoUnnecessaryRefresh == losses = 0 => \A k \in Id : asked[k] <= 1
=============================================================================
