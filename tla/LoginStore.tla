----------------------------- MODULE LoginStore -----------------------------
(***************************************************************************)
(* The store of logins (modules/config) and the tea commands that change   *)
(* it: any number of tea processes run beside each other over one config   *)
(* file, one credential store and one config lock (ExclusiveLock, which    *)
(* ConfigLock shows the two-level lock to implement).                      *)
(*                                                                         *)
(* A command first reads the config file without the lock (loadConfig,     *)
(* once per process) and decides on that snapshot; withConfigLock then     *)
(* takes the lock, reads the file again and runs a function that edits the *)
(* list in memory, possibly asks the server for new tokens or changes the  *)
(* credential store, and rewrites the file: truncation first, then the     *)
(* text.  Some credential store accesses happen outside the lock.          *)
(*                                                                         *)
(* Time is kept in TokenRefresh; here a refresh may find a token near its  *)
(* expiry at any moment, and a token that differs from the one a command   *)
(* started with was issued while the command ran.                          *)
(***************************************************************************)
EXTENDS Logins

CONSTANTS
    Process,        \* tea processes that may run at the same time
    NoProcess,      \* the holder of a free lock
    NoName,         \* no login name on the command line
    Command,        \* the commands that are run, a subset of AllCommands
    InitialLogins,  \* the lists of logins a run may start from
    MaxRuns,        \* bound: commands started
    MaxFaults       \* bound: crashes and failed writes

AllCommands == {"add", "oauth", "delete", "default", "client", "manual"}

ASSUME ProcessAssumption == NoProcess \notin Process
ASSUME NameAssumption == Name # {} /\ NoName \notin Name
ASSUME CommandAssumption == Command \subseteq AllCommands
ASSUME InitialLoginsAssumption ==
    /\ InitialLogins \subseteq Seq(Login)
    /\ \A s \in InitialLogins : DistinctNames(s)
ASSUME BoundsAssumption == MaxRuns \in Nat /\ MaxFaults \in Nat

VARIABLES
    file,       \* the config file: its state and the logins it holds
    creds,      \* creds[n]: the OAuth token stored for login name n
    holder,     \* the process that holds the config lock
    proc,       \* proc[p]: what process p is doing
    runs,       \* commands started so far
    faults      \* crashes and failed writes so far

vars == <<file, creds, holder, proc, runs, faults>>

\* "absent": no config file; "empty": truncated; "broken": written in part, so
\* that it does not parse; "yaml": holds the logins.
File == [state : {"absent", "empty", "broken"}, logins : {<<>>}]
            \cup [state : {"yaml"}, logins : Seq(Login)]

Yaml(s) == [state |-> "yaml", logins |-> s]
Emptied == [state |-> "empty", logins |-> <<>>]
Broken == [state |-> "broken", logins |-> <<>>]
Damaged(f) == f.state \in {"empty", "broken"}

Phase ==
    {"idle", "load", "token", "browser", "post",    \* without the lock
     "lock",                                        \* waiting for it
     "locked", "uncred", "net", "cred", "save", "write", "unlock"}

Locked == {"locked", "uncred", "net", "cred", "save", "write", "unlock"}

\* The functions of login.go that run under withConfigLock.
Function ==
    {"AddLogin", "DeleteLogin", "SetDefaultLogin", "RefreshOAuthToken",
     "SaveLoginTokens"}

\* pc: the next step; cmd: the command; fn: the function for withConfigLock;
\* arg: the name typed; login: the login being added, refreshed or removed;
\* mem: the global variable config.Logins; tok: the OAuth token to store;
\* ok: whether fn has succeeded.
Proc ==
    [pc : Phase, cmd : AllCommands, fn : Function, arg : Name \cup {NoName},
     login : Login, mem : Seq(Login), tok : Token \cup {NoToken},
     ok : BOOLEAN]

SomeLogin ==
    [name |-> CHOOSE n \in Name : TRUE, kind |-> "plain",
     default |-> FALSE, token |-> NoToken]

Exited ==
    [pc |-> "idle", cmd |-> "client", fn |-> "RefreshOAuthToken",
     arg |-> NoName, login |-> SomeLogin, mem |-> <<>>, tok |-> NoToken,
     ok |-> TRUE]

\* Every variable has its type.
TypeOK ==
    /\ file \in File
    /\ creds \in [Name -> Token \cup {NoToken}]
    /\ holder \in Process \cup {NoProcess}
    /\ proc \in [Process -> Proc]
    /\ runs \in 0 .. MaxRuns
    /\ faults \in 0 .. MaxFaults

\* Every stored OAuth login starts with a credential.
Init ==
    /\ file \in {Yaml(s) : s \in InitialLogins}
                \cup {[state |-> "absent", logins |-> <<>>]}
    /\ \E t \in Token :
        creds = [n \in Name |->
            IF \E i \in DOMAIN file.logins :
                file.logins[i].name = n /\ file.logins[i].kind = "oauth"
            THEN t ELSE NoToken]
    /\ holder = NoProcess
    /\ proc = [p \in Process |-> Exited]
    /\ runs = 0
    /\ faults = 0

At(p, label) == proc[p].pc = label

\* A process has truncated the file and is about to write it.
Writing == \E p \in Process : At(p, "write")

\* Process p takes a step that changes its own state only.
Local(p, state) ==
    /\ proc' = [proc EXCEPT ![p] = state]
    /\ UNCHANGED <<file, creds, holder, runs, faults>>

----------------------------------------------------------------------------
(* Starting a command, and the decisions taken on the unlocked snapshot.   *)

\* login default NAME writes without loading first; login add --oauth comes
\* back from the browser and calls login.Client() before anything is stored.
Start(p) ==
    /\ At(p, "idle")
    /\ runs < MaxRuns
    /\ runs' = runs + 1
    /\ UNCHANGED <<file, creds, holder, faults>>
    /\ \E c \in Command, n \in Name :
        \/ /\ c = "add"
           /\ \E t \in Token \cup {NoToken} :
                proc' = [proc EXCEPT ![p] =
                    [Exited EXCEPT !.pc = "load", !.cmd = c, !.fn = "AddLogin",
                        !.login = [name |-> n, kind |-> "plain",
                                   default |-> FALSE, token |-> t]]]
        \/ /\ c = "oauth"
           /\ \E t \in Token :
                proc' = [proc EXCEPT ![p] =
                    [Exited EXCEPT !.pc = "token", !.cmd = c, !.tok = t,
                        !.login = [name |-> n, kind |-> "oauth",
                                   default |-> FALSE, token |-> NoToken]]]
        \/ /\ c = "delete"
           /\ \E a \in {n, NoName} :
                proc' = [proc EXCEPT ![p] =
                    [Exited EXCEPT !.pc = "load", !.cmd = c,
                        !.fn = "DeleteLogin", !.arg = a]]
        \/ /\ c = "default"
           /\ proc' = [proc EXCEPT ![p] =
                [Exited EXCEPT !.pc = "lock", !.cmd = c,
                    !.fn = "SetDefaultLogin", !.arg = n]]
        \/ /\ c \in {"client", "manual"}
           /\ proc' = [proc EXCEPT ![p] =
                [Exited EXCEPT !.pc = "load", !.cmd = c, !.arg = n]]

\* Every command below begins with loadConfig, whose error ends it.
Loads(p) == At(p, "load") /\ file.state # "broken"

\* The file does not parse, or is read while it is being written.
LoadFails(p) ==
    /\ At(p, "load")
    /\ file.state = "broken" \/ Writing
    /\ Local(p, Exited)

\* GetLoginByToken; an empty token is never compared.
TokenUsed(s, t) == t # NoToken /\ \E i \in DOMAIN s : s[i].token = t

\* CreateLogin: name and token must be new and the server must accept them.
\* A name that was not typed is made up after this check, and a token is not
\* compared when the login has an SSH key.
CreateLogin(p) ==
    /\ Loads(p) /\ proc[p].cmd = "add"
    /\ \E accepted, typed, ssh \in BOOLEAN :
        Local(p,
            IF /\ accepted
               /\ typed => ~NameTaken(file.logins, proc[p].login.name)
               /\ ssh \/ ~TokenUsed(file.logins, proc[p].login.token)
            THEN [proc[p] EXCEPT !.pc = "lock", !.mem = file.logins]
            ELSE Exited)

\* RunLoginDelete: without an argument the only login is meant.
RunLoginDelete(p) ==
    /\ Loads(p) /\ proc[p].cmd = "delete"
    /\ LET named == proc[p].arg # NoName IN
        Local(p,
            IF named \/ Len(file.logins) = 1
            THEN [proc[p] EXCEPT !.pc = "lock", !.mem = file.logins,
                    !.arg = IF named THEN @ ELSE file.logins[1].name]
            ELSE Exited)

\* GetLoginByName, for a command that needs a client and for oauth-refresh.
GetLoginByName(p) ==
    /\ Loads(p) /\ proc[p].cmd \in {"client", "manual"}
    /\ \/ \E i \in DOMAIN file.logins :
            /\ IsFirst(file.logins, proc[p].arg, i)
            /\ Local(p, [proc[p] EXCEPT !.pc = "token", !.mem = file.logins,
                            !.login = file.logins[i]])
       \/ /\ ~NameTaken(file.logins, proc[p].arg)
          /\ Local(p, Exited)

\* GetRefreshToken is not empty: credential store first, then the YAML.
HasRefreshToken(l) ==
    IF l.kind = "oauth" THEN creds[l.name] # NoToken ELSE l.kind = "legacy"

\* RefreshOAuthTokenIfNeeded goes to RefreshOAuthToken when the token is near
\* its expiry; login oauth-refresh always goes there.
NeedsRefresh(p) ==
    /\ At(p, "token")
    /\ HasRefreshToken(proc[p].login)
    /\ Local(p, [proc[p] EXCEPT !.pc = "lock", !.fn = "RefreshOAuthToken"])

NoRefresh(p) ==
    /\ At(p, "token")
    /\ proc[p].cmd = "manual" => ~HasRefreshToken(proc[p].login)
    /\ Local(p, IF proc[p].cmd = "oauth"
                THEN [proc[p] EXCEPT !.pc = "lock", !.fn = "AddLogin"]
                ELSE Exited)

----------------------------------------------------------------------------
(* withConfigLock                                                          *)

\* The added OAuth login is taken for complete once it is in the file.
ResumeWithoutStoring(s, success) ==
    CASE s.cmd = "oauth" /\ success /\ s.fn = "RefreshOAuthToken" ->
            [s EXCEPT !.pc = "lock", !.fn = "AddLogin"]
      [] s.cmd = "manual" /\ ~success /\ s.fn = "RefreshOAuthToken" ->
            [s EXCEPT !.pc = "browser"]
      [] OTHER -> Exited

\* What the caller of withConfigLock does next.  login add --oauth adds the
\* login once its client is built, and stores the token after the lock is
\* released; oauth-refresh answers a failed refresh with the browser.
Resume(s, success) ==
    CASE s.cmd = "oauth" /\ success /\ s.fn = "RefreshOAuthToken" ->
            [s EXCEPT !.pc = "lock", !.fn = "AddLogin"]
      [] s.cmd = "oauth" /\ success /\ s.fn = "AddLogin" ->
            [s EXCEPT !.pc = "post"]
      [] s.cmd = "manual" /\ ~success /\ s.fn = "RefreshOAuthToken" ->
            [s EXCEPT !.pc = "browser"]
      [] OTHER -> Exited

\* A lock that is granted while another process holds it.
AcquireLockShared(p) ==
    /\ At(p, "lock")
    /\ holder' = p
    /\ proc' = [proc EXCEPT ![p].pc = "locked"]
    /\ UNCHANGED <<file, creds, runs, faults>>

AcquireLock(p) ==
    /\ At(p, "lock")
    /\ holder = NoProcess
    /\ holder' = p
    /\ proc' = [proc EXCEPT ![p].pc = "locked"]
    /\ UNCHANGED <<file, creds, runs, faults>>

\* A lock without timeout.
LockTimeoutNever(p) == FALSE /\ UNCHANGED vars

LockTimeout(p) ==
    /\ At(p, "lock")
    /\ holder # NoProcess
    /\ Local(p, Resume(proc[p], FALSE))

\* No reload: the snapshot taken before the lock is used.
ReloadedStale(p) ==
    IF proc[p].mem = <<>> THEN file.logins ELSE proc[p].mem

\* reloadConfigFromDisk: no file means no logins; an empty file has no YAML
\* document, so Unmarshal leaves config as it is.
Reloaded(p) == IF file.state = "empty" THEN proc[p].mem ELSE file.logins

Unlock(p) ==
    /\ At(p, "unlock")
    /\ holder' = NoProcess
    /\ proc' = [proc EXCEPT ![p] = Resume(proc[p], proc[p].ok)]
    /\ UNCHANGED <<file, creds, runs, faults>>

\* fn ends with an error and nothing is saved.
FnFails(p, mem) ==
    Local(p, [proc[p] EXCEPT !.pc = "unlock", !.ok = FALSE, !.mem = mem])

\* fn has edited the list and saves it.
FnSaves(p, mem) == Local(p, [proc[p] EXCEPT !.pc = "save", !.mem = mem])

\* The process runs function f under the lock, for a file that it can reload.
Runs(p, f) == At(p, "locked") /\ proc[p].fn = f /\ file.state # "broken"

\* reloadConfigFromDisk returns an error, and the function does not run.
ReloadFails(p) ==
    /\ At(p, "locked")
    /\ file.state = "broken"
    /\ FnFails(p, proc[p].mem)

----------------------------------------------------------------------------
(* The functions that run under the lock.                                  *)

AddLogin(p) ==
    /\ Runs(p, "AddLogin")
    /\ LET mem == Reloaded(p) IN
        IF NameTaken(mem, proc[p].login.name)
        THEN FnFails(p, mem)
        ELSE FnSaves(p, Append(mem, proc[p].login))

\* A name that is not found is an error after every flag has been cleared in
\* memory; nothing is saved then.
SetDefaultLogin(p) ==
    /\ Runs(p, "SetDefaultLogin")
    /\ LET mem == OnlyDefault(Reloaded(p), proc[p].arg) IN
        IF NameTaken(mem, proc[p].arg) THEN FnSaves(p, mem) ELSE FnFails(p, mem)

\* The first login that goes by the name is removed.
DeleteLogin(p) ==
    /\ Runs(p, "DeleteLogin")
    /\ LET mem == Reloaded(p) IN
        \/ /\ ~NameTaken(mem, proc[p].arg)
           /\ FnFails(p, mem)
        \/ \E i \in DOMAIN mem :
            /\ IsFirst(mem, proc[p].arg, i)
            /\ Local(p, [proc[p] EXCEPT
                    !.pc = IF mem[i].kind = "oauth" THEN "uncred" ELSE "save",
                    !.login = mem[i], !.mem = Without(mem, i)])

\* DeleteOAuthToken under the name as it was typed; its error is ignored.
DeleteOAuthToken(p) ==
    /\ At(p, "uncred")
    /\ creds' = [creds EXCEPT ![proc[p].arg] = NoToken]
    /\ proc' = [proc EXCEPT ![p].pc = "save"]
    /\ UNCHANGED <<file, holder, runs, faults>>

\* Only the token fields of the first login that goes by the name change.
SaveLoginTokens(p) ==
    /\ Runs(p, "SaveLoginTokens")
    /\ LET mem == Reloaded(p) IN
        \/ /\ ~NameTaken(mem, proc[p].login.name)
           /\ FnFails(p, mem)
        \/ \E i \in DOMAIN mem :
            /\ IsFirst(mem, proc[p].login.name, i)
            /\ FnSaves(p, [mem EXCEPT ![i].token = proc[p].login.token])

\* GetTokenExpiry: the token whose expiry is read, from the credential store
\* if it is there.  A plain login has no expiry.
TokenHeld(l) ==
    IF l.kind = "oauth" /\ creds[l.name] # NoToken THEN creds[l.name]
    ELSE IF l.kind = "legacy" THEN l.token ELSE NoToken

\* Another process has refreshed the token: the entry read under the lock has
\* an expiry, and not the one of the copy read before the lock.
RefreshedMeanwhile(l, current) ==
    TokenHeld(current) \notin {NoToken, TokenHeld(l)}

\* Going on with the copy of the login that was read before the lock.
RefreshOAuthTokenUnchecked(p) ==
    /\ Runs(p, "RefreshOAuthToken")
    /\ Local(p, [proc[p] EXCEPT !.pc = "net", !.mem = Reloaded(p)])

\* The double check: a token that another process has refreshed is used as it
\* is, unless it is near its expiry again.
RefreshOAuthToken(p) ==
    /\ Runs(p, "RefreshOAuthToken")
    /\ LET mem == Reloaded(p)
           l == proc[p].login
       IN  \/ /\ \A i \in DOMAIN mem : mem[i].name # l.name
              /\ FnFails(p, mem)
           \/ \E i \in DOMAIN mem :
               /\ IsFirstExact(mem, l.name, i)
               /\ \/ Local(p, [proc[p] EXCEPT !.mem = mem, !.pc = "net"])
                  \/ /\ RefreshedMeanwhile(l, mem[i])
                     /\ Local(p, [proc[p] EXCEPT !.mem = mem, !.pc = "unlock"])

\* doOAuthRefresh: the token source returns the current token while it is
\* valid and asks the server for another one otherwise, which may fail.  A
\* legacy login is written back whole, as it was read before the lock.
DoOAuthRefresh(p) ==
    /\ At(p, "net")
    /\ LET l == proc[p].login
           mem == proc[p].mem
       IN  \/ FnFails(p, mem)
           \/ \E t \in Token :
               /\ HasRefreshToken(l)
               /\ l.kind = "oauth"
               /\ Local(p, [proc[p] EXCEPT !.pc = "cred", !.tok = t])
           \/ \E t \in Token, i \in DOMAIN mem :
               /\ l.kind = "legacy"
               /\ IsFirstExact(mem, l.name, i)
               /\ FnSaves(p, [mem EXCEPT ![i] = [l EXCEPT !.token = t]])

\* SaveOAuthTokenFromOAuth2 while the lock is held.
StoreRefreshedToken(p) ==
    /\ At(p, "cred")
    /\ creds' = [creds EXCEPT ![proc[p].login.name] = proc[p].tok]
    /\ proc' = [proc EXCEPT ![p].pc = "unlock"]
    /\ UNCHANGED <<file, holder, runs, faults>>

----------------------------------------------------------------------------
(* saveConfigUnsafe, and what happens outside the lock.                    *)

\* Overwriting the file in place.
TruncateInPlace(p) ==
    /\ At(p, "save")
    /\ file' = [file EXCEPT !.state = "empty"]
    /\ proc' = [proc EXCEPT ![p].pc = "write"]
    /\ UNCHANGED <<creds, holder, runs, faults>>

\* os.WriteFile opens with O_CREATE|O_TRUNC ...
Truncate(p) ==
    /\ At(p, "save")
    /\ file' = Emptied
    /\ proc' = [proc EXCEPT ![p].pc = "write"]
    /\ UNCHANGED <<creds, holder, runs, faults>>

\* ... and then writes.
Write(p) ==
    /\ At(p, "write")
    /\ file' = Yaml(proc[p].mem)
    /\ proc' = [proc EXCEPT ![p].pc = "unlock"]
    /\ UNCHANGED <<creds, holder, runs, faults>>

\* The browser flow that oauth-refresh falls back to: new tokens for the
\* login as it was read at the start, or an error.
Reauthenticate(p) ==
    /\ At(p, "browser")
    /\ \/ Local(p, Exited)
       \/ \E t \in Token :
            Local(p,
                IF proc[p].login.kind = "oauth"
                THEN [proc[p] EXCEPT !.pc = "post", !.tok = t]
                ELSE [proc[p] EXCEPT !.pc = "lock", !.fn = "SaveLoginTokens",
                        !.login.token = t])

\* SaveOAuthToken without the lock: the last step of login add --oauth and of
\* a re-authentication.
StoreNewToken(p) ==
    /\ At(p, "post")
    /\ creds' = [creds EXCEPT ![proc[p].login.name] = proc[p].tok]
    /\ proc' = [proc EXCEPT ![p] = Exited]
    /\ UNCHANGED <<file, holder, runs, faults>>

----------------------------------------------------------------------------
(* Faults                                                                  *)

Fault == faults < MaxFaults /\ faults' = faults + 1

\* A failed write whose error is dropped.
SaveFailsSilently(p) ==
    /\ Fault
    /\ proc[p].pc \in {"save", "write"}
    /\ proc' = [proc EXCEPT ![p].pc = "unlock"]
    /\ UNCHANGED <<file, creds, holder, runs>>

\* The file cannot be opened, or (disk full) not written after truncation.
SaveFails(p) ==
    /\ Fault
    /\ \/ At(p, "save") /\ UNCHANGED file
       \/ At(p, "write") /\ file' \in {Emptied, Broken}
    /\ proc' = [proc EXCEPT ![p].pc = "unlock", ![p].ok = FALSE]
    /\ UNCHANGED <<creds, holder, runs>>

\* The file is there and cannot be read.
ReadFails(p) ==
    /\ Fault
    /\ \/ /\ At(p, "load")
          /\ proc' = [proc EXCEPT ![p] = Exited]
       \/ /\ At(p, "locked")
          /\ proc' = [proc EXCEPT ![p].pc = "unlock", ![p].ok = FALSE]
    /\ UNCHANGED <<file, creds, holder, runs>>

\* The credential store rejects the token.
StoreFails(p) ==
    /\ Fault
    /\ \/ /\ At(p, "cred")
          /\ proc' = [proc EXCEPT ![p].pc = "unlock", ![p].ok = FALSE]
       \/ /\ At(p, "post")
          /\ proc' = [proc EXCEPT ![p] = Exited]
    /\ UNCHANGED <<file, creds, holder, runs>>

\* The process is killed; the kernel frees its lock.
Crash(p) ==
    /\ Fault
    /\ ~At(p, "idle")
    /\ proc' = [proc EXCEPT ![p] = Exited]
    /\ holder' = IF holder = p THEN NoProcess ELSE holder
    /\ UNCHANGED <<file, creds, runs>>

----------------------------------------------------------------------------

\* What a running command does by itself.
Snapshot(p) == LoadFails(p) \/ CreateLogin(p) \/ RunLoginDelete(p) \/ GetLoginByName(p)
                \/ NeedsRefresh(p) \/ NoRefresh(p)

UnderLock(p) == ReloadFails(p) \/ AddLogin(p) \/ SetDefaultLogin(p) \/ DeleteLogin(p)
                \/ DeleteOAuthToken(p) \/ SaveLoginTokens(p)
                \/ RefreshOAuthToken(p) \/ StoreRefreshedToken(p)
                \/ Truncate(p) \/ Write(p) \/ Unlock(p)

Proceed(p) == Snapshot(p) \/ AcquireLock(p) \/ LockTimeout(p) \/ UnderLock(p)
                \/ StoreNewToken(p)

\* What depends on the server and on the user at the browser.
Remote(p) == DoOAuthRefresh(p) \/ Reauthenticate(p)

Faulty(p) == SaveFails(p) \/ ReadFails(p) \/ StoreFails(p) \/ Crash(p)

Next == \E p \in Process : Start(p) \/ Proceed(p) \/ Remote(p) \/ Faulty(p)

Spec == Init /\ [][Next]_vars

\* A running process is scheduled.  Nothing is assumed of the server (the
\* refresh request has no timeout) nor of the browser.
FairSpec == Spec /\ \A p \in Process : WF_vars(Proceed(p))

----------------------------------------------------------------------------
(* Properties                                                              *)

\* The list the store stands for: a rewrite takes effect when it truncates.
stored == IF Writing
          THEN proc[CHOOSE p \in Process : At(p, "write")].mem
          ELSE file.logins
gone == Damaged(file) /\ ~Writing

\* The legacy logins that running refreshes hold as they read them.
HoldsCopy(s) ==
    /\ s.fn = "RefreshOAuthToken" /\ s.login.kind = "legacy"
    /\ s.pc \in {"token", "lock", "locked", "net", "save", "write"}

copiesHeld == {proc[p].login : p \in {q \in Process : HoldsCopy(proc[q])}}

Registry == INSTANCE LoginRegistry
                WITH logins <- stored, lost <- gone, copies <- copiesHeld

\* Whatever runs side by side, the list of logins changes by one command at a
\* time, each change made to the result of the one before it; the list is lost
\* in the step of a crash or of a failed write only.  One change undoes others:
\* the refresh of a legacy login puts back the copy it had read before the lock
\* (withConfigLock reloads, RefreshOAuthToken assigns config.Logins[i] = *l).
ImplementsRegistry == Registry!Spec

\* No two stored logins go by the same name, although login add checks the
\* name on an unlocked snapshot first and login add --oauth does not check it
\* at all before AddLogin.  Every lookup by name takes the first match.
UniqueNames ==
    /\ DistinctNames(file.logins)
    /\ \A p \in Process : DistinctNames(proc[p].mem)

\* A truncated file was left by a fault or belongs to the process that holds
\* the lock and is about to write it: without faults, whoever reloads under
\* the lock finds a complete file (os.WriteFile truncates first).
TruncatedOnlyByWriter ==
    Damaged(file) =>
        faults > 0 \/ \E p \in Process : holder = p /\ At(p, "write")

\* When a command has succeeded, and before its lock is released, the file
\* shows its effect: the added login is there, nothing goes by the name of
\* the deleted one in any spelling, the chosen default is the only default.
SuccessIsOnDisk ==
    \A p \in Process :
        At(p, "unlock") /\ proc[p].ok /\ proc[p].fn # "RefreshOAuthToken" =>
            LET s == file.logins IN
            /\ file = Yaml(proc[p].mem)
            /\ proc[p].fn = "AddLogin" =>
                \E i \in DOMAIN s : s[i] = proc[p].login
            /\ proc[p].fn = "DeleteLogin" => ~NameTaken(s, proc[p].arg)
            /\ proc[p].fn = "SetDefaultLogin" =>
                \A i \in DOMAIN s :
                    s[i].default <=> EqualFold(s[i].name, proc[p].arg)

\* Without faults a stored OAuth login has its credential, or the command
\* that added it is still to store it, or the command that deletes it is
\* still to save: the two stores are never updated in one step, and the
\* credential store is written with and without the lock.
CredentialComplete ==
    faults = 0 =>
        \A i \in DOMAIN file.logins :
            LET n == file.logins[i].name IN
            file.logins[i].kind = "oauth" =>
                \/ creds[n] # NoToken
                \/ \E p \in Process :
                    /\ proc[p].cmd = "oauth" /\ proc[p].login.name = n
                    /\ proc[p].fn = "AddLogin"
                    /\ proc[p].pc \in {"unlock", "post"}
                \/ \E p \in Process :
                    /\ proc[p].fn = "DeleteLogin" /\ At(p, "save")
                    /\ EqualFold(proc[p].arg, n)

\* A refresh that is about to store a token still has its login in the file:
\* a login deleted while the refresh waited for the lock does not get its
\* credential back ("re-read config" in RefreshOAuthToken).
RefreshStoresForLiveLogin ==
    \A p \in Process : At(p, "cred") =>
        \/ file.state = "empty"
        \/ \E i \in DOMAIN file.logins :
            file.logins[i].name = proc[p].login.name

\* A refresh changes the tokens of its login and nothing else ("It updates the
\* login with new token information and saves it to config", RefreshOAuthToken).
RefreshUpdatesTokens ==
    [][\A p \in Process :
        At(p, "net") /\ proc'[p].pc = "save" =>
            \A i \in DOMAIN file.logins :
                proc'[p].mem[i] =
                    [file.logins[i] EXCEPT !.token = proc'[p].mem[i].token]
      ]_vars

\* Every command ends or waits for the server or the user, even while another
\* command hangs with the lock in its hands.
CommandEnds ==
    \A p \in Process :
        ~At(p, "idle") ~> proc[p].pc \in {"idle", "net", "browser"}
=============================================================================
