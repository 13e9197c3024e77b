-------------------------- MODULE LoginStoreProofs --------------------------
(***************************************************************************)
(* Theorems about the store of logins, for any number of processes, names  *)
(* and tokens, any initial list and any number of commands and faults.     *)
(***************************************************************************)
EXTENDS LoginStore, TLAPS

----------------------------------------------------------------------------
(* What the list edits of modules/config/login.go preserve: the result is  *)
(* a list of logins, and no name is taken twice.                           *)

\* append(config.Logins, *login) after the duplicate check.
LEMMA AppendKeeps ==
    ASSUME NEW s \in Seq(Login), NEW l \in Login
    PROVE  /\ Append(s, l) \in Seq(Login)
           /\ DistinctNames(s) /\ ~NameTaken(s, l.name)
                => DistinctNames(Append(s, l))
<1>1. Append(s, l) \in Seq(Login)
  OBVIOUS
<1>2. ASSUME DistinctNames(s), ~NameTaken(s, l.name)
      PROVE  DistinctNames(Append(s, l))
  <2>1. \A i \in DOMAIN s : ~EqualFold(s[i].name, l.name)
    BY <1>2 DEF NameTaken, Matches
  <2> SUFFICES ASSUME NEW i \in DOMAIN Append(s, l), NEW j \in DOMAIN Append(s, l),
                      EqualFold(Append(s, l)[i].name, Append(s, l)[j].name)
               PROVE  i = j
    BY DEF DistinctNames
  <2>2. /\ i \in DOMAIN s => Append(s, l)[i] = s[i]
        /\ j \in DOMAIN s => Append(s, l)[j] = s[j]
        /\ i \notin DOMAIN s => i = Len(s) + 1 /\ Append(s, l)[i] = l
        /\ j \notin DOMAIN s => j = Len(s) + 1 /\ Append(s, l)[j] = l
    OBVIOUS
  <2> QED
    BY <1>2, <2>1, <2>2 DEF DistinctNames, EqualFold
<1> QED
  BY <1>1, <1>2

\* append(s[:i], s[i+1:]...)
LEMMA WithoutKeeps ==
    ASSUME NEW s \in Seq(Login), NEW i \in DOMAIN s
    PROVE  /\ Without(s, i) \in Seq(Login)
           /\ DistinctNames(s) => DistinctNames(Without(s, i))
           /\ DistinctNames(s) => ~NameTaken(Without(s, i), s[i].name)
<1>1. /\ DOMAIN s = 1 .. Len(s)
      /\ Len(s) - 1 \in Nat
      /\ DOMAIN Without(s, i) = 1 .. Len(s) - 1
      /\ \A j \in 1 .. Len(s) - 1 :
            /\ j < i => j \in DOMAIN s /\ Without(s, i)[j] = s[j]
            /\ ~(j < i) => j + 1 \in DOMAIN s /\ Without(s, i)[j] = s[j + 1]
  BY DEF Without
<1>2. Without(s, i) \in Seq(Login)
  <2>1. \A j \in 1 .. Len(s) - 1 : Without(s, i)[j] \in Login
    BY <1>1
  <2>2. Without(s, i) \in [1 .. Len(s) - 1 -> Login]
    BY <2>1 DEF Without
  <2> QED
    BY <1>1, <2>2
<1>3. ASSUME DistinctNames(s)
      PROVE  DistinctNames(Without(s, i))
  <2> DEFINE w == Without(s, i)
             src(j) == IF j < i THEN j ELSE j + 1
  <2>1. \A j \in DOMAIN w : src(j) \in DOMAIN s /\ w[j] = s[src(j)]
    BY <1>1
  <2>2. \A j, k \in DOMAIN w : src(j) = src(k) => j = k
    BY <1>1
  <2> HIDE DEF w, src
  <2>3. DistinctNames(w)
    BY <1>3, <2>1, <2>2 DEF DistinctNames
  <2> QED
    BY <2>3 DEF w
<1>4. ASSUME DistinctNames(s)
      PROVE  ~NameTaken(Without(s, i), s[i].name)
  BY <1>1, <1>4 DEF DistinctNames, NameTaken, Matches
<1> QED
  BY <1>2, <1>3, <1>4

\* The loop of SetDefaultLogin changes flags only.
LEMMA OnlyDefaultKeeps ==
    ASSUME NEW s \in Seq(Login), NEW n
    PROVE  /\ OnlyDefault(s, n) \in Seq(Login)
           /\ DistinctNames(s) => DistinctNames(OnlyDefault(s, n))
           /\ NameTaken(OnlyDefault(s, n), n) <=> NameTaken(s, n)
<1> DEFINE flag(i) == EqualFold(s[i].name, n)
<1>1. ASSUME NEW i \in DOMAIN s
      PROVE  /\ OnlyDefault(s, n)[i] \in Login
             /\ OnlyDefault(s, n)[i].name = s[i].name
  <2>1. s[i] \in Login
    OBVIOUS
  <2>2. flag(i) \in BOOLEAN
    BY DEF EqualFold
  <2>3. OnlyDefault(s, n)[i] = [s[i] EXCEPT !.default = flag(i)]
    BY DEF OnlyDefault
  <2> HIDE DEF flag
  <2> QED
    BY <2>1, <2>2, <2>3 DEF Login
<1>2. OnlyDefault(s, n) \in Seq(Login)
  <2> DEFINE d == OnlyDefault(s, n)
  <2>1. d = [i \in 1 .. Len(s) |-> d[i]]
    BY DEF OnlyDefault
  <2> HIDE DEF d
  <2>2. \A i \in 1 .. Len(s) : d[i] \in Login
    BY <1>1 DEF d
  <2>3. d \in [1 .. Len(s) -> Login]
    BY <2>1, <2>2
  <2>4. Len(s) \in Nat
    OBVIOUS
  <2> QED
    BY <2>3, <2>4 DEF d
<1>3. DOMAIN OnlyDefault(s, n) = DOMAIN s
  BY DEF OnlyDefault
<1> QED
  BY <1>1, <1>2, <1>3 DEF DistinctNames, NameTaken, Matches

\* Writing an entry back under the name it has.
LEMMA ReplaceKeeps ==
    ASSUME NEW s \in Seq(Login), NEW i \in DOMAIN s, NEW l \in Login,
           l.name = s[i].name
    PROVE  /\ [s EXCEPT ![i] = l] \in Seq(Login)
           /\ DistinctNames(s) => DistinctNames([s EXCEPT ![i] = l])
BY DEF DistinctNames
----------------------------------------------------------------------------
(* Types                                                                   *)

LEMMA ExitedType == Exited \in Proc
BY NameAssumption DEF Exited, SomeLogin, Proc, Phase, AllCommands, Function, Login, Kind

LEMMA ResumeType ==
    ASSUME NEW s \in Proc, NEW b \in BOOLEAN
    PROVE  Resume(s, b) \in Proc
BY ExitedType DEF Resume, Proc, Phase, AllCommands, Function

\* The field updates the actions make.
LEMMA MoveType ==
    ASSUME NEW s \in Proc, NEW ph \in Phase, NEW b \in BOOLEAN
    PROVE  /\ [s EXCEPT !.pc = ph] \in Proc
           /\ [s EXCEPT !.pc = ph, !.ok = b] \in Proc
BY DEF Proc

\* A step keeps the types if p's new state and the shared variables have them.
LEMMA StepType ==
    ASSUME TypeOK, NEW p \in Process, NEW s \in Proc,
           proc' = [proc EXCEPT ![p] = s],
           file' \in File, creds' \in [Name -> Token \cup {NoToken}],
           holder' \in Process \cup {NoProcess},
           runs' \in 0 .. MaxRuns, faults' \in 0 .. MaxFaults
    PROVE  TypeOK'
BY DEF TypeOK

\* A step that changes only p's own state keeps the types if the new state
\* has the right type.
LEMMA LocalType ==
    ASSUME TypeOK, NEW p \in Process, NEW s \in Proc, Local(p, s)
    PROVE  TypeOK'
BY DEF TypeOK, Local

LEMMA FileType ==
    ASSUME TypeOK
    PROVE  file.logins \in Seq(Login)
<1>1. CASE file.state = "yaml"
  BY <1>1 DEF TypeOK, File
<1>2. CASE file.state # "yaml"
  <2>1. file.logins = <<>>
    BY <1>2 DEF TypeOK, File
  <2> QED
    BY <2>1
<1> QED
  BY <1>1, <1>2

\* What a failed write leaves.
LEMMA DamagedType ==
    /\ Emptied \in File /\ Emptied.logins = <<>> /\ Damaged(Emptied)
    /\ Broken \in File /\ Broken.logins = <<>> /\ Damaged(Broken)
BY DEF Emptied, Broken, File, Damaged

LEMMA ReloadedType ==
    ASSUME TypeOK, NEW p \in Process
    PROVE  Reloaded(p) \in Seq(Login)
BY FileType DEF TypeOK, Reloaded, Proc

LEMMA FnType ==
    ASSUME TypeOK, NEW p \in Process, NEW mem \in Seq(Login),
           FnFails(p, mem) \/ FnSaves(p, mem)
    PROVE  TypeOK'
<1>1. /\ [proc[p] EXCEPT !.pc = "unlock", !.ok = FALSE, !.mem = mem] \in Proc
      /\ [proc[p] EXCEPT !.pc = "save", !.mem = mem] \in Proc
  BY DEF TypeOK, Proc, Phase
<1> QED
  BY <1>1, LocalType DEF FnFails, FnSaves

\* A command starts with nothing in memory.
LEMMA StartState ==
    ASSUME NEW p \in Process, Start(p)
    PROVE  \E s \in Proc : proc' = [proc EXCEPT ![p] = s] /\ s.mem = <<>>
<1> DEFINE add(c, n, t) ==
             [Exited EXCEPT !.pc = "load", !.cmd = c, !.fn = "AddLogin",
                !.login = [name |-> n, kind |-> "plain",
                           default |-> FALSE, token |-> t]]
           oauth(c, n, t) ==
             [Exited EXCEPT !.pc = "token", !.cmd = c, !.tok = t,
                !.login = [name |-> n, kind |-> "oauth",
                           default |-> FALSE, token |-> NoToken]]
           delete(c, a) ==
             [Exited EXCEPT !.pc = "load", !.cmd = c, !.fn = "DeleteLogin",
                !.arg = a]
           setDefault(c, n) ==
             [Exited EXCEPT !.pc = "lock", !.cmd = c,
                !.fn = "SetDefaultLogin", !.arg = n]
           client(c, n) == [Exited EXCEPT !.pc = "load", !.cmd = c, !.arg = n]
<1>1. ASSUME NEW c \in AllCommands, NEW n \in Name
      PROVE  /\ \A t \in Token \cup {NoToken} :
                    add(c, n, t) \in Proc /\ add(c, n, t).mem = <<>>
             /\ \A t \in Token :
                    oauth(c, n, t) \in Proc /\ oauth(c, n, t).mem = <<>>
  <2>1. /\ \A t \in Token \cup {NoToken} :
            [name |-> n, kind |-> "plain", default |-> FALSE, token |-> t] \in Login
        /\ [name |-> n, kind |-> "oauth", default |-> FALSE, token |-> NoToken] \in Login
    BY DEF Login, Kind
  <2> QED
    BY <2>1, ExitedType DEF Exited, Proc, Phase, Function
<1>2. ASSUME NEW c \in AllCommands, NEW n \in Name
      PROVE  /\ \A a \in {n, NoName} :
                    delete(c, a) \in Proc /\ delete(c, a).mem = <<>>
             /\ setDefault(c, n) \in Proc /\ setDefault(c, n).mem = <<>>
             /\ client(c, n) \in Proc /\ client(c, n).mem = <<>>
  BY ExitedType DEF Exited, Proc, Phase, Function
<1>3. \E c \in Command, n \in Name :
        \/ \E t \in Token \cup {NoToken} : proc' = [proc EXCEPT ![p] = add(c, n, t)]
        \/ \E t \in Token : proc' = [proc EXCEPT ![p] = oauth(c, n, t)]
        \/ \E a \in {n, NoName} : proc' = [proc EXCEPT ![p] = delete(c, a)]
        \/ proc' = [proc EXCEPT ![p] = setDefault(c, n)]
        \/ proc' = [proc EXCEPT ![p] = client(c, n)]
  BY DEF Start
<1> HIDE DEF add, oauth, delete, setDefault, client
<1> QED
  BY <1>1, <1>2, <1>3, CommandAssumption

LEMMA StartType ==
    ASSUME TypeOK, NEW p \in Process, Start(p)
    PROVE  TypeOK'
<1>1. runs' \in 0 .. MaxRuns
  <2>1. runs < MaxRuns /\ runs' = runs + 1
    BY DEF Start
  <2> QED
    BY <2>1, BoundsAssumption DEF TypeOK
<1> QED
  BY <1>1, StartState DEF TypeOK, Start

LEMMA SnapshotType ==
    ASSUME TypeOK, NEW p \in Process, Snapshot(p)
    PROVE  TypeOK'
<1>1. /\ file.logins \in Seq(Login)
      /\ proc[p] \in Proc
  BY FileType DEF TypeOK
<1>7. CASE LoadFails(p)
  BY <1>7, LocalType, ExitedType DEF LoadFails
<1>2. CASE CreateLogin(p)
  <2>1. [proc[p] EXCEPT !.pc = "lock", !.mem = file.logins] \in Proc
    BY <1>1 DEF Proc, Phase
  <2> QED
    BY <1>2, <2>1, LocalType, ExitedType DEF CreateLogin
<1>3. CASE RunLoginDelete(p)
  <2>1. CASE Local(p, Exited)
    BY <2>1, LocalType, ExitedType
  <2>2. CASE ~Local(p, Exited)
    <3> DEFINE name == IF proc[p].arg # NoName THEN proc[p].arg
                       ELSE file.logins[1].name
    <3>1. Local(p, [proc[p] EXCEPT !.pc = "lock", !.mem = file.logins, !.arg = name])
      BY <1>1, <1>3, <2>2 DEF RunLoginDelete, Proc
    <3>2. proc[p].arg # NoName \/ Len(file.logins) = 1
      BY <1>3, <2>2 DEF RunLoginDelete
    <3>3. ASSUME Len(file.logins) = 1 PROVE file.logins[1].name \in Name
      <4>1. file.logins[1] \in Login
        BY <1>1, <3>3
      <4> QED
        BY <4>1 DEF Login
    <3>4. name \in Name \cup {NoName}
      BY <1>1, <3>2, <3>3 DEF Proc
    <3> HIDE DEF name
    <3>5. [proc[p] EXCEPT !.pc = "lock", !.mem = file.logins, !.arg = name] \in Proc
      BY <1>1, <3>4 DEF Proc, Phase
    <3> QED
      BY <3>1, <3>5, LocalType
  <2> QED
    BY <2>1, <2>2
<1>4. CASE GetLoginByName(p)
  <2>1. \A i \in DOMAIN file.logins :
          [proc[p] EXCEPT !.pc = "token", !.mem = file.logins,
              !.login = file.logins[i]] \in Proc
    <3>1. \A i \in DOMAIN file.logins : file.logins[i] \in Login
      BY <1>1
    <3> QED
      BY <1>1, <3>1 DEF Proc, Phase
  <2> QED
    BY <1>4, <2>1, LocalType, ExitedType DEF GetLoginByName
<1>5. CASE NeedsRefresh(p)
  BY <1>1, <1>5, LocalType DEF NeedsRefresh, Proc, Phase, Function
<1>6. CASE NoRefresh(p)
  BY <1>1, <1>6, LocalType, ExitedType DEF NoRefresh, Proc, Phase, Function
<1> QED
  BY <1>2, <1>3, <1>4, <1>5, <1>6, <1>7 DEF Snapshot

LEMMA UnderLockType ==
    ASSUME TypeOK, NEW p \in Process, UnderLock(p)
    PROVE  TypeOK'
<1>1. proc[p] \in Proc /\ Reloaded(p) \in Seq(Login)
  BY ReloadedType DEF TypeOK
<1>0. \A ph \in Phase : [proc[p] EXCEPT !.pc = ph] \in Proc
  BY <1>1, MoveType
<1>12. CASE ReloadFails(p)
  BY <1>1, <1>12, FnType DEF ReloadFails, Proc
<1>2. CASE AddLogin(p)
  BY <1>1, <1>2, FnType, AppendKeeps DEF AddLogin, Proc
<1>3. CASE SetDefaultLogin(p)
  BY <1>1, <1>3, FnType, OnlyDefaultKeeps DEF SetDefaultLogin
<1>4. CASE DeleteLogin(p)
  <2>1. CASE FnFails(p, Reloaded(p))
    BY <1>1, <2>1, FnType
  <2>2. CASE ~FnFails(p, Reloaded(p))
    <3>1. PICK i \in DOMAIN Reloaded(p) :
            Local(p, [proc[p] EXCEPT
                !.pc = IF Reloaded(p)[i].kind = "oauth" THEN "uncred" ELSE "save",
                !.login = Reloaded(p)[i], !.mem = Without(Reloaded(p), i)])
      BY <1>4, <2>2 DEF DeleteLogin
    <3>2. Without(Reloaded(p), i) \in Seq(Login) /\ Reloaded(p)[i] \in Login
      BY <1>1, WithoutKeeps
    <3> QED
      BY <1>1, <3>1, <3>2, LocalType DEF Proc, Phase
  <2> QED
    BY <2>1, <2>2
<1>5. CASE DeleteOAuthToken(p)
  <2>1. /\ creds' \in [Name -> Token \cup {NoToken}]
        /\ proc' = [proc EXCEPT ![p] = [proc[p] EXCEPT !.pc = "save"]]
        /\ UNCHANGED <<file, holder, runs, faults>>
    BY <1>5 DEF DeleteOAuthToken, TypeOK
  <2> QED
    BY <2>1, <1>0, StepType DEF TypeOK, Phase
<1>6. CASE SaveLoginTokens(p)
  <2>1. CASE FnFails(p, Reloaded(p))
    BY <1>1, <2>1, FnType
  <2>2. CASE ~FnFails(p, Reloaded(p))
    <3>1. PICK i \in DOMAIN Reloaded(p) :
            FnSaves(p, [Reloaded(p) EXCEPT ![i].token = proc[p].login.token])
      BY <1>6, <2>2 DEF SaveLoginTokens
    <3>2. /\ Reloaded(p)[i] \in Login
          /\ proc[p].login.token \in Token \cup {NoToken}
      <4>1. Reloaded(p)[i] \in Login
        BY <1>1
      <4>2. proc[p].login \in Login
        BY <1>1 DEF Proc
      <4> QED
        BY <4>1, <4>2 DEF Login
    <3> DEFINE l == [Reloaded(p)[i] EXCEPT !.token = proc[p].login.token]
    <3>3. l \in Login /\ l.name = Reloaded(p)[i].name
      BY <3>2 DEF Login
    <3> HIDE DEF l
    <3>4. [Reloaded(p) EXCEPT ![i] = l] \in Seq(Login)
      BY <1>1, <3>3, ReplaceKeeps
    <3> QED
      BY <3>1, <3>4, FnType DEF l
  <2> QED
    BY <2>1, <2>2
<1>7. CASE RefreshOAuthToken(p)
  <2>1. CASE FnFails(p, Reloaded(p))
    BY <1>1, <2>1, FnType
  <2>2. CASE ~FnFails(p, Reloaded(p))
    BY <1>1, <1>7, <2>2, LocalType DEF RefreshOAuthToken, Proc, Phase
  <2> QED
    BY <2>1, <2>2
<1>8. CASE StoreRefreshedToken(p)
  <2>1. proc[p].tok \in Token \cup {NoToken}
    BY <1>1 DEF Proc
  <2>2. /\ creds' \in [Name -> Token \cup {NoToken}]
        /\ proc' = [proc EXCEPT ![p] = [proc[p] EXCEPT !.pc = "unlock"]]
        /\ UNCHANGED <<file, holder, runs, faults>>
    BY <1>8, <2>1 DEF StoreRefreshedToken, TypeOK
  <2> QED
    BY <2>2, <1>0, StepType DEF TypeOK, Phase
<1>9. CASE Truncate(p)
  <2>1. /\ file' \in File
        /\ proc' = [proc EXCEPT ![p] = [proc[p] EXCEPT !.pc = "write"]]
        /\ UNCHANGED <<creds, holder, runs, faults>>
    BY <1>9 DEF Truncate, Emptied, File
  <2> QED
    BY <2>1, <1>0, StepType DEF TypeOK, Phase
<1>10. CASE Write(p)
  <2>1. proc[p].mem \in Seq(Login)
    BY <1>1 DEF Proc
  <2>2. /\ file' \in File
        /\ proc' = [proc EXCEPT ![p] = [proc[p] EXCEPT !.pc = "unlock"]]
        /\ UNCHANGED <<creds, holder, runs, faults>>
    BY <1>10, <2>1 DEF Write, Yaml, File
  <2> QED
    BY <2>2, <1>0, StepType DEF TypeOK, Phase
<1>11. CASE Unlock(p)
  <2>1. Resume(proc[p], proc[p].ok) \in Proc
    BY <1>1, ResumeType DEF Proc
  <2> QED
    BY <1>11, <2>1 DEF Unlock, TypeOK
<1> QED
  BY <1>2, <1>3, <1>4, <1>5, <1>6, <1>7, <1>8, <1>9, <1>10, <1>11, <1>12 DEF UnderLock

LEMMA LockStepType ==
    ASSUME TypeOK, NEW p \in Process,
           AcquireLock(p) \/ LockTimeout(p) \/ StoreNewToken(p)
    PROVE  TypeOK'
<1>1. CASE AcquireLock(p)
  <2>1. [proc[p] EXCEPT !.pc = "locked"] \in Proc
    BY MoveType DEF TypeOK, Phase
  <2>2. /\ holder' \in Process \cup {NoProcess}
        /\ proc' = [proc EXCEPT ![p] = [proc[p] EXCEPT !.pc = "locked"]]
        /\ UNCHANGED <<file, creds, runs, faults>>
    BY <1>1 DEF AcquireLock
  <2> QED
    BY <2>1, <2>2, StepType DEF TypeOK
<1>2. CASE LockTimeout(p)
  BY <1>2, LocalType, ResumeType DEF LockTimeout, TypeOK
<1>3. CASE StoreNewToken(p)
  BY <1>3, ExitedType DEF StoreNewToken, TypeOK, Proc
<1> QED
  BY <1>1, <1>2, <1>3

LEMMA RemoteType ==
    ASSUME TypeOK, NEW p \in Process, Remote(p)
    PROVE  TypeOK'
<1>1. proc[p] \in Proc /\ proc[p].mem \in Seq(Login) /\ proc[p].login \in Login
  BY DEF TypeOK, Proc
<1>2. CASE DoOAuthRefresh(p)
  <2>1. CASE FnFails(p, proc[p].mem)
    BY <1>1, <2>1, FnType
  <2>2. ASSUME NEW t \in Token, Local(p, [proc[p] EXCEPT !.pc = "cred", !.tok = t])
        PROVE  TypeOK'
    BY <1>1, <2>2, LocalType DEF Proc, Phase
  <2>3. ASSUME NEW t \in Token, NEW i \in DOMAIN proc[p].mem,
               FnSaves(p, [proc[p].mem EXCEPT ![i] = [proc[p].login EXCEPT !.token = t]])
        PROVE  TypeOK'
    <3>1. [proc[p].login EXCEPT !.token = t] \in Login
      BY <1>1 DEF Login
    <3>2. [proc[p].mem EXCEPT ![i] = [proc[p].login EXCEPT !.token = t]] \in Seq(Login)
      BY <1>1, <3>1
    <3> QED
      BY <2>3, <3>2, FnType
  <2> QED
    BY <1>2, <2>1, <2>2, <2>3 DEF DoOAuthRefresh
<1>3. CASE Reauthenticate(p)
  <2>1. CASE Local(p, Exited)
    BY <2>1, LocalType, ExitedType
  <2>2. CASE ~Local(p, Exited)
    BY <1>1, <1>3, <2>2, LocalType DEF Reauthenticate, Proc, Phase, Function, Login
  <2> QED
    BY <2>1, <2>2
<1> QED
  BY <1>2, <1>3 DEF Remote

LEMMA FaultyType ==
    ASSUME TypeOK, NEW p \in Process, Faulty(p)
    PROVE  TypeOK'
<1>1. ASSUME Fault PROVE faults' \in 0 .. MaxFaults
  BY <1>1, BoundsAssumption DEF Fault, TypeOK
<1>2. [proc[p] EXCEPT !.pc = "unlock", !.ok = FALSE] \in Proc
  BY MoveType DEF TypeOK, Phase
<1>3. CASE SaveFails(p)
  <2>1. /\ Fault
        /\ proc' = [proc EXCEPT ![p] = [proc[p] EXCEPT !.pc = "unlock", !.ok = FALSE]]
        /\ UNCHANGED <<creds, holder, runs>>
        /\ file' \in {file, Emptied, Broken}
    BY <1>3 DEF SaveFails
  <2>2. file' \in File
    BY <2>1, DamagedType DEF TypeOK
  <2> QED
    BY <1>1, <1>2, <2>1, <2>2, StepType DEF TypeOK
<1>4. CASE ReadFails(p) \/ StoreFails(p)
  <2>1. /\ Fault
        /\ \/ proc' = [proc EXCEPT ![p] = [proc[p] EXCEPT !.pc = "unlock", !.ok = FALSE]]
           \/ proc' = [proc EXCEPT ![p] = Exited]
        /\ UNCHANGED <<file, creds, holder, runs>>
    BY <1>4 DEF ReadFails, StoreFails
  <2> QED
    BY <1>1, <1>2, <2>1, ExitedType, StepType DEF TypeOK
<1>5. CASE Crash(p)
  BY <1>1, <1>5, ExitedType DEF Crash, TypeOK
<1> QED
  BY <1>3, <1>4, <1>5 DEF Faulty

\* Every variable keeps its type.
THEOREM StoreTypeCorrect == Spec => []TypeOK
<1>1. ASSUME Init PROVE TypeOK
  <2>1. file \in File
    <3>1. \A s \in InitialLogins : Yaml(s) \in File
      BY InitialLoginsAssumption DEF Yaml, File
    <3>2. [state |-> "absent", logins |-> <<>>] \in File
      BY DEF File
    <3> QED
      BY <1>1, <3>1, <3>2 DEF Init
  <2>2. creds \in [Name -> Token \cup {NoToken}]
    BY <1>1 DEF Init
  <2>3. proc \in [Process -> Proc]
    BY <1>1, ExitedType DEF Init
  <2>4. /\ holder \in Process \cup {NoProcess}
        /\ runs \in 0 .. MaxRuns
        /\ faults \in 0 .. MaxFaults
    BY <1>1, BoundsAssumption DEF Init
  <2> QED
    BY <2>1, <2>2, <2>3, <2>4 DEF TypeOK
<1>2. TypeOK /\ [Next]_vars => TypeOK'
  <2>1. ASSUME TypeOK, UNCHANGED vars PROVE TypeOK'
    BY <2>1 DEF TypeOK, vars
  <2> QED
    BY <2>1, StartType, SnapshotType, UnderLockType, LockStepType, RemoteType,
       FaultyType DEF Next, Proceed
<1> QED
  BY <1>1, <1>2, PTL DEF Spec

----------------------------------------------------------------------------
(* Unique names                                                            *)

\* A step keeps the names distinct if p's new state and the new file do.
LEMMA NamesStep ==
    ASSUME TypeOK, UniqueNames, NEW p \in Process, NEW s,
           proc' = [proc EXCEPT ![p] = s],
           DistinctNames(s.mem), DistinctNames(file'.logins)
    PROVE  UniqueNames'
<1>1. \A q \in Process : DistinctNames(proc'[q].mem)
  BY DEF TypeOK, UniqueNames
<1>2. UniqueNames' <=> /\ DistinctNames(file'.logins)
                       /\ \A q \in Process : DistinctNames(proc'[q].mem)
  BY DEF UniqueNames, DistinctNames
<1> QED
  BY <1>1, <1>2

LEMMA NamesLocal ==
    ASSUME TypeOK, UniqueNames, NEW p \in Process, NEW s,
           Local(p, s), DistinctNames(s.mem)
    PROVE  UniqueNames'
<1>1. proc' = [proc EXCEPT ![p] = s] /\ file' = file
  BY DEF Local
<1>2. DistinctNames(file'.logins)
  BY <1>1 DEF UniqueNames
<1> QED
  BY <1>1, <1>2, NamesStep

\* No login, no conflict.
LEMMA NoNames == DistinctNames(<<>>) /\ DistinctNames(Exited.mem)
BY DEF DistinctNames, Exited

LEMMA ResumeNames ==
    ASSUME NEW s \in Proc, NEW b \in BOOLEAN, DistinctNames(s.mem)
    PROVE  DistinctNames(Resume(s, b).mem)
BY NoNames DEF Resume, Proc

LEMMA ReloadedNames ==
    ASSUME UniqueNames, NEW p \in Process
    PROVE  DistinctNames(Reloaded(p))
BY DEF UniqueNames, Reloaded

LEMMA FnNames ==
    ASSUME TypeOK, UniqueNames, NEW p \in Process, NEW mem,
           DistinctNames(mem), FnFails(p, mem) \/ FnSaves(p, mem)
    PROVE  UniqueNames'
<1>1. PICK s : Local(p, s) /\ s.mem = mem
  <2>1. CASE FnFails(p, mem)
    <3>1. [proc[p] EXCEPT !.pc = "unlock", !.ok = FALSE, !.mem = mem].mem = mem
      BY DEF TypeOK, Proc
    <3> QED
      BY <2>1, <3>1 DEF FnFails
  <2>2. CASE FnSaves(p, mem)
    <3>1. [proc[p] EXCEPT !.pc = "save", !.mem = mem].mem = mem
      BY DEF TypeOK, Proc
    <3> QED
      BY <2>2, <3>1 DEF FnSaves
  <2> QED
    BY <2>1, <2>2
<1> QED
  BY <1>1, NamesLocal

LEMMA SnapshotNames ==
    ASSUME TypeOK, UniqueNames, NEW p \in Process, Snapshot(p)
    PROVE  UniqueNames'
<1>1. /\ proc[p] \in Proc
      /\ DistinctNames(proc[p].mem)
      /\ DistinctNames(file.logins)
  BY DEF TypeOK, UniqueNames
<1>2. \E s : Local(p, s) /\ s.mem \in {proc[p].mem, file.logins, Exited.mem}
  <2>1. CASE CreateLogin(p)
    <3>1. [proc[p] EXCEPT !.pc = "lock", !.mem = file.logins].mem = file.logins
      BY <1>1 DEF Proc
    <3> QED
      BY <2>1, <3>1 DEF CreateLogin
  <2>2. CASE RunLoginDelete(p)
    <3>1. \A a : [proc[p] EXCEPT !.pc = "lock", !.mem = file.logins,
                    !.arg = a].mem = file.logins
      BY <1>1 DEF Proc
    <3> QED
      BY <2>2, <3>1 DEF RunLoginDelete
  <2>3. CASE GetLoginByName(p)
    <3>1. \A l : [proc[p] EXCEPT !.pc = "token", !.mem = file.logins,
                    !.login = l].mem = file.logins
      BY <1>1 DEF Proc
    <3> QED
      BY <2>3, <3>1 DEF GetLoginByName
  <2>4. CASE NeedsRefresh(p)
    <3>1. [proc[p] EXCEPT !.pc = "lock", !.fn = "RefreshOAuthToken"].mem
            = proc[p].mem
      BY <1>1 DEF Proc
    <3> QED
      BY <2>4, <3>1 DEF NeedsRefresh
  <2>5. CASE NoRefresh(p)
    <3>1. [proc[p] EXCEPT !.pc = "lock", !.fn = "AddLogin"].mem = proc[p].mem
      BY <1>1 DEF Proc
    <3> QED
      BY <2>5, <3>1 DEF NoRefresh
  <2>6. CASE LoadFails(p)
    BY <2>6 DEF LoadFails
  <2> QED
    BY <2>1, <2>2, <2>3, <2>4, <2>5, <2>6 DEF Snapshot
<1> QED
  BY <1>1, <1>2, NoNames, NamesLocal

\* Each list edit keeps the names distinct (the lemmas above); the
\* duplicate check of AddLogin runs on the list that is then appended to.
LEMMA UnderLockNames ==
    ASSUME TypeOK, UniqueNames, NEW p \in Process, UnderLock(p)
    PROVE  UniqueNames'
<1> DEFINE mem == Reloaded(p)
<1>1. /\ proc[p] \in Proc
      /\ proc[p].login \in Login
      /\ mem \in Seq(Login)
      /\ DistinctNames(mem)
      /\ DistinctNames(proc[p].mem)
      /\ DistinctNames(file.logins)
  BY ReloadedType, ReloadedNames DEF TypeOK, UniqueNames, Proc
<1> HIDE DEF mem
<1>2. CASE AddLogin(p)
  <2>1. CASE NameTaken(mem, proc[p].login.name)
    BY <1>1, <1>2, <2>1, FnNames DEF AddLogin, mem
  <2>2. CASE ~NameTaken(mem, proc[p].login.name)
    <3>1. DistinctNames(Append(mem, proc[p].login))
      BY <1>1, <2>2, AppendKeeps
    <3>2. FnSaves(p, Append(mem, proc[p].login))
      BY <1>2, <2>2 DEF AddLogin, mem
    <3> QED
      BY <3>1, <3>2, FnNames
  <2> QED
    BY <2>1, <2>2
<1>3. CASE SetDefaultLogin(p)
  <2>1. DistinctNames(OnlyDefault(mem, proc[p].arg))
    BY <1>1, OnlyDefaultKeeps
  <2>2. \/ FnSaves(p, OnlyDefault(mem, proc[p].arg))
        \/ FnFails(p, OnlyDefault(mem, proc[p].arg))
    BY <1>3 DEF SetDefaultLogin, mem
  <2> QED
    BY <2>1, <2>2, FnNames
<1>4. CASE DeleteLogin(p)
  <2>1. CASE FnFails(p, mem)
    BY <1>1, <2>1, FnNames
  <2>2. CASE ~FnFails(p, mem)
    <3> DEFINE s(i) == [proc[p] EXCEPT
                !.pc = IF mem[i].kind = "oauth" THEN "uncred" ELSE "save",
                !.login = mem[i], !.mem = Without(mem, i)]
    <3>1. PICK i \in DOMAIN mem : Local(p, s(i))
      BY <1>4, <2>2 DEF DeleteLogin, mem
    <3>2. DistinctNames(Without(mem, i))
      BY <1>1, WithoutKeeps
    <3>3. s(i).mem = Without(mem, i)
      BY <1>1 DEF Proc
    <3> HIDE DEF s
    <3> QED
      BY <3>1, <3>2, <3>3, NamesLocal
  <2> QED
    BY <2>1, <2>2
<1>5. CASE SaveLoginTokens(p)
  <2>1. CASE FnFails(p, mem)
    BY <1>1, <2>1, FnNames
  <2>2. CASE ~FnFails(p, mem)
    <3> DEFINE l(i) == [mem[i] EXCEPT !.token = proc[p].login.token]
    <3>1. PICK i \in DOMAIN mem : FnSaves(p, [mem EXCEPT ![i] = l(i)])
      BY <1>5, <2>2 DEF SaveLoginTokens, mem
    <3>2. mem[i] \in Login
      BY <1>1
    <3>3. l(i) \in Login /\ l(i).name = mem[i].name
      BY <1>1, <3>2 DEF Login
    <3> HIDE DEF l
    <3>4. DistinctNames([mem EXCEPT ![i] = l(i)])
      BY <1>1, <3>3, ReplaceKeeps
    <3> QED
      BY <3>1, <3>4, FnNames
  <2> QED
    BY <2>1, <2>2
<1>6. CASE RefreshOAuthToken(p)
  <2>1. CASE FnFails(p, mem)
    BY <1>1, <2>1, FnNames
  <2>2. CASE ~FnFails(p, mem)
    <3> DEFINE s(ph) == [proc[p] EXCEPT !.mem = mem, !.pc = ph]
    <3>1. PICK ph : Local(p, s(ph))
      BY <1>6, <2>2 DEF RefreshOAuthToken, mem
    <3>2. s(ph).mem = mem
      BY <1>1 DEF Proc
    <3> HIDE DEF s
    <3> QED
      BY <1>1, <3>1, <3>2, NamesLocal
  <2> QED
    BY <2>1, <2>2
<1>7. \A ph : [proc[p] EXCEPT !.pc = ph].mem = proc[p].mem
  BY <1>1 DEF Proc
<1>8. CASE DeleteOAuthToken(p) \/ StoreRefreshedToken(p)
  <2>1. file' = file /\ \E ph : proc' = [proc EXCEPT ![p] = [proc[p] EXCEPT !.pc = ph]]
    BY <1>8 DEF DeleteOAuthToken, StoreRefreshedToken
  <2> QED
    BY <1>1, <1>7, <2>1, NamesStep
<1>9. CASE Truncate(p)
  <2>1. /\ file'.logins = <<>>
        /\ proc' = [proc EXCEPT ![p] = [proc[p] EXCEPT !.pc = "write"]]
    BY <1>9 DEF Truncate, Emptied
  <2> QED
    BY <1>1, <1>7, <2>1, NoNames, NamesStep
<1>10. CASE Write(p)
  <2>1. /\ file'.logins = proc[p].mem
        /\ proc' = [proc EXCEPT ![p] = [proc[p] EXCEPT !.pc = "unlock"]]
    BY <1>10 DEF Write, Yaml
  <2> QED
    BY <1>1, <1>7, <2>1, NamesStep
<1>11. CASE Unlock(p)
  <2>1. DistinctNames(Resume(proc[p], proc[p].ok).mem)
    BY <1>1, ResumeNames DEF Proc
  <2>2. file' = file /\ proc' = [proc EXCEPT ![p] = Resume(proc[p], proc[p].ok)]
    BY <1>11 DEF Unlock
  <2> QED
    BY <1>1, <2>1, <2>2, NamesStep
<1>12. CASE ReloadFails(p)
  BY <1>1, <1>12, FnNames DEF ReloadFails
<1> QED
  BY <1>2, <1>3, <1>4, <1>5, <1>6, <1>8, <1>9, <1>10, <1>11, <1>12 DEF UnderLock

\* The other steps leave the file alone and p's list as it is, or drop it.
LEMMA OtherNames ==
    ASSUME TypeOK, UniqueNames, NEW p \in Process,
           \/ Start(p) \/ AcquireLock(p) \/ LockTimeout(p) \/ StoreNewToken(p)
           \/ Reauthenticate(p) \/ Faulty(p)
    PROVE  UniqueNames'
<1>1. proc[p] \in Proc /\ DistinctNames(proc[p].mem) /\ DistinctNames(file.logins)
  BY DEF TypeOK, UniqueNames
<1>2. DistinctNames(file'.logins)
  <2>1. file' \in {file, Emptied, Broken}
    BY DEF Start, AcquireLock, LockTimeout, StoreNewToken, Reauthenticate, Local,
           Faulty, SaveFails, ReadFails, StoreFails, Crash
  <2> QED
    BY <1>1, <2>1, DamagedType, NoNames
<1>3. \E s : proc' = [proc EXCEPT ![p] = s] /\ DistinctNames(s.mem)
  <2>1. CASE Start(p)
    BY <2>1, StartState, NoNames
  <2>2. CASE LockTimeout(p)
    BY <1>1, <2>2, ResumeNames DEF LockTimeout, Local
  <2>3. CASE AcquireLock(p) \/ SaveFails(p)
    <3>1. /\ [proc[p] EXCEPT !.pc = "locked"].mem = proc[p].mem
          /\ [proc[p] EXCEPT !.pc = "unlock", !.ok = FALSE].mem = proc[p].mem
      BY <1>1 DEF Proc
    <3>2. \/ proc' = [proc EXCEPT ![p] = [proc[p] EXCEPT !.pc = "locked"]]
          \/ proc' = [proc EXCEPT ![p] = [proc[p] EXCEPT !.pc = "unlock", !.ok = FALSE]]
      BY <2>3 DEF AcquireLock, SaveFails
    <3> QED
      BY <1>1, <3>1, <3>2
  <2>4. CASE ReadFails(p) \/ StoreFails(p)
    <3>1. [proc[p] EXCEPT !.pc = "unlock", !.ok = FALSE].mem = proc[p].mem
      BY <1>1 DEF Proc
    <3>2. \/ proc' = [proc EXCEPT ![p] = [proc[p] EXCEPT !.pc = "unlock", !.ok = FALSE]]
          \/ proc' = [proc EXCEPT ![p] = Exited]
      BY <2>4 DEF ReadFails, StoreFails
    <3> QED
      BY <1>1, <3>1, <3>2, NoNames
  <2>5. CASE StoreNewToken(p) \/ Crash(p)
    BY <2>5, NoNames DEF StoreNewToken, Crash
  <2>6. CASE Reauthenticate(p)
    <3>1. PICK s : Local(p, s) /\ s.mem \in {Exited.mem, proc[p].mem}
      <4>1. \A t, l : /\ [proc[p] EXCEPT !.pc = "post", !.tok = t].mem = proc[p].mem
                      /\ [proc[p] EXCEPT !.pc = "lock", !.fn = "SaveLoginTokens",
                            !.login = l].mem = proc[p].mem
        BY <1>1 DEF Proc
      <4> QED
        BY <2>6, <4>1 DEF Reauthenticate
    <3> QED
      BY <1>1, <3>1, NoNames DEF Local
  <2> QED
    BY <2>1, <2>2, <2>3, <2>4, <2>5, <2>6 DEF Faulty
<1> QED
  BY <1>1, <1>2, <1>3, NamesStep

LEMMA RefreshNames ==
    ASSUME TypeOK, UniqueNames, NEW p \in Process, DoOAuthRefresh(p)
    PROVE  UniqueNames'
<1> DEFINE mem == proc[p].mem
           l(t) == [proc[p].login EXCEPT !.token = t]
<1>1. /\ proc[p] \in Proc /\ DistinctNames(mem)
      /\ mem \in Seq(Login) /\ proc[p].login \in Login
  BY DEF TypeOK, UniqueNames, Proc
<1>2. CASE FnFails(p, mem)
  BY <1>1, <1>2, FnNames
<1>3. ASSUME NEW t \in Token, Local(p, [proc[p] EXCEPT !.pc = "cred", !.tok = t])
      PROVE  UniqueNames'
  <2>1. [proc[p] EXCEPT !.pc = "cred", !.tok = t].mem = mem
    BY <1>1 DEF Proc
  <2> QED
    BY <1>1, <1>3, <2>1, NamesLocal
<1>4. ASSUME NEW t \in Token, NEW i \in DOMAIN mem, mem[i].name = proc[p].login.name,
             FnSaves(p, [mem EXCEPT ![i] = l(t)])
      PROVE  UniqueNames'
  <2>1. l(t) \in Login /\ l(t).name = mem[i].name
    BY <1>1, <1>4 DEF Login
  <2> HIDE DEF l
  <2>2. DistinctNames([mem EXCEPT ![i] = l(t)])
    BY <1>1, <2>1, ReplaceKeeps
  <2> QED
    BY <1>4, <2>2, FnNames
<1> QED
  BY <1>2, <1>3, <1>4 DEF DoOAuthRefresh, IsFirstExact

\* No two stored logins ever go by the same name, in the file or in the
\* memory of a process, for any number of processes, names and commands.
THEOREM NamesAreUnique == Spec => []UniqueNames
<1>1. ASSUME Init PROVE UniqueNames
  <2>1. DistinctNames(file.logins)
    BY <1>1, InitialLoginsAssumption, NoNames DEF Init, Yaml
  <2>2. \A p \in Process : DistinctNames(proc[p].mem)
    BY <1>1, NoNames DEF Init
  <2> QED
    BY <2>1, <2>2 DEF UniqueNames
<1>2. ASSUME TypeOK, UniqueNames, [Next]_vars PROVE UniqueNames'
  <2>1. CASE UNCHANGED vars
    BY <1>2, <2>1 DEF UniqueNames, DistinctNames, vars
  <2>2. CASE Next
    BY <1>2, <2>2, SnapshotNames, UnderLockNames, OtherNames, RefreshNames
       DEF Next, Proceed, Remote
  <2> QED
    BY <1>2, <2>1, <2>2
<1> QED
  BY <1>1, <1>2, StoreTypeCorrect, PTL DEF Spec
----------------------------------------------------------------------------
(* The lock and the file                                                   *)

\* The lock is held by whoever runs a function under it.
Mutex == \A p \in Process : holder = p <=> proc[p].pc \in Locked

\* What the state of a process says of the command it runs.
Role(s) ==
    /\ s.pc = "uncred" => s.fn = "DeleteLogin"
    /\ s.pc \in {"net", "cred"} => s.fn = "RefreshOAuthToken"
    /\ s.pc = "token" \/ (s.pc = "load" /\ s.cmd \in {"client", "manual"}) =>
            s.cmd \in {"oauth", "client", "manual"} /\ s.fn = "RefreshOAuthToken"
    /\ s.pc = "browser" => s.cmd = "manual"
    /\ s.fn = "AddLogin" => s.cmd \in {"add", "oauth"}
    /\ s.fn = "DeleteLogin" <=> s.cmd = "delete"
    /\ s.cmd \in {"add", "oauth"} => ~s.login.default
    /\ s.cmd = "add" => s.fn = "AddLogin" /\ s.login.kind = "plain"
    /\ s.cmd = "oauth" => s.login.kind = "oauth"
    /\ s.cmd = "oauth" \/ s.pc \in {"cred", "post"} => s.tok \in Token
    /\ ~s.ok => s.pc = "unlock" \/ s.cmd = "manual"

\* The list in memory shows the effect of the function that has edited it.
Edited(s) ==
    /\ s.fn = "AddLogin" => \E i \in DOMAIN s.mem : s.mem[i] = s.login
    /\ s.fn = "DeleteLogin" => ~NameTaken(s.mem, s.arg)
    /\ s.fn = "SetDefaultLogin" =>
        \A i \in DOMAIN s.mem : s.mem[i].default <=> EqualFold(s.mem[i].name, s.arg)

\* The copy of a legacy login that the refresh in state s writes back.
Copy(s) ==
    IF s.fn = "RefreshOAuthToken" /\ s.login.kind = "legacy" THEN {s.login} ELSE {}

\* One of the changes of LoginRegistry, with the copies that are held.
Changes(s, t, copies) ==
    \/ \E l \in Login : ~NameTaken(s, l.name) /\ t = Append(s, l)
    \/ \E i \in DOMAIN s : t = Without(s, i)
    \/ \E i \in DOMAIN s : t = OnlyDefault(s, s[i].name)
    \/ \E i \in DOMAIN s, u \in Token \cup {NoToken} : t = [s EXCEPT ![i].token = u]
    \/ \E i \in DOMAIN s, l \in copies, u \in Token :
        l.name = s[i].name /\ t = [s EXCEPT ![i] = [l EXCEPT !.token = u]]

\* What a process in state s under the lock does to the list it does to that
\* of the file f, unless f is empty; a command that has succeeded has written
\* its list.
FromFile(s, f) ==
    /\ s.pc \in {"net", "cred"} =>
        /\ f.state = "empty" \/ s.mem = f.logins
        /\ \E i \in DOMAIN s.mem : s.mem[i].name = s.login.name
    /\ s.pc \in {"uncred", "save"} => f.state = "empty" \/ Changes(f.logins, s.mem, Copy(s))
    /\ s.pc \in {"uncred", "save", "write"} => Edited(s)
    /\ s.pc = "write" => f = Emptied
    /\ s.pc = "unlock" /\ s.ok /\ s.fn # "RefreshOAuthToken" => Edited(s) /\ f = Yaml(s.mem)

\* The inductive invariant.
StoreInv ==
    /\ Mutex
    /\ TruncatedOnlyByWriter
    /\ \A p \in Process : Role(proc[p]) /\ FromFile(proc[p], file)

\* The lock changes hands only between p and nobody, together with p's pc.
LockMoves(p, s) ==
    \/ holder' = holder /\ (proc[p].pc \in Locked <=> s.pc \in Locked)
    \/ holder = NoProcess /\ holder' = p /\ s.pc \in Locked
    \/ holder = p /\ holder' = NoProcess /\ s.pc \notin Locked

\* A file is damaged under p's hands or by a fault, and stays so only as long as
\* p has not been writing it.
StaysWhole(p, s) ==
    /\ faults' = faults \/ (faults \in Nat /\ faults' = faults + 1)
    /\ Damaged(file') =>
        \/ Damaged(file) /\ ~At(p, "write")
        \/ s.pc = "write"
        \/ faults' # faults

\* A step of p keeps the invariant if p's new state has its part, and nobody
\* changes the file without the lock.
LEMMA StepKeepsInv ==
    ASSUME TypeOK, StoreInv, NEW p \in Process, NEW s,
           proc' = [proc EXCEPT ![p] = s],
           Role(s), FromFile(s, file'), LockMoves(p, s), StaysWhole(p, s),
           file' = file \/ proc[p].pc \in Locked
    PROVE  StoreInv'
<1>1. proc'[p] = s /\ \A q \in Process \ {p} : proc'[q] = proc[q]
  BY DEF TypeOK
<1>2. \A q \in Process : holder' = q <=> proc'[q].pc \in Locked
  BY <1>1, ProcessAssumption DEF StoreInv, Mutex, LockMoves
<1>3. ASSUME NEW q \in Process \ {p}
      PROVE  Role(proc'[q]) /\ FromFile(proc'[q], file')
  <2>1. Role(proc[q]) /\ FromFile(proc[q], file) /\ proc'[q] = proc[q]
    BY <1>1 DEF StoreInv
  <2>2. proc[p].pc \in Locked => proc[q].pc \notin Locked
    BY DEF StoreInv, Mutex
  <2>3. proc[q].pc \notin Locked => FromFile(proc[q], file')
    BY DEF FromFile, Locked
  <2> QED
    BY <2>1, <2>2, <2>3
<1>4. ASSUME Damaged(file')
      PROVE  faults' > 0 \/ \E q \in Process : holder' = q /\ proc'[q].pc = "write"
  <2>1. faults \in Nat /\ (faults' # faults => faults' > 0)
    BY BoundsAssumption DEF TypeOK, StaysWhole
  <2>2. CASE s.pc = "write"
    BY <1>1, <1>2, <2>2 DEF Locked
  <2>3. CASE Damaged(file) /\ ~At(p, "write")
    <3>1. faults > 0 \/ \E q \in Process : holder = q /\ At(q, "write")
      BY <2>3 DEF StoreInv, TruncatedOnlyByWriter
    <3>2. ASSUME NEW q \in Process, holder = q, At(q, "write")
          PROVE  holder' = q /\ proc'[q].pc = "write"
      <4>1. q # p /\ proc'[q] = proc[q]
        BY <1>1, <2>3, <3>2
      <4> QED
        BY <1>2, <3>2, <4>1 DEF At, Locked
    <3> QED
      BY <2>1, <3>1, <3>2 DEF StaysWhole
  <2> QED
    BY <1>4, <2>1, <2>2, <2>3 DEF StaysWhole
<1>5. Mutex' /\ TruncatedOnlyByWriter'
  BY <1>2, <1>4 DEF Mutex, TruncatedOnlyByWriter, At, Damaged
<1>6. \A q \in Process : Role(proc'[q]) /\ FromFile(proc'[q], file')
  BY <1>1, <1>3
<1> QED
  BY <1>5, <1>6 DEF StoreInv, Role, FromFile, Edited, Changes, Copy
LEMMA ExitedRole ==
    /\ Role(Exited) /\ \A f : FromFile(Exited, f)
    /\ Exited.pc \notin Locked /\ Exited.mem = <<>>
BY DEF Exited, SomeLogin, Role, FromFile, Locked

\* A process without the lock stands in no relation to the file.
LEMMA OutsideFromFile ==
    ASSUME NEW s, s.pc \notin Locked
    PROVE  \A f : FromFile(s, f)
BY DEF FromFile, Locked

\* What the caller of withConfigLock goes on with is not under the lock.
LEMMA ResumeRole ==
    ASSUME NEW s \in Proc, Role(s), NEW b \in BOOLEAN, b => s.ok
    PROVE  /\ Role(Resume(s, b)) /\ Resume(s, b).pc \notin Locked
           /\ Resume(s, b).mem \in {<<>>, s.mem}
BY ExitedRole DEF Resume, Role, Proc, Locked

\* A command starts with what its line says.
LEMMA StartsWith ==
    ASSUME TypeOK, NEW p \in Process, Start(p)
    PROVE  \E s : /\ proc' = [proc EXCEPT ![p] = s]
                  /\ Role(s) /\ s.pc \notin Locked /\ s.mem = <<>>
                  /\ s.pc \in {"load", "lock"} \/ s.cmd = "oauth"
                  /\ s.pc = "lock" => s.fn = "SetDefaultLogin"
<1> DEFINE add(c, n, t) ==
             [Exited EXCEPT !.pc = "load", !.cmd = c, !.fn = "AddLogin",
                !.login = [name |-> n, kind |-> "plain",
                           default |-> FALSE, token |-> t]]
           oauth(c, n, t) ==
             [Exited EXCEPT !.pc = "token", !.cmd = c, !.tok = t,
                !.login = [name |-> n, kind |-> "oauth",
                           default |-> FALSE, token |-> NoToken]]
           delete(c, a) ==
             [Exited EXCEPT !.pc = "load", !.cmd = c, !.fn = "DeleteLogin",
                !.arg = a]
           setDefault(c, n) ==
             [Exited EXCEPT !.pc = "lock", !.cmd = c,
                !.fn = "SetDefaultLogin", !.arg = n]
           client(c, n) == [Exited EXCEPT !.pc = "load", !.cmd = c, !.arg = n]
           Fits(s) == /\ Role(s) /\ s.pc \notin Locked /\ s.mem = <<>>
                      /\ s.pc \in {"load", "lock"} \/ s.cmd = "oauth"
                      /\ s.pc = "lock" => s.fn = "SetDefaultLogin"
<1>1. \A n, t : Fits(add("add", n, t))
  BY DEF Exited, Role, Locked
<1>2. \A n, t : t \in Token => Fits(oauth("oauth", n, t))
  BY DEF Exited, Role, Locked
<1>3. \A n : Fits(delete("delete", n)) /\ Fits(setDefault("default", n))
  BY DEF Exited, Role, Locked
<1>4. \A n : Fits(client("client", n)) /\ Fits(client("manual", n))
  BY DEF Exited, Role, Locked
<1>5. \E n \in Name :
        \/ \E t \in Token \cup {NoToken} : proc' = [proc EXCEPT ![p] = add("add", n, t)]
        \/ \E t \in Token : proc' = [proc EXCEPT ![p] = oauth("oauth", n, t)]
        \/ \E a \in {n, NoName} : proc' = [proc EXCEPT ![p] = delete("delete", a)]
        \/ proc' = [proc EXCEPT ![p] = setDefault("default", n)]
        \/ proc' = [proc EXCEPT ![p] = client("client", n)]
        \/ proc' = [proc EXCEPT ![p] = client("manual", n)]
  BY DEF Start
<1> HIDE DEF add, oauth, delete, setDefault, client, Fits
<1>6. \E s : proc' = [proc EXCEPT ![p] = s] /\ Fits(s)
  BY <1>1, <1>2, <1>3, <1>4, <1>5
<1> QED
  BY <1>6 DEF Fits

LEMMA StartRole ==
    ASSUME TypeOK, NEW p \in Process, Start(p)
    PROVE  \E s : /\ proc' = [proc EXCEPT ![p] = s]
                  /\ Role(s) /\ s.pc \notin Locked /\ s.mem = <<>>
BY StartsWith

\* The decisions taken on the snapshot are taken without the lock.
LEMMA SnapshotRole ==
    ASSUME TypeOK, NEW p \in Process, Role(proc[p]), Snapshot(p)
    PROVE  \E s : /\ Local(p, s) /\ proc[p].pc \notin Locked
                  /\ Role(s) /\ s.pc \notin Locked
                  /\ s.mem \in {<<>>, proc[p].mem, file.logins}
<1>1. proc[p] \in Proc
  BY DEF TypeOK
<1>2. CASE CreateLogin(p)
  <2> DEFINE s == [proc[p] EXCEPT !.pc = "lock", !.mem = file.logins]
  <2>1. (Local(p, s) \/ Local(p, Exited)) /\ At(p, "load")
    BY <1>2 DEF CreateLogin, Loads
  <2>2. Role(s) /\ s.pc \notin Locked /\ s.mem = file.logins
    BY <1>1, <2>1 DEF Role, Locked, Proc, At
  <2> QED
    BY <2>1, <2>2, ExitedRole DEF At, Locked
<1>3. CASE RunLoginDelete(p)
  <2> DEFINE s(a) == [proc[p] EXCEPT !.pc = "lock", !.mem = file.logins, !.arg = a]
  <2>1. ((\E a : Local(p, s(a))) \/ Local(p, Exited)) /\ At(p, "load")
    BY <1>3 DEF RunLoginDelete, Loads
  <2>2. \A a : Role(s(a)) /\ s(a).pc \notin Locked /\ s(a).mem = file.logins
    BY <1>1, <2>1 DEF Role, Locked, Proc, At
  <2> HIDE DEF s
  <2> QED
    BY <2>1, <2>2, ExitedRole DEF At, Locked
<1>4. CASE GetLoginByName(p)
  <2> DEFINE s(l) == [proc[p] EXCEPT !.pc = "token", !.mem = file.logins, !.login = l]
  <2>1. /\ (\E l : Local(p, s(l))) \/ Local(p, Exited)
        /\ At(p, "load") /\ proc[p].cmd \in {"client", "manual"}
    BY <1>4 DEF GetLoginByName, Loads
  <2>2. \A l : Role(s(l)) /\ s(l).pc \notin Locked /\ s(l).mem = file.logins
    BY <1>1, <2>1 DEF Role, Locked, Proc, At
  <2> HIDE DEF s
  <2> QED
    BY <2>1, <2>2, ExitedRole DEF At, Locked
<1>5. CASE NeedsRefresh(p)
  <2> DEFINE s == [proc[p] EXCEPT !.pc = "lock", !.fn = "RefreshOAuthToken"]
  <2>1. Local(p, s) /\ At(p, "token")
    BY <1>5 DEF NeedsRefresh
  <2>2. Role(s) /\ s.pc \notin Locked /\ s.mem = proc[p].mem
    BY <1>1, <2>1 DEF Role, Locked, Proc, At
  <2> QED
    BY <2>1, <2>2 DEF At, Locked
<1>6. CASE NoRefresh(p)
  <2> DEFINE s == [proc[p] EXCEPT !.pc = "lock", !.fn = "AddLogin"]
  <2>1. /\ At(p, "token")
        /\ (proc[p].cmd = "oauth" /\ Local(p, s)) \/ Local(p, Exited)
    BY <1>6 DEF NoRefresh
  <2>2. proc[p].cmd = "oauth" => Role(s) /\ s.pc \notin Locked /\ s.mem = proc[p].mem
    BY <1>1, <2>1 DEF Role, Locked, Proc, At
  <2> QED
    BY <2>1, <2>2, ExitedRole DEF At, Locked
<1>7. CASE LoadFails(p)
  BY <1>7, ExitedRole DEF LoadFails, At, Locked
<1> QED
  BY <1>2, <1>3, <1>4, <1>5, <1>6, <1>7 DEF Snapshot

\* The same of the other steps outside the lock.
LEMMA OutsideRole ==
    ASSUME TypeOK, NEW p \in Process, Role(proc[p]),
           LockTimeout(p) \/ Reauthenticate(p) \/ StoreNewToken(p)
    PROVE  \E s : /\ proc' = [proc EXCEPT ![p] = s] /\ proc[p].pc \notin Locked
                  /\ UNCHANGED <<file, holder, runs, faults>>
                  /\ Role(s) /\ s.pc \notin Locked
                  /\ s.mem \in {<<>>, proc[p].mem}
<1>1. proc[p] \in Proc
  BY DEF TypeOK
<1>2. CASE LockTimeout(p)
  BY <1>1, <1>2, ResumeRole DEF LockTimeout, Local, At, Locked
<1>3. CASE Reauthenticate(p)
  <2> DEFINE a(t) == [proc[p] EXCEPT !.pc = "post", !.tok = t]
             b(t) == [proc[p] EXCEPT !.pc = "lock", !.fn = "SaveLoginTokens", !.login.token = t]
  <2>1. /\ At(p, "browser")
        /\ Local(p, Exited) \/ \E t \in Token : Local(p, a(t)) \/ Local(p, b(t))
    BY <1>3 DEF Reauthenticate
  <2>2. proc[p].cmd = "manual"
    BY <2>1 DEF Role, At
  <2>3. ASSUME NEW t \in Token
        PROVE  /\ Role(a(t)) /\ a(t).pc \notin Locked /\ a(t).mem = proc[p].mem
               /\ Role(b(t)) /\ b(t).pc \notin Locked /\ b(t).mem = proc[p].mem
    BY <1>1, <2>2 DEF Role, Locked, Proc
  <2> HIDE DEF a, b
  <2> QED
    BY <2>1, <2>3, ExitedRole DEF At, Locked, Local
<1>4. CASE StoreNewToken(p)
  BY <1>4, ExitedRole DEF StoreNewToken, At, Locked
<1> QED
  BY <1>2, <1>3, <1>4

LEMMA OutsideKeepsInv ==
    ASSUME TypeOK, StoreInv, NEW p \in Process,
           \/ Start(p) \/ Snapshot(p)
           \/ LockTimeout(p) \/ Reauthenticate(p) \/ StoreNewToken(p)
    PROVE  StoreInv'
<1>1. Role(proc[p])
  BY DEF StoreInv
<1>2. PICK s : /\ proc' = [proc EXCEPT ![p] = s] /\ Role(s)
               /\ proc[p].pc \notin Locked /\ s.pc \notin Locked
               /\ UNCHANGED <<file, holder, faults>>
  BY <1>1, StartRole, SnapshotRole, OutsideRole DEF Start, Local, At, Locked
<1>3. FromFile(s, file') /\ LockMoves(p, s) /\ StaysWhole(p, s)
  BY <1>2, OutsideFromFile DEF LockMoves, StaysWhole, At, Locked
<1> QED
  BY <1>2, <1>3, StepKeepsInv

\* The lock is taken, or given up with the function's result or by a crash.
LEMMA LockKeepsInv ==
    ASSUME TypeOK, StoreInv, NEW p \in Process, AcquireLock(p) \/ Unlock(p) \/ Crash(p)
    PROVE  StoreInv'
<1>1. /\ proc[p] \in Proc /\ Role(proc[p]) /\ FromFile(proc[p], file)
      /\ holder = p <=> proc[p].pc \in Locked
  BY DEF StoreInv, Mutex, TypeOK
<1>2. CASE AcquireLock(p)
  <2> DEFINE s == [proc[p] EXCEPT !.pc = "locked"]
  <2>1. Role(s) /\ FromFile(s, file) /\ s.pc = "locked"
    BY <1>1, <1>2 DEF AcquireLock, At, Role, FromFile, Proc
  <2>2. /\ proc' = [proc EXCEPT ![p] = s] /\ holder = NoProcess /\ holder' = p
        /\ UNCHANGED <<file, faults>> /\ ~At(p, "write")
    BY <1>2 DEF AcquireLock, At
  <2> HIDE DEF s
  <2>3. LockMoves(p, s) /\ StaysWhole(p, s)
    BY <2>1, <2>2 DEF LockMoves, StaysWhole, Locked
  <2> QED
    BY <2>1, <2>2, <2>3, StepKeepsInv
<1>3. CASE Unlock(p)
  <2> DEFINE s == Resume(proc[p], proc[p].ok)
  <2>1. Role(s) /\ s.pc \notin Locked
    BY <1>1, ResumeRole DEF Proc
  <2>2. /\ proc' = [proc EXCEPT ![p] = s] /\ holder = p /\ holder' = NoProcess
        /\ UNCHANGED <<file, faults>> /\ ~At(p, "write")
    BY <1>1, <1>3 DEF Unlock, At, Locked
  <2> HIDE DEF s
  <2>3. LockMoves(p, s) /\ StaysWhole(p, s)
    BY <2>1, <2>2 DEF LockMoves, StaysWhole
  <2> QED
    BY <2>1, <2>2, <2>3, OutsideFromFile, StepKeepsInv
<1>4. CASE Crash(p)
  <2>1. /\ proc' = [proc EXCEPT ![p] = Exited] /\ UNCHANGED file
        /\ faults \in Nat /\ faults' = faults + 1
    BY <1>4, BoundsAssumption DEF Crash, Fault, TypeOK
  <2>2. LockMoves(p, Exited)
    BY <1>1, <1>4, ExitedRole DEF Crash, LockMoves
  <2>3. StaysWhole(p, Exited)
    BY <2>1 DEF StaysWhole
  <2> QED
    BY <2>1, <2>2, <2>3, ExitedRole, StepKeepsInv
<1> QED
  BY <1>2, <1>3, <1>4
\* A step under the lock that leaves the file alone.
LEMMA InsideKeepsInv ==
    ASSUME TypeOK, StoreInv, NEW p \in Process, NEW s,
           proc' = [proc EXCEPT ![p] = s], UNCHANGED <<file, holder, faults>>,
           proc[p].pc \in Locked \ {"write"}, s.pc \in Locked,
           Role(s), FromFile(s, file)
    PROVE  StoreInv'
<1>1. LockMoves(p, s) /\ StaysWhole(p, s)
  BY DEF LockMoves, StaysWhole, At
<1> QED
  BY <1>1, StepKeepsInv

\* Setting the default by any spelling of a name is setting it by the one of
\* the list.
LEMMA DefaultBySpelling ==
    ASSUME NEW s \in Seq(Login), NEW n, NameTaken(s, n)
    PROVE  \E i \in DOMAIN s : OnlyDefault(s, n) = OnlyDefault(s, s[i].name)
<1>1. PICK i \in DOMAIN s : EqualFold(s[i].name, n)
  BY DEF NameTaken, Matches
<1>2. \A j \in DOMAIN s : EqualFold(s[j].name, n) = EqualFold(s[j].name, s[i].name)
  BY <1>1 DEF EqualFold
<1>3. OnlyDefault(s, n) = OnlyDefault(s, s[i].name)
  BY <1>2 DEF OnlyDefault
<1> QED
  BY <1>3

\* What a function of login.go gives up, or gives to saveConfigUnsafe.
LEMMA FnState ==
    ASSUME TypeOK, NEW p \in Process, Role(proc[p]), At(p, "locked") \/ At(p, "net"),
           NEW mem
    PROVE  /\ FnFails(p, mem) =>
                \E s : /\ Local(p, s) /\ Role(s) /\ s.pc = "unlock" /\ FromFile(s, file)
                       /\ s.mem = mem
           /\ FnSaves(p, mem) =>
                \E s : /\ Local(p, s) /\ Role(s) /\ s.pc = "save" /\ s.mem = mem
                       /\ s.fn = proc[p].fn /\ s.arg = proc[p].arg /\ s.login = proc[p].login
<1>1. proc[p] \in Proc
  BY DEF TypeOK
<1>2. ASSUME FnFails(p, mem)
      PROVE  \E s : /\ Local(p, s) /\ Role(s) /\ s.pc = "unlock" /\ FromFile(s, file)
                    /\ s.mem = mem
  <2> DEFINE s == [proc[p] EXCEPT !.pc = "unlock", !.ok = FALSE, !.mem = mem]
  <2>1. Role(s) /\ s.pc = "unlock" /\ FromFile(s, file) /\ s.mem = mem
    BY <1>1 DEF Role, FromFile, Proc, At
  <2> QED
    BY <1>2, <2>1 DEF FnFails
<1>3. ASSUME FnSaves(p, mem)
      PROVE  \E s : /\ Local(p, s) /\ Role(s) /\ s.pc = "save" /\ s.mem = mem
                    /\ s.fn = proc[p].fn /\ s.arg = proc[p].arg /\ s.login = proc[p].login
  <2> DEFINE s == [proc[p] EXCEPT !.pc = "save", !.mem = mem]
  <2>1. /\ Role(s) /\ s.pc = "save" /\ s.mem = mem
        /\ s.fn = proc[p].fn /\ s.arg = proc[p].arg /\ s.login = proc[p].login
    BY <1>1 DEF Role, Proc, At
  <2> QED
    BY <1>3, <2>1 DEF FnSaves
<1> QED
  BY <1>2, <1>3

LEMMA FnKeepsInv ==
    ASSUME TypeOK, StoreInv, NEW p \in Process, At(p, "locked") \/ At(p, "net"), NEW mem,
           \/ FnFails(p, mem)
           \/ /\ FnSaves(p, mem)
              /\ file.state = "empty" \/ Changes(file.logins, mem, Copy(proc[p]))
              /\ proc[p].fn = "AddLogin" => \E i \in DOMAIN mem : mem[i] = proc[p].login
              /\ proc[p].fn = "SetDefaultLogin" =>
                    \A i \in DOMAIN mem : mem[i].default <=> EqualFold(mem[i].name, proc[p].arg)
              /\ proc[p].fn # "DeleteLogin"
    PROVE  StoreInv'
<1>1. Role(proc[p]) /\ proc[p].pc \in Locked \ {"write"}
  BY DEF StoreInv, At, Locked
<1>2. \E s : Local(p, s) /\ Role(s) /\ s.pc \in {"unlock", "save"} /\ FromFile(s, file)
  <2>1. CASE FnFails(p, mem)
    BY <1>1, <2>1, FnState
  <2>2. CASE ~FnFails(p, mem)
    <3>1. PICK s : /\ Local(p, s) /\ Role(s) /\ s.pc = "save" /\ s.mem = mem
                   /\ s.fn = proc[p].fn /\ s.arg = proc[p].arg
                   /\ s.login = proc[p].login
      BY <1>1, <2>2, FnState
    <3>2. Copy(s) = Copy(proc[p])
      BY <3>1 DEF Copy
    <3>3. file.state = "empty" \/ Changes(file.logins, s.mem, Copy(s))
      BY <2>2, <3>1, <3>2
    <3>4. Edited(s)
      BY <2>2, <3>1 DEF Edited
    <3> QED
      BY <3>1, <3>3, <3>4 DEF FromFile
  <2> QED
    BY <2>1, <2>2
<1> QED
  BY <1>1, <1>2, InsideKeepsInv DEF Local, Locked

\* Each function edits the list it has reloaded, and that is the list of the
\* file unless there is none.
LEMMA UnderLockKeepsInv ==
    ASSUME TypeOK, StoreInv, UniqueNames, NEW p \in Process, UnderLock(p) \/ DoOAuthRefresh(p)
    PROVE  StoreInv'
<1> DEFINE mem == Reloaded(p)
<1>1. /\ proc[p] \in Proc /\ proc[p].login \in Login /\ proc[p].mem \in Seq(Login)
      /\ Role(proc[p]) /\ FromFile(proc[p], file)
      /\ holder = p <=> proc[p].pc \in Locked
  BY DEF StoreInv, Mutex, TypeOK, Proc
<1>2. /\ mem \in Seq(Login) /\ DistinctNames(mem)
      /\ file.state = "empty" \/ mem = file.logins
  BY ReloadedType, ReloadedNames DEF Reloaded
<1> HIDE DEF mem
<1>3. CASE AddLogin(p)
  <2>1. At(p, "locked") /\ proc[p].fn = "AddLogin"
    BY <1>3 DEF AddLogin, Runs
  <2>2. CASE NameTaken(mem, proc[p].login.name)
    BY <1>3, <2>1, <2>2, FnKeepsInv DEF AddLogin, mem
  <2>3. CASE ~NameTaken(mem, proc[p].login.name)
    <3>1. FnSaves(p, Append(mem, proc[p].login))
      BY <1>3, <2>3 DEF AddLogin, mem
    <3>2. Changes(mem, Append(mem, proc[p].login), Copy(proc[p]))
      BY <1>1, <2>3 DEF Changes
    <3>3. \E i \in DOMAIN Append(mem, proc[p].login) : Append(mem, proc[p].login)[i] = proc[p].login
      <4>1. /\ Len(mem) + 1 \in DOMAIN Append(mem, proc[p].login)
            /\ Append(mem, proc[p].login)[Len(mem) + 1] = proc[p].login
        BY <1>1, <1>2
      <4> QED
        BY <4>1
    <3> QED
      BY <1>2, <2>1, <3>1, <3>2, <3>3, FnKeepsInv
  <2> QED
    BY <2>2, <2>3
<1>4. CASE SetDefaultLogin(p)
  <2> DEFINE d == OnlyDefault(mem, proc[p].arg)
  <2>1. At(p, "locked") /\ proc[p].fn = "SetDefaultLogin"
    BY <1>4 DEF SetDefaultLogin, Runs
  <2>2. FnFails(p, d) \/ (FnSaves(p, d) /\ NameTaken(d, proc[p].arg))
    BY <1>4 DEF SetDefaultLogin, mem
  <2>3. NameTaken(d, proc[p].arg) => Changes(mem, d, Copy(proc[p]))
    BY <1>2, OnlyDefaultKeeps, DefaultBySpelling DEF Changes
  <2>4. \A i \in DOMAIN d : d[i].default <=> EqualFold(d[i].name, proc[p].arg)
    <3> SUFFICES ASSUME NEW i \in DOMAIN mem
                 PROVE  d[i].default <=> EqualFold(d[i].name, proc[p].arg)
      BY DEF OnlyDefault
    <3> DEFINE flag == EqualFold(mem[i].name, proc[p].arg)
    <3>1. mem[i] \in Login
      BY <1>2
    <3>2. d[i] = [mem[i] EXCEPT !.default = flag]
      BY DEF OnlyDefault
    <3> HIDE DEF flag, d
    <3>3. d[i].default = flag /\ d[i].name = mem[i].name
      BY <3>1, <3>2 DEF Login
    <3> QED
      BY <3>3 DEF flag
  <2> HIDE DEF d
  <2> QED
    BY <1>2, <2>1, <2>2, <2>3, <2>4, FnKeepsInv
<1>5. CASE DeleteLogin(p)
  <2>1. At(p, "locked") /\ proc[p].fn = "DeleteLogin" /\ proc[p].cmd = "delete"
    BY <1>1, <1>5 DEF DeleteLogin, Runs, Role
  <2>2. CASE FnFails(p, mem)
    BY <2>1, <2>2, FnKeepsInv
  <2>3. CASE ~FnFails(p, mem)
    <3> DEFINE s(i) == [proc[p] EXCEPT
                !.pc = IF mem[i].kind = "oauth" THEN "uncred" ELSE "save",
                !.login = mem[i], !.mem = Without(mem, i)]
    <3>1. PICK i \in DOMAIN mem : Local(p, s(i)) /\ EqualFold(mem[i].name, proc[p].arg)
      BY <1>5, <2>3 DEF DeleteLogin, IsFirst, Matches, mem
    <3>2. s(i).pc \in {"uncred", "save"} /\ s(i).fn = "DeleteLogin" /\ s(i).mem = Without(mem, i)
          /\ s(i).arg = proc[p].arg /\ Role(s(i))
      BY <1>1, <2>1 DEF Proc, Role, At
    <3> HIDE DEF s
    <3>3. \A c : Changes(mem, Without(mem, i), c)
      BY <3>1 DEF Changes
    <3>4. ~NameTaken(Without(mem, i), mem[i].name)
      BY <1>2, WithoutKeeps
    <3>5. ~NameTaken(Without(mem, i), proc[p].arg)
      BY <3>1, <3>4 DEF NameTaken, Matches, EqualFold
    <3>6. FromFile(s(i), file)
      BY <1>2, <3>2, <3>3, <3>5 DEF FromFile, Edited
    <3> QED
      BY <2>1, <3>1, <3>2, <3>6, InsideKeepsInv DEF Local, Locked, At
  <2> QED
    BY <2>2, <2>3
<1>6. CASE SaveLoginTokens(p)
  <2>1. At(p, "locked") /\ proc[p].fn = "SaveLoginTokens"
    BY <1>6 DEF SaveLoginTokens, Runs
  <2>2. CASE FnFails(p, mem)
    BY <2>1, <2>2, FnKeepsInv
  <2>3. CASE ~FnFails(p, mem)
    <3> DEFINE m(i) == [mem EXCEPT ![i].token = proc[p].login.token]
    <3>1. PICK i \in DOMAIN mem : FnSaves(p, m(i))
      BY <1>6, <2>3 DEF SaveLoginTokens, mem
    <3>2. proc[p].login.token \in Token \cup {NoToken}
      BY <1>1 DEF Login
    <3>3. Changes(mem, m(i), Copy(proc[p]))
      BY <3>2 DEF Changes
    <3> HIDE DEF m
    <3> QED
      BY <1>2, <2>1, <3>1, <3>3, FnKeepsInv
  <2> QED
    BY <2>2, <2>3
<1>7. CASE RefreshOAuthToken(p)
  <2>1. At(p, "locked") /\ proc[p].fn = "RefreshOAuthToken"
    BY <1>7 DEF RefreshOAuthToken, Runs
  <2>2. CASE FnFails(p, mem)
    BY <2>1, <2>2, FnKeepsInv
  <2>3. CASE ~FnFails(p, mem)
    <3> DEFINE s(ph) == [proc[p] EXCEPT !.mem = mem, !.pc = ph]
    <3>1. PICK i \in DOMAIN mem : /\ mem[i].name = proc[p].login.name
                                  /\ Local(p, s("unlock")) \/ Local(p, s("net"))
      BY <1>7, <2>3 DEF RefreshOAuthToken, IsFirstExact, mem
    <3>2. ASSUME NEW ph \in {"unlock", "net"}
          PROVE  Role(s(ph)) /\ FromFile(s(ph), file) /\ s(ph).pc = ph
      BY <1>1, <1>2, <2>1, <3>1 DEF Role, FromFile, Proc, At
    <3> HIDE DEF s
    <3> QED
      BY <2>1, <3>1, <3>2, InsideKeepsInv DEF Local, Locked, At
  <2> QED
    BY <2>2, <2>3
<1>8. CASE DeleteOAuthToken(p)
  <2> DEFINE s == [proc[p] EXCEPT !.pc = "save"]
  <2>1. Role(s) /\ FromFile(s, file) /\ s.pc = "save"
    BY <1>1, <1>8 DEF DeleteOAuthToken, At, Role, FromFile, Edited, Copy, Proc
  <2> QED
    BY <1>8, <2>1, InsideKeepsInv DEF DeleteOAuthToken, At, Locked
<1>9. CASE StoreRefreshedToken(p)
  <2> DEFINE s == [proc[p] EXCEPT !.pc = "unlock"]
  <2>1. Role(s) /\ FromFile(s, file) /\ s.pc = "unlock"
    BY <1>1, <1>9 DEF StoreRefreshedToken, At, Role, FromFile, Proc
  <2> QED
    BY <1>9, <2>1, InsideKeepsInv DEF StoreRefreshedToken, At, Locked
<1>10. CASE Truncate(p)
  <2> DEFINE s == [proc[p] EXCEPT !.pc = "write"]
  <2>1. Role(s) /\ FromFile(s, Emptied) /\ s.pc = "write"
    BY <1>1, <1>10 DEF Truncate, At, Role, FromFile, Edited, Proc
  <2>2. /\ proc' = [proc EXCEPT ![p] = s] /\ file' = Emptied /\ UNCHANGED <<holder, faults>>
        /\ At(p, "save")
    BY <1>10 DEF Truncate
  <2> HIDE DEF s
  <2>3. LockMoves(p, s) /\ StaysWhole(p, s) /\ proc[p].pc \in Locked
    BY <2>1, <2>2 DEF LockMoves, StaysWhole, At, Locked
  <2> QED
    BY <2>1, <2>2, <2>3, StepKeepsInv
<1>11. CASE Write(p)
  <2> DEFINE s == [proc[p] EXCEPT !.pc = "unlock"]
  <2>1. Role(s) /\ FromFile(s, Yaml(proc[p].mem)) /\ s.pc = "unlock"
    BY <1>1, <1>11 DEF Write, At, Role, FromFile, Edited, Proc
  <2>2. /\ proc' = [proc EXCEPT ![p] = s] /\ file' = Yaml(proc[p].mem)
        /\ UNCHANGED <<holder, faults>> /\ At(p, "write") /\ file'.state = "yaml"
    BY <1>11 DEF Write, Yaml
  <2> HIDE DEF s
  <2>3. LockMoves(p, s) /\ StaysWhole(p, s) /\ proc[p].pc \in Locked
    BY <2>1, <2>2 DEF LockMoves, StaysWhole, Damaged, At, Locked
  <2> QED
    BY <2>1, <2>2, <2>3, StepKeepsInv
<1>12. CASE Unlock(p)
  BY <1>12, LockKeepsInv
<1>14. CASE ReloadFails(p)
  BY <1>14, FnKeepsInv DEF ReloadFails
<1>13. CASE DoOAuthRefresh(p)
  <2> DEFINE old == proc[p].mem
  <2>1. /\ At(p, "net") /\ proc[p].fn = "RefreshOAuthToken"
        /\ file.state = "empty" \/ old = file.logins
        /\ \E i \in DOMAIN old : old[i].name = proc[p].login.name
    BY <1>1, <1>13 DEF DoOAuthRefresh, At, Role, FromFile
  <2> HIDE DEF old
  <2>2. CASE FnFails(p, old)
    BY <2>1, <2>2, FnKeepsInv
  <2>3. ASSUME NEW t \in Token, Local(p, [proc[p] EXCEPT !.pc = "cred", !.tok = t])
        PROVE  StoreInv'
    <3> DEFINE s == [proc[p] EXCEPT !.pc = "cred", !.tok = t]
    <3>0. /\ s.pc = "cred" /\ s.tok = t /\ s.mem = old
          /\ s.fn = proc[p].fn /\ s.cmd = proc[p].cmd /\ s.login = proc[p].login /\ s.ok = proc[p].ok
      BY <1>1 DEF Proc, old
    <3> HIDE DEF s
    <3>1. Role(s)
      BY <1>1, <2>1, <3>0 DEF At, Role
    <3>2. FromFile(s, file)
      BY <2>1, <3>0 DEF FromFile
    <3>3. Local(p, s)
      BY <2>3 DEF s
    <3> QED
      BY <2>1, <3>0, <3>1, <3>2, <3>3, InsideKeepsInv DEF Local, At, Locked
  <2>4. ASSUME NEW t \in Token, NEW i \in DOMAIN old, old[i].name = proc[p].login.name,
               proc[p].login.kind = "legacy",
               FnSaves(p, [old EXCEPT ![i] = [proc[p].login EXCEPT !.token = t]])
        PROVE  StoreInv'
    <3>1. Copy(proc[p]) = {proc[p].login}
      BY <2>1, <2>4 DEF Copy
    <3> DEFINE m == [old EXCEPT ![i] = [proc[p].login EXCEPT !.token = t]]
    <3>2. Changes(old, m, Copy(proc[p]))
      BY <2>4, <3>1 DEF Changes
    <3>3. FnSaves(p, m)
      BY <2>4
    <3> HIDE DEF m
    <3> QED
      BY <2>1, <3>2, <3>3, FnKeepsInv
  <2> QED
    BY <1>13, <2>2, <2>3, <2>4 DEF DoOAuthRefresh, IsFirstExact, old
<1> QED
  BY <1>3, <1>4, <1>5, <1>6, <1>7, <1>8, <1>9, <1>10, <1>11, <1>12, <1>13, <1>14 DEF UnderLock

\* A read, a write or a store that fails is told to the caller.
LEMMA FaultKeepsInv ==
    ASSUME TypeOK, StoreInv, NEW p \in Process, SaveFails(p) \/ ReadFails(p) \/ StoreFails(p)
    PROVE  StoreInv'
<1>1. proc[p] \in Proc /\ Role(proc[p]) /\ faults \in Nat
  BY BoundsAssumption DEF StoreInv, TypeOK
<1> DEFINE s == [proc[p] EXCEPT !.pc = "unlock", !.ok = FALSE]
<1>2. Role(s) /\ (\A f : FromFile(s, f)) /\ s.pc = "unlock"
  <2>1. proc[p].pc \in {"save", "write", "load", "locked", "cred", "post"}
    BY DEF SaveFails, ReadFails, StoreFails, At
  <2> QED
    BY <1>1, <2>1 DEF Role, FromFile, Proc
<1>3. CASE proc' = [proc EXCEPT ![p] = s] /\ proc[p].pc \in Locked
  <2>1. holder' = holder /\ faults' = faults + 1
    BY DEF SaveFails, ReadFails, StoreFails, Fault
  <2> HIDE DEF s
  <2>2. LockMoves(p, s) /\ StaysWhole(p, s)
    BY <1>1, <1>2, <1>3, <2>1 DEF LockMoves, StaysWhole, Locked
  <2> QED
    BY <1>2, <1>3, <2>1, <2>2, StepKeepsInv
<1>4. CASE proc[p].pc \in {"load", "post"} /\ proc' = [proc EXCEPT ![p] = Exited]
  <2>1. UNCHANGED <<file, holder>> /\ faults' = faults + 1 /\ proc[p].pc \notin Locked
    BY <1>4 DEF SaveFails, ReadFails, StoreFails, Fault, At, Locked
  <2>2. LockMoves(p, Exited) /\ StaysWhole(p, Exited)
    BY <1>1, <2>1, ExitedRole DEF LockMoves, StaysWhole
  <2> QED
    BY <1>4, <2>1, <2>2, ExitedRole, StepKeepsInv
<1> QED
  BY <1>3, <1>4 DEF SaveFails, ReadFails, StoreFails, At, Locked

LEMMA StoreInvariance == Spec => []StoreInv
<1>1. ASSUME Init PROVE StoreInv
  <2>1. ~Damaged(file)
    BY <1>1 DEF Init, Yaml, Damaged
  <2>2. \A p \in Process : proc[p] = Exited /\ holder # p
    BY <1>1, ProcessAssumption DEF Init
  <2> QED
    BY <2>1, <2>2, ExitedRole DEF StoreInv, Mutex, TruncatedOnlyByWriter
<1>2. ASSUME TypeOK, UniqueNames, StoreInv, [Next]_vars PROVE StoreInv'
  <2>1. CASE UNCHANGED vars
    BY <1>2, <2>1 DEF StoreInv, Mutex, TruncatedOnlyByWriter, Damaged, At, vars
  <2>2. CASE Next
    BY <1>2, <2>2, OutsideKeepsInv, LockKeepsInv, UnderLockKeepsInv, FaultKeepsInv
       DEF Next, Proceed, Remote, Faulty
  <2> QED
    BY <1>2, <2>1, <2>2
<1> QED
  BY <1>1, <1>2, StoreTypeCorrect, NamesAreUnique, PTL DEF Spec

\* Without faults whoever reloads the config file under the lock finds it
\* whole: it is empty only in the hands of the process that is writing it, or
\* after a crash or a failed write (saveConfigUnsafe).
THEOREM FileIsWhole == Spec => []TruncatedOnlyByWriter
<1>1. StoreInv => TruncatedOnlyByWriter
  BY DEF StoreInv
<1> QED
  BY <1>1, StoreInvariance, PTL

\* What a command reports as done is in the file while it still holds the
\* lock, whatever runs beside it (withConfigLock, saveConfigUnsafe).
THEOREM SuccessIsStored == Spec => []SuccessIsOnDisk
<1>1. StoreInv => SuccessIsOnDisk
  <2> SUFFICES ASSUME StoreInv, NEW p \in Process,
                      At(p, "unlock"), proc[p].ok, proc[p].fn # "RefreshOAuthToken"
               PROVE  LET s == file.logins IN
                      /\ file = Yaml(proc[p].mem)
                      /\ proc[p].fn = "AddLogin" => \E i \in DOMAIN s : s[i] = proc[p].login
                      /\ proc[p].fn = "DeleteLogin" => ~NameTaken(s, proc[p].arg)
                      /\ proc[p].fn = "SetDefaultLogin" =>
                          \A i \in DOMAIN s : s[i].default <=> EqualFold(s[i].name, proc[p].arg)
    BY DEF SuccessIsOnDisk
  <2>1. Edited(proc[p]) /\ file = Yaml(proc[p].mem)
    BY DEF StoreInv, FromFile, At
  <2>2. file.logins = proc[p].mem
    BY <2>1 DEF Yaml
  <2> QED
    BY <2>1, <2>2 DEF Edited
<1> QED
  BY <1>1, StoreInvariance, PTL

\* A refreshed token is stored only for a login that is in the file, though
\* the login may be deleted while the refresh waits (RefreshOAuthToken).
THEOREM RefreshIsForLiveLogin == Spec => []RefreshStoresForLiveLogin
<1>1. StoreInv => RefreshStoresForLiveLogin
  BY DEF StoreInv, FromFile, RefreshStoresForLiveLogin, At
<1> QED
  BY <1>1, StoreInvariance, PTL
----------------------------------------------------------------------------
(* The store implements the registry                                       *)

\* The list the store stands for is that of the one writer, or the file's.
LEMMA StoredIs ==
    ASSUME Mutex
    PROVE  /\ \A p \in Process : At(p, "write") => stored = proc[p].mem /\ gone = FALSE
           /\ (\A p \in Process : ~At(p, "write")) =>
                stored = file.logins /\ gone = Damaged(file)
<1>1. ASSUME NEW p \in Process, At(p, "write") PROVE stored = proc[p].mem /\ gone = FALSE
  <2>1. \A q \in Process : At(q, "write") => q = p
    BY <1>1, ProcessAssumption DEF Mutex, At, Locked
  <2>2. (CHOOSE q \in Process : At(q, "write")) = p
    BY <1>1, <2>1
  <2> QED
    BY <1>1, <2>2 DEF stored, gone, Writing
<1>2. ASSUME \A p \in Process : ~At(p, "write")
      PROVE  stored = file.logins /\ gone = Damaged(file)
  BY <1>2 DEF stored, gone, Writing, Damaged
<1> QED
  BY <1>1, <1>2

LEMMA StoredIsNext ==
    ASSUME Mutex'
    PROVE  /\ \A p \in Process : At(p, "write")' => stored' = proc'[p].mem /\ gone' = FALSE
           /\ (\A p \in Process : ~At(p, "write")') =>
                stored' = file'.logins /\ gone' = Damaged(file')
<1>1. ASSUME NEW p \in Process, At(p, "write")'
      PROVE  stored' = proc'[p].mem /\ gone' = FALSE
  <2>1. \A q \in Process : At(q, "write")' => q = p
    BY <1>1, ProcessAssumption DEF Mutex, At, Locked
  <2>2. (CHOOSE q \in Process : At(q, "write"))' = p
    BY <1>1, <2>1
  <2> QED
    BY <1>1, <2>2 DEF stored, gone, Writing
<1>2. ASSUME \A p \in Process : ~At(p, "write")'
      PROVE  stored' = file'.logins /\ gone' = Damaged(file')
  BY <1>2 DEF stored, gone, Writing, Damaged
<1> QED
  BY <1>1, <1>2

\* What is neither the truncation nor the write of the file leaves it alone.
LEMMA QuietStep ==
    ASSUME TypeOK, StoreInv, NEW p \in Process, ~At(p, "write"), ~Truncate(p),
           Start(p) \/ Proceed(p) \/ Remote(p) \/ Faulty(p)
    PROVE  file' = file /\ \E s : proc' = [proc EXCEPT ![p] = s] /\ s.pc # "write"
<1>1. proc[p] \in Proc /\ Role(proc[p])
  BY DEF TypeOK, StoreInv
<1>2. CASE Start(p) \/ Snapshot(p) \/ LockTimeout(p) \/ Reauthenticate(p) \/ StoreNewToken(p)
  <2>1. file' = file
    BY <1>1, <1>2, SnapshotRole, OutsideRole DEF Start, Local
  <2> QED
    BY <1>1, <1>2, <2>1, StartRole, SnapshotRole, OutsideRole DEF Local, Locked
<1>3. ASSUME NEW mem, At(p, "locked") \/ At(p, "net"), FnFails(p, mem) \/ FnSaves(p, mem)
      PROVE  file' = file /\ \E s : proc' = [proc EXCEPT ![p] = s] /\ s.pc # "write"
  BY <1>1, <1>3, FnState DEF Local
<1>4. ASSUME NEW ph \in {"locked", "unlock", "save"}
      PROVE  /\ [proc[p] EXCEPT !.pc = ph].pc # "write"
             /\ [proc[p] EXCEPT !.pc = ph, !.ok = FALSE].pc # "write"
  BY <1>1 DEF Proc
<1>5. CASE AcquireLock(p) \/ DeleteOAuthToken(p) \/ StoreRefreshedToken(p)
  <2>1. file' = file /\ \E ph \in {"locked", "unlock", "save"} :
                            proc' = [proc EXCEPT ![p] = [proc[p] EXCEPT !.pc = ph]]
    BY <1>5 DEF AcquireLock, DeleteOAuthToken, StoreRefreshedToken
  <2> QED
    BY <1>4, <2>1
<1>6. CASE Faulty(p)
  <2>1. /\ file' = file
        /\ \/ proc' = [proc EXCEPT ![p] = [proc[p] EXCEPT !.pc = "unlock", !.ok = FALSE]]
           \/ proc' = [proc EXCEPT ![p] = Exited]
    BY <1>6 DEF Faulty, SaveFails, ReadFails, StoreFails, Crash, At
  <2> QED
    BY <1>4, <2>1, ExitedRole DEF Locked
<1>7. CASE Unlock(p)
  BY <1>1, <1>7, ResumeRole DEF Unlock, Proc, Locked
<1>8. CASE ReloadFails(p) \/ AddLogin(p) \/ SetDefaultLogin(p) \/ SaveLoginTokens(p)
  <2>1. At(p, "locked") /\ \E mem : FnFails(p, mem) \/ FnSaves(p, mem)
    BY <1>8 DEF ReloadFails, AddLogin, SetDefaultLogin, SaveLoginTokens, Runs
  <2> QED
    BY <1>3, <2>1
<1>9. CASE DeleteLogin(p)
  <2> DEFINE s(ph, l, mem) == [proc[p] EXCEPT !.pc = ph, !.login = l, !.mem = mem]
  <2>1. /\ At(p, "locked")
        /\ \/ \E mem : FnFails(p, mem)
           \/ \E ph \in {"uncred", "save"} : \E l, mem : Local(p, s(ph, l, mem))
    BY <1>9 DEF DeleteLogin, Runs
  <2>2. \A ph \in {"uncred", "save"} : \A l, mem : s(ph, l, mem).pc # "write"
    BY <1>1 DEF Proc
  <2> HIDE DEF s
  <2> QED
    BY <1>3, <2>1, <2>2 DEF Local
<1>10. CASE RefreshOAuthToken(p)
  <2> DEFINE s(ph, mem) == [proc[p] EXCEPT !.mem = mem, !.pc = ph]
  <2>1. /\ At(p, "locked")
        /\ \/ \E mem : FnFails(p, mem)
           \/ \E ph \in {"unlock", "net"} : \E mem : Local(p, s(ph, mem))
    BY <1>10 DEF RefreshOAuthToken, Runs
  <2>2. \A ph \in {"unlock", "net"} : \A mem : s(ph, mem).pc # "write"
    BY <1>1 DEF Proc
  <2> HIDE DEF s
  <2> QED
    BY <1>3, <2>1, <2>2 DEF Local
<1>11. CASE DoOAuthRefresh(p)
  <2> DEFINE s(t) == [proc[p] EXCEPT !.pc = "cred", !.tok = t]
  <2>1. /\ At(p, "net")
        /\ \/ \E mem : FnFails(p, mem) \/ FnSaves(p, mem)
           \/ \E t : Local(p, s(t))
    BY <1>11 DEF DoOAuthRefresh
  <2>2. \A t : s(t).pc # "write"
    BY <1>1 DEF Proc
  <2> HIDE DEF s
  <2> QED
    BY <1>3, <2>1, <2>2 DEF Local
<1>12. ~Write(p)
  BY DEF Write
<1> QED
  BY <1>2, <1>5, <1>6, <1>7, <1>8, <1>9, <1>10, <1>11, <1>12
     DEF Proceed, UnderLock, Remote

\* A refresh holds the copy that it held, or one that it has just read.
LEMMA CopyStep ==
    ASSUME TypeOK, StoreInv, NEW p \in Process,
           Start(p) \/ Proceed(p) \/ Remote(p) \/ Faulty(p),
           HoldsCopy(proc'[p])
    PROVE  /\ faults' = faults
           /\ \/ HoldsCopy(proc[p]) /\ proc'[p].login = proc[p].login
              \/ /\ GetLoginByName(p)
                 /\ \E i \in DOMAIN file.logins : proc'[p].login = file.logins[i]
<1>1. proc[p] \in Proc /\ Role(proc[p]) /\ proc \in [Process -> Proc]
  BY DEF TypeOK, StoreInv
<1>2. ~HoldsCopy(Exited) /\ \A s, b : s \in Proc => ~HoldsCopy(Resume(s, b))
  <2>1. ~HoldsCopy(Exited)
    BY DEF Exited, HoldsCopy
  <2>2. ASSUME NEW s \in Proc
        PROVE  /\ [s EXCEPT !.pc = "lock", !.fn = "AddLogin"].fn = "AddLogin"
               /\ [s EXCEPT !.pc = "post"].pc = "post"
               /\ [s EXCEPT !.pc = "browser"].pc = "browser"
    BY DEF Proc
  <2> QED
    BY <2>1, <2>2 DEF Resume, HoldsCopy
<1>3. ASSUME NEW s, proc' = [proc EXCEPT ![p] = s] PROVE proc'[p] = s
  BY <1>1, <1>3
<1>4. \A s : Local(p, s) => proc'[p] = s /\ faults' = faults
  BY <1>3 DEF Local
<1>5. CASE Start(p)
  <2>1. PICK s : /\ proc' = [proc EXCEPT ![p] = s] /\ Role(s)
                 /\ s.pc \in {"load", "lock"} \/ s.cmd = "oauth"
                 /\ s.pc = "lock" => s.fn = "SetDefaultLogin"
    BY <1>5, StartsWith
  <2> QED
    BY <1>3, <2>1 DEF HoldsCopy, Role
<1>6. CASE GetLoginByName(p)
  <2>1. ~Local(p, Exited)
    BY <1>2, <1>4
  <2>2. PICK i \in DOMAIN file.logins :
            Local(p, [proc[p] EXCEPT !.pc = "token", !.mem = file.logins,
                        !.login = file.logins[i]])
    BY <1>6, <2>1 DEF GetLoginByName
  <2>3. /\ faults' = faults
        /\ proc'[p] = [proc[p] EXCEPT !.pc = "token", !.mem = file.logins,
                        !.login = file.logins[i]]
    BY <1>4, <2>2
  <2>4. proc'[p].login = file.logins[i]
    BY <1>1, <2>3 DEF Proc
  <2> QED
    BY <1>6, <2>3, <2>4
<1>7. CASE LoadFails(p) \/ CreateLogin(p) \/ RunLoginDelete(p)
  <2>1. ~Local(p, Exited)
    BY <1>2, <1>4
  <2>2. /\ At(p, "load") /\ proc[p].cmd \in {"add", "delete"}
        /\ \E a : Local(p, [proc[p] EXCEPT !.pc = "lock", !.mem = file.logins, !.arg = a])
    <3>1. [proc[p] EXCEPT !.pc = "lock", !.mem = file.logins]
            = [proc[p] EXCEPT !.pc = "lock", !.mem = file.logins, !.arg = proc[p].arg]
      BY <1>1 DEF Proc
    <3> QED
      BY <1>7, <2>1, <3>1 DEF LoadFails, CreateLogin, RunLoginDelete, Loads
  <2>3. PICK a : proc'[p] = [proc[p] EXCEPT !.pc = "lock", !.mem = file.logins, !.arg = a]
    BY <1>4, <2>2
  <2>4. proc'[p].fn = proc[p].fn
    BY <1>1, <2>3 DEF Proc
  <2> QED
    BY <1>1, <2>2, <2>4 DEF HoldsCopy, Role
<1>8. CASE NeedsRefresh(p)
  <2>1. /\ At(p, "token") /\ faults' = faults
        /\ proc'[p] = [proc[p] EXCEPT !.pc = "lock", !.fn = "RefreshOAuthToken"]
    BY <1>4, <1>8 DEF NeedsRefresh
  <2>2. proc'[p].login = proc[p].login
    BY <1>1, <2>1 DEF Proc
  <2> QED
    BY <1>1, <2>1, <2>2 DEF HoldsCopy, Role, At
<1>9. CASE NoRefresh(p)
  <2>1. proc'[p] = [proc[p] EXCEPT !.pc = "lock", !.fn = "AddLogin"] \/ proc'[p] = Exited
    BY <1>4, <1>9 DEF NoRefresh
  <2> QED
    BY <1>1, <1>2, <2>1 DEF HoldsCopy, Proc
<1>10. ASSUME NEW ph, proc' = [proc EXCEPT ![p] = [proc[p] EXCEPT !.pc = ph]]
       PROVE  proc'[p].pc = ph /\ proc'[p].fn = proc[p].fn /\ proc'[p].login = proc[p].login
  BY <1>1, <1>10 DEF Proc
<1>11. CASE AcquireLock(p)
  <2>1. At(p, "lock") /\ faults' = faults /\ proc' = [proc EXCEPT ![p] = [proc[p] EXCEPT !.pc = "locked"]]
    BY <1>11 DEF AcquireLock
  <2> QED
    BY <1>10, <2>1 DEF HoldsCopy, At
<1>12. CASE LockTimeout(p) \/ Unlock(p) \/ StoreNewToken(p)
  <2>1. proc'[p] = Exited \/ \E b : proc'[p] = Resume(proc[p], b)
    <3>1. CASE LockTimeout(p)
      <4>1. Local(p, Resume(proc[p], FALSE))
        BY <3>1 DEF LockTimeout
      <4>2. proc'[p] = Resume(proc[p], FALSE)
        BY <1>4, <4>1
      <4> QED
        BY <4>2
    <3>2. CASE Unlock(p)
      BY <1>3, <3>2 DEF Unlock
    <3>3. CASE StoreNewToken(p)
      BY <1>3, <3>3 DEF StoreNewToken
    <3> QED
      BY <1>12, <3>1, <3>2, <3>3
  <2> QED
    BY <1>1, <1>2, <2>1
<1>13. ASSUME NEW mem, FnFails(p, mem) PROVE FALSE
  <2>1. proc'[p] = [proc[p] EXCEPT !.pc = "unlock", !.ok = FALSE, !.mem = mem]
    BY <1>4, <1>13 DEF FnFails
  <2>2. proc'[p].pc = "unlock"
    BY <1>1, <2>1 DEF Proc
  <2> QED
    BY <2>2 DEF HoldsCopy
<1>14. ASSUME NEW mem, FnSaves(p, mem)
       PROVE  faults' = faults /\ proc'[p].fn = proc[p].fn /\ proc'[p].login = proc[p].login
  <2>1. faults' = faults /\ proc'[p] = [proc[p] EXCEPT !.pc = "save", !.mem = mem]
    BY <1>4, <1>14 DEF FnSaves
  <2> QED
    BY <1>1, <2>1 DEF Proc
<1>15. CASE ReloadFails(p) \/ AddLogin(p) \/ SetDefaultLogin(p) \/ SaveLoginTokens(p)
  <2>1. /\ \E mem : FnFails(p, mem) \/ FnSaves(p, mem)
        /\ ~ReloadFails(p) => proc[p].fn # "RefreshOAuthToken"
    BY <1>15 DEF ReloadFails, AddLogin, SetDefaultLogin, SaveLoginTokens, Runs
  <2>2. ~ReloadFails(p)
    BY <1>13 DEF ReloadFails
  <2> QED
    BY <1>13, <1>14, <2>1, <2>2 DEF HoldsCopy
<1>16. CASE DeleteLogin(p)
  <2>1. /\ proc[p].fn = "DeleteLogin"
        /\ \E ph, l, mem : Local(p, [proc[p] EXCEPT !.pc = ph, !.login = l, !.mem = mem])
    BY <1>13, <1>16 DEF DeleteLogin, Runs
  <2>2. PICK ph, l, mem : proc'[p] = [proc[p] EXCEPT !.pc = ph, !.login = l, !.mem = mem]
    BY <1>4, <2>1
  <2>3. proc'[p].fn = "DeleteLogin"
    BY <1>1, <2>1, <2>2 DEF Proc
  <2> QED
    BY <2>3 DEF HoldsCopy
<1>17. CASE DeleteOAuthToken(p)
  <2>1. At(p, "uncred") /\ proc' = [proc EXCEPT ![p] = [proc[p] EXCEPT !.pc = "save"]]
    BY <1>17 DEF DeleteOAuthToken
  <2>2. proc'[p].fn = "DeleteLogin"
    BY <1>1, <1>10, <2>1 DEF Role, At
  <2> QED
    BY <2>2 DEF HoldsCopy
<1>18. CASE RefreshOAuthToken(p)
  <2>1. /\ At(p, "locked")
        /\ \E mem, ph : Local(p, [proc[p] EXCEPT !.mem = mem, !.pc = ph])
    BY <1>13, <1>18 DEF RefreshOAuthToken, Runs
  <2>0. PICK mem, ph : Local(p, [proc[p] EXCEPT !.mem = mem, !.pc = ph])
    BY <2>1
  <2>2. faults' = faults /\ proc'[p] = [proc[p] EXCEPT !.mem = mem, !.pc = ph]
    BY <1>4, <2>0
  <2>3. proc'[p].fn = proc[p].fn /\ proc'[p].login = proc[p].login
    BY <1>1, <2>2 DEF Proc
  <2> QED
    BY <2>1, <2>2, <2>3 DEF HoldsCopy, At
<1>19. CASE StoreRefreshedToken(p) \/ Write(p)
  <2>1. proc' = [proc EXCEPT ![p] = [proc[p] EXCEPT !.pc = "unlock"]]
    BY <1>19 DEF StoreRefreshedToken, Write
  <2> QED
    BY <1>10, <2>1 DEF HoldsCopy
<1>20. CASE Truncate(p)
  <2>1. /\ At(p, "save") /\ faults' = faults
        /\ proc' = [proc EXCEPT ![p] = [proc[p] EXCEPT !.pc = "write"]]
    BY <1>20 DEF Truncate
  <2> QED
    BY <1>10, <2>1 DEF HoldsCopy, At
<1>21. CASE DoOAuthRefresh(p)
  <2>1. \A t : [proc[p] EXCEPT !.pc = "cred", !.tok = t].pc = "cred"
    BY <1>1 DEF Proc
  <2>2. At(p, "net") /\ \E mem : FnSaves(p, mem)
    BY <1>4, <1>13, <1>21, <2>1 DEF DoOAuthRefresh, HoldsCopy
  <2> QED
    BY <1>14, <2>2 DEF HoldsCopy, At
<1>22. CASE Reauthenticate(p)
  <2>1. \A t : /\ [proc[p] EXCEPT !.pc = "post", !.tok = t].pc = "post"
               /\ [proc[p] EXCEPT !.pc = "lock", !.fn = "SaveLoginTokens",
                      !.login.token = t].fn = "SaveLoginTokens"
    BY <1>1 DEF Proc
  <2> QED
    BY <1>2, <1>4, <1>22, <2>1 DEF Reauthenticate, HoldsCopy
<1>23. CASE Faulty(p)
  <2>1. [proc[p] EXCEPT !.pc = "unlock", !.ok = FALSE].pc = "unlock"
    BY <1>1 DEF Proc
  <2>2. \/ proc' = [proc EXCEPT ![p] = [proc[p] EXCEPT !.pc = "unlock", !.ok = FALSE]]
        \/ proc' = [proc EXCEPT ![p] = Exited]
    BY <1>23 DEF Faulty, SaveFails, ReadFails, StoreFails, Crash
  <2> QED
    BY <1>2, <1>3, <2>1, <2>2 DEF HoldsCopy
<1> QED
  BY <1>5, <1>6, <1>7, <1>8, <1>9, <1>11, <1>12, <1>15, <1>16, <1>17, <1>18, <1>19, <1>20,
     <1>21, <1>22, <1>23 DEF Proceed, Snapshot, UnderLock, Remote

\* Such a step does not show in the registry.
LEMMA QuietStutters ==
    ASSUME TypeOK, StoreInv, StoreInv', NEW p \in Process, NEW s,
           proc' = [proc EXCEPT ![p] = s], file' = file, ~At(p, "write"), s.pc # "write"
    PROVE  UNCHANGED <<stored, gone>>
<1>1. \A q \in Process : /\ At(q, "write")' <=> At(q, "write")
                         /\ At(q, "write") => proc'[q].mem = proc[q].mem
  BY DEF TypeOK, At
<1>2. Mutex /\ Mutex'
  BY DEF StoreInv
<1>3. CASE \E q \in Process : At(q, "write")
  BY <1>1, <1>2, <1>3, StoredIs, StoredIsNext
<1>4. CASE \A q \in Process : ~At(q, "write")
  BY <1>1, <1>2, <1>4, StoredIs, StoredIsNext
<1> QED
  BY <1>3, <1>4

\* Logins are the same to the store and to the registry.
LEMMA RegistryLogins ==
    /\ Registry!Login = Login
    /\ \A s : Registry!DistinctNames(s) <=> DistinctNames(s)
    /\ \A s, n : Registry!NameTaken(s, n) <=> NameTaken(s, n)
    /\ \A s, i : Registry!Without(s, i) = Without(s, i)
    /\ \A s, n : Registry!OnlyDefault(s, n) = OnlyDefault(s, n)
<1>1. Registry!Login = Login
  BY DEF Registry!Login, Login, Registry!Kind, Kind
<1>2. \A s : Registry!DistinctNames(s) <=> DistinctNames(s)
  BY DEF Registry!DistinctNames, DistinctNames, Registry!EqualFold, EqualFold
<1>3. \A s, n : Registry!NameTaken(s, n) <=> NameTaken(s, n)
  BY DEF Registry!NameTaken, NameTaken, Registry!Matches, Matches, Registry!EqualFold, EqualFold
<1>4. \A s, i : Registry!Without(s, i) = Without(s, i)
  BY DEF Registry!Without, Without
<1>5. \A s, n : Registry!OnlyDefault(s, n) = OnlyDefault(s, n)
  BY DEF Registry!OnlyDefault, OnlyDefault, Registry!EqualFold, EqualFold
<1> QED
  BY <1>1, <1>2, <1>3, <1>4, <1>5

\* A step is one of p, and at most one fault.
LEMMA StepOfOne ==
    ASSUME NEW p \in Process, Start(p) \/ Proceed(p) \/ Remote(p) \/ Faulty(p)
    PROVE  \E s : proc' = [proc EXCEPT ![p] = s]
<1>1. CASE Start(p)
  BY <1>1 DEF Start
<1>2. CASE Snapshot(p) \/ LockTimeout(p) \/ Remote(p)
  <2>1. \E s : Local(p, s)
    BY <1>2 DEF Snapshot, LoadFails, CreateLogin, RunLoginDelete, GetLoginByName, NeedsRefresh,
                NoRefresh, LockTimeout, Remote, DoOAuthRefresh, Reauthenticate, FnFails, FnSaves
  <2> QED
    BY <2>1 DEF Local
<1>3. CASE UnderLock(p) \/ AcquireLock(p) \/ StoreNewToken(p)
  <2>1. \/ \E s : Local(p, s)
        \/ \E s : proc' = [proc EXCEPT ![p] = s]
    BY <1>3 DEF UnderLock, ReloadFails, AddLogin, SetDefaultLogin, DeleteLogin, DeleteOAuthToken,
                SaveLoginTokens, RefreshOAuthToken, StoreRefreshedToken, Truncate, Write, Unlock,
                AcquireLock, StoreNewToken, FnFails, FnSaves
  <2> QED
    BY <2>1 DEF Local
<1>4. CASE Faulty(p)
  BY <1>4 DEF Faulty, SaveFails, ReadFails, StoreFails, Crash
<1> QED
  BY <1>1, <1>2, <1>3, <1>4 DEF Proceed

LEMMA StepFaults ==
    ASSUME NEW p \in Process, Start(p) \/ Proceed(p) \/ Remote(p) \/ Faulty(p)
    PROVE  faults' \in {faults, faults + 1}
<1>1. CASE Faulty(p)
  BY <1>1 DEF Faulty, SaveFails, ReadFails, StoreFails, Crash, Fault
<1>2. CASE ~Faulty(p)
  BY <1>2 DEF Start, Proceed, Remote, Snapshot, LoadFails, CreateLogin, RunLoginDelete,
              GetLoginByName, NeedsRefresh, NoRefresh, AcquireLock, LockTimeout, UnderLock,
              ReloadFails, AddLogin, SetDefaultLogin, DeleteLogin, DeleteOAuthToken,
              SaveLoginTokens, RefreshOAuthToken, StoreRefreshedToken, Truncate, Write, Unlock,
              StoreNewToken, DoOAuthRefresh, Reauthenticate, FnFails, FnSaves, Local
<1> QED
  BY <1>1, <1>2

\* What the refreshes hold after a step of p, if its file is the same.
LEMMA CopiesNext ==
    ASSUME TypeOK, StoreInv, NEW p \in Process,
           Start(p) \/ Proceed(p) \/ Remote(p) \/ Faulty(p)
    PROVE  /\ copiesHeld' \subseteq copiesHeld \cup
                 (IF GetLoginByName(p) THEN {proc'[p].login} \cap
                    {file.logins[i] : i \in {j \in DOMAIN file.logins :
                                                file.logins[j].kind = "legacy"}}
                  ELSE {})
           /\ faults' # faults => copiesHeld' \subseteq copiesHeld
<1>1. \A q \in Process : q # p => proc'[q] = proc[q]
  <2>1. \E s : proc' = [proc EXCEPT ![p] = s]
    BY StepOfOne
  <2> QED
    BY <2>1 DEF TypeOK
<1>2. ASSUME NEW c \in copiesHeld', c \notin copiesHeld
      PROVE  /\ faults' = faults /\ GetLoginByName(p) /\ c = proc'[p].login
             /\ \E i \in DOMAIN file.logins :
                    c = file.logins[i] /\ file.logins[i].kind = "legacy"
  <2>1. PICK q \in Process : HoldsCopy(proc'[q]) /\ c = proc'[q].login
    BY DEF copiesHeld, HoldsCopy
  <2>2. q = p
    BY <1>1, <1>2, <2>1 DEF copiesHeld
  <2>3. ~(HoldsCopy(proc[p]) /\ proc'[p].login = proc[p].login)
    BY <1>2, <2>1, <2>2 DEF copiesHeld
  <2> QED
    BY <2>1, <2>2, <2>3, CopyStep DEF HoldsCopy
<1> QED
  BY <1>2

\* The truncation shows as the whole change, or as the recovery of a list that
\* was lost: nobody sees the file again before the write.
LEMMA TruncateChanges ==
    ASSUME TypeOK, TypeOK', UniqueNames, StoreInv, StoreInv', NEW p \in Process, Truncate(p)
    PROVE  Registry!Next
<1>1. /\ proc[p] \in Proc /\ FromFile(proc[p], file) /\ Mutex /\ Mutex'
      /\ proc[p].mem \in Seq(Login) /\ DistinctNames(proc[p].mem)
  BY DEF TypeOK, StoreInv, UniqueNames, Proc
<1>2. At(p, "save") /\ At(p, "write")' /\ proc'[p].mem = proc[p].mem
  BY <1>1 DEF Truncate, At, TypeOK, Proc
<1>3. stored' = proc[p].mem /\ gone' = FALSE
  BY <1>1, <1>2, StoredIsNext
<1>4. \A q \in Process : ~At(q, "write")
  BY <1>1, <1>2, ProcessAssumption DEF Mutex, At, Locked
<1>5. stored = file.logins /\ gone = Damaged(file)
  BY <1>1, <1>4, StoredIs
<1>0. UNCHANGED <<copiesHeld, faults>> /\ Copy(proc[p]) \subseteq copiesHeld
  <2>1. faults' = faults /\ Copy(proc[p]) \subseteq copiesHeld
    BY <1>2 DEF Truncate, Copy, copiesHeld, HoldsCopy, At
  <2>2. proc' = [proc EXCEPT ![p] = [proc[p] EXCEPT !.pc = "write"]]
    BY DEF Truncate
  <2>3. \A q \in Process : /\ proc'[q].login = proc[q].login
                           /\ HoldsCopy(proc'[q]) <=> HoldsCopy(proc[q])
    BY <1>1, <1>2, <2>2 DEF TypeOK, Proc, HoldsCopy, At
  <2>4. copiesHeld' = copiesHeld
    <3>1. \A c : c \in copiesHeld' <=> \E q \in Process : HoldsCopy(proc'[q]) /\ c = proc'[q].login
      BY DEF copiesHeld, HoldsCopy
    <3>2. \A c : c \in copiesHeld <=> \E q \in Process : HoldsCopy(proc[q]) /\ c = proc[q].login
      BY DEF copiesHeld
    <3>3. ASSUME NEW c, c \in copiesHeld' PROVE c \in copiesHeld
      <4>1. PICK q \in Process : HoldsCopy(proc'[q]) /\ c = proc'[q].login
        BY <3>1, <3>3
      <4>2. proc'[q].login = proc[q].login /\ (HoldsCopy(proc'[q]) <=> HoldsCopy(proc[q]))
        BY <2>3
      <4>3. HoldsCopy(proc[q]) /\ c = proc[q].login
        BY <4>1, <4>2
      <4> QED
        BY <3>2, <4>3
    <3>4. ASSUME NEW c, c \in copiesHeld PROVE c \in copiesHeld'
      <4>1. PICK q \in Process : HoldsCopy(proc[q]) /\ c = proc[q].login
        BY <3>2, <3>4
      <4>2. HoldsCopy(proc'[q]) /\ c = proc'[q].login
        BY <2>3, <4>1
      <4> QED
        BY <3>1, <4>2
    <3> HIDE DEF copiesHeld
    <3> QED
      BY <3>3, <3>4
  <2> QED
    BY <2>1, <2>4
<1>6. CASE Damaged(file)
  <2>1. gone
    BY <1>5, <1>6
  <2>2. Registry!Recover
    BY <1>0, <1>1, <1>3, <2>1, RegistryLogins DEF Registry!Recover
  <2> QED
    BY <2>2 DEF Registry!Next
<1>7. CASE ~Damaged(file)
  <2>1. Changes(stored, stored', Copy(proc[p]))
    BY <1>1, <1>2, <1>3, <1>5, <1>7 DEF FromFile, Damaged, At
  <2>2. gone = FALSE /\ gone' = gone
    <3>1. Damaged(file) = FALSE
      BY <1>7 DEF Damaged
    <3> HIDE DEF gone
    <3> QED
      BY <1>3, <1>5, <3>1
  <2> HIDE DEF stored, gone, copiesHeld
  <2>3. Registry!Change
    BY <1>0, <2>2 DEF Registry!Change
  <2> QED
    BY <1>0, <2>1, <2>3, RegistryLogins DEF Changes, Registry!Next, Registry!Add, Registry!Delete,
                      Registry!SetDefault, Registry!Rewrite, Registry!WriteBack
<1> QED
  BY <1>6, <1>7

\* The write shows nothing new; a fault in its place loses the list.
LEMMA WriterSteps ==
    ASSUME TypeOK, StoreInv, StoreInv', NEW p \in Process, At(p, "write"),
           Start(p) \/ Proceed(p) \/ Remote(p) \/ Faulty(p)
    PROVE  \/ UNCHANGED <<stored, gone, faults>> /\ ~GetLoginByName(p)
           \/ faults' = faults + 1 /\ stored' = <<>> /\ gone' = TRUE
<1>1. /\ proc[p] \in Proc /\ Mutex /\ Mutex' /\ file = Emptied
  BY DEF TypeOK, StoreInv, FromFile, At
<1>2. stored = proc[p].mem /\ gone = FALSE
  BY <1>1, StoredIs
<1>3. Write(p) \/ SaveFails(p) \/ Crash(p)
  BY DEF At, Start, Proceed, Snapshot, Loads, LoadFails, CreateLogin, RunLoginDelete,
         GetLoginByName, NeedsRefresh, NoRefresh, AcquireLock, LockTimeout, UnderLock,
         ReloadFails, AddLogin, SetDefaultLogin, DeleteLogin, DeleteOAuthToken,
         SaveLoginTokens, RefreshOAuthToken, StoreRefreshedToken, Truncate, Unlock, Runs,
         StoreNewToken, Remote, DoOAuthRefresh, Reauthenticate, Faulty, ReadFails, StoreFails
<1>4. \A q \in Process : ~At(q, "write")'
  <2>1. proc'[p].pc # "write"
    BY <1>1, <1>3, ExitedRole DEF Write, SaveFails, Crash, TypeOK, Proc, Locked
  <2>2. \A q \in Process \ {p} : proc'[q] = proc[q] /\ proc[q].pc # "write"
    BY <1>1, <1>3, ProcessAssumption DEF Write, SaveFails, Crash, TypeOK, Mutex, At, Locked
  <2> QED
    BY <2>1, <2>2 DEF At
<1>5. stored' = file'.logins /\ gone' = Damaged(file')
  BY <1>1, <1>4, StoredIsNext
<1>6. CASE Write(p)
  <2>1. /\ file'.logins = proc[p].mem /\ Damaged(file') = FALSE /\ faults' = faults
        /\ ~GetLoginByName(p)
    BY <1>6 DEF Write, Yaml, Damaged, GetLoginByName, Loads, At
  <2> QED
    BY <1>2, <1>5, <2>1
<1>7. CASE SaveFails(p) \/ Crash(p)
  <2>1. file' \in {Emptied, Broken} /\ faults' = faults + 1
    BY <1>1, <1>7 DEF SaveFails, Crash, Fault, At
  <2>2. file'.logins = <<>> /\ Damaged(file') = TRUE
    BY <2>1, DamagedType DEF Damaged
  <2> QED
    BY <1>5, <2>1, <2>2
<1> QED
  BY <1>3, <1>6, <1>7

\* The stored logins behave like one list that is changed by one command at a
\* time: no change is made to a list that another command has changed since,
\* but that of a refresh to its legacy login, and only a crash or a failed
\* write loses the list, in its own step (withConfigLock, RefreshOAuthToken).
THEOREM StoreRefinesRegistry == Spec => ImplementsRegistry
<1>1. ASSUME Init, StoreInv PROVE Registry!Init
  <2>1. /\ \A p \in Process : ~At(p, "write")
        /\ file.logins \in InitialLogins \cup {<<>>} /\ Damaged(file) = FALSE
    BY <1>1, ExitedRole DEF Init, Yaml, Damaged, At, Locked
  <2>2. stored = file.logins /\ gone = FALSE
    BY <1>1, <2>1, StoredIs DEF StoreInv
  <2>3. copiesHeld = {} /\ faults = 0
    BY <1>1 DEF Init, Exited, copiesHeld, HoldsCopy
  <2> QED
    BY <2>1, <2>2, <2>3 DEF Registry!Init
<1>2. ASSUME TypeOK, TypeOK', UniqueNames, StoreInv, StoreInv', [Next]_vars
      PROVE  [Registry!Next]_(Registry!vars)
  <2>1. CASE UNCHANGED vars
    BY <2>1 DEF vars, Registry!vars, stored, gone, copiesHeld, HoldsCopy, Writing, Damaged, At
  <2>2. ASSUME NEW p \in Process, Start(p) \/ Proceed(p) \/ Remote(p) \/ Faulty(p)
        PROVE  Registry!Next
    <3>1. CASE Truncate(p)
      BY <1>2, <3>1, TruncateChanges
    <3>2. ASSUME ~Truncate(p)
          PROVE  /\ faults' \in {faults, faults + 1}
                 /\ \/ UNCHANGED <<stored, gone>>
                    \/ faults' = faults + 1 /\ stored' = <<>> /\ gone' = TRUE
                 /\ At(p, "write") /\ faults' = faults => ~GetLoginByName(p)
      <4>1. CASE At(p, "write")
        <5>1. \/ UNCHANGED <<stored, gone, faults>> /\ ~GetLoginByName(p)
              \/ faults' = faults + 1 /\ stored' = <<>> /\ gone' = TRUE
          BY <1>2, <2>2, <4>1, WriterSteps
        <5>2. faults + 1 # faults
          BY <1>2, BoundsAssumption DEF TypeOK
        <5> HIDE DEF stored, gone
        <5> QED
          BY <5>1, <5>2
      <4>2. CASE ~At(p, "write")
        <5>1. PICK s : file' = file /\ proc' = [proc EXCEPT ![p] = s] /\ s.pc # "write"
          BY <1>2, <2>2, <3>2, <4>2, QuietStep
        <5>2. UNCHANGED <<stored, gone>>
          BY <1>2, <4>2, <5>1, QuietStutters
        <5> HIDE DEF stored, gone
        <5> QED
          BY <2>2, <4>2, <5>2, StepFaults
      <4> QED
        BY <4>1, <4>2
    <3>3. faults \in Nat /\ Mutex
      BY <1>2, BoundsAssumption DEF TypeOK, StoreInv
    <3>4. ASSUME ~Truncate(p), faults' = faults + 1
          PROVE  Registry!Next
      <4>1. copiesHeld' \subseteq copiesHeld
        BY <1>2, <2>2, <3>3, <3>4, CopiesNext
      <4> HIDE DEF stored, gone, copiesHeld
      <4> QED
        BY <3>2, <3>4, <4>1 DEF Registry!Next, Registry!Survive, Registry!Lose, Registry!Fault
    <3>5. ASSUME ~Truncate(p), faults' = faults
          PROVE  Registry!Next
      <4> DEFINE legacy(s) == {s[i] : i \in {j \in DOMAIN s : s[j].kind = "legacy"}}
      <4>1. ASSUME GetLoginByName(p)
            PROVE  copiesHeld' \subseteq copiesHeld \cup legacy(stored)
        <5>0. copiesHeld' \subseteq copiesHeld \cup legacy(file.logins)
          <6>1. copiesHeld' \subseteq copiesHeld \cup ({proc'[p].login} \cap legacy(file.logins))
            BY <1>2, <2>2, <4>1, CopiesNext
          <6> HIDE DEF copiesHeld, legacy
          <6> QED
            BY <6>1
        <5>1. CASE \E q \in Process : At(q, "write")
          <6>1. file.logins = <<>>
            BY <1>2, <5>1, DamagedType DEF StoreInv, FromFile, At
          <6>2. legacy(file.logins) = {}
            BY <6>1
          <6> HIDE DEF copiesHeld, legacy, stored
          <6> QED
            BY <5>0, <6>2
        <5>2. CASE \A q \in Process : ~At(q, "write")
          <6>1. stored = file.logins
            BY <3>3, <5>2, StoredIs
          <6> HIDE DEF copiesHeld, legacy, stored
          <6> QED
            BY <5>0, <6>1
        <5> QED
          BY <5>1, <5>2
      <4>2. copiesHeld' \subseteq copiesHeld \cup legacy(stored)
        <5>1. CASE ~GetLoginByName(p)
          <6>1. copiesHeld' \subseteq copiesHeld \cup {}
            BY <1>2, <2>2, <5>1, CopiesNext
          <6> HIDE DEF copiesHeld, legacy, stored
          <6> QED
            BY <6>1
        <5> QED
          BY <4>1, <5>1
      <4>3. UNCHANGED <<stored, gone, faults>>
        <5>1. faults' # faults + 1
          BY <3>3, <3>5
        <5> HIDE DEF stored, gone
        <5> QED
          BY <3>2, <3>5, <5>1
      <4> HIDE DEF stored, gone, copiesHeld
      <4> QED
        BY <4>2, <4>3 DEF Registry!Next, Registry!Read
    <3> QED
      BY <3>1, <3>2, <3>4, <3>5
  <2> QED
    BY <1>2, <2>1, <2>2 DEF Next
<1> QED
  BY <1>1, <1>2, StoreTypeCorrect, NamesAreUnique, StoreInvariance, PTL
     DEF Spec, Registry!Spec, ImplementsRegistry
----------------------------------------------------------------------------
(* The two stores                                                          *)

\* A process in state s has added an OAuth login n and will store its token.
Pending(s, n) ==
    /\ s.cmd = "oauth" /\ s.fn = "AddLogin" /\ s.login.name = n /\ s.ok
    /\ s.pc \in {"unlock", "post"}

\* It is going to add the login, or to rewrite the file without it.
Adding(s, n) == s.cmd = "oauth" /\ s.fn = "AddLogin" /\ s.login.name = n
Deleting(s, n) == s.fn = "DeleteLogin" /\ s.pc = "save" /\ s.arg = n

Covered(n) == creds[n] # NoToken \/ \E p \in Process : Pending(proc[p], n)

FileCovered ==
    \A i \in DOMAIN file.logins : file.logins[i].kind = "oauth" =>
        \/ Covered(file.logins[i].name)
        \/ \E p \in Process : Deleting(proc[p], file.logins[i].name)

\* The list to be written has credentials, but for the login that is added.
ListCovered(s) ==
    s.pc \in {"net", "uncred", "save", "write"} =>
        \A i \in DOMAIN s.mem : s.mem[i].kind = "oauth" =>
            Covered(s.mem[i].name) \/ Adding(s, s.mem[i].name)

CredentialInv ==
    faults = 0 => FileCovered /\ \A p \in Process : ListCovered(proc[p])

\* A fault ends what the invariant says.
LEMMA FaultEndsCredentials ==
    ASSUME TypeOK, Fault PROVE CredentialInv'
<1>1. faults \in Nat /\ faults' = faults + 1
  BY BoundsAssumption DEF TypeOK, Fault
<1>2. faults' # 0
  BY <1>1
<1> QED
  BY <1>2 DEF CredentialInv

\* A credential, or the promise of one, lasts if p's step keeps p's promise.
LEMMA CoveredStays ==
    ASSUME TypeOK, NEW p \in Process, NEW s, proc' = [proc EXCEPT ![p] = s],
           NEW n \in Name, Covered(n),
           \/ creds' = creds
           \/ \E m, t : t \in Token /\ creds' = [creds EXCEPT ![m] = t],
           Pending(proc[p], n) => Pending(s, n) \/ creds'[n] # NoToken
    PROVE  Covered(n)'
<1>1. creds[n] # NoToken => creds'[n] # NoToken
  BY NoTokenAssumption DEF TypeOK
<1>2. \A q \in Process : Pending(proc[q], n) => Pending(proc'[q], n) \/ creds'[n] # NoToken
  BY DEF TypeOK
<1>3. creds'[n] # NoToken \/ \E q \in Process : Pending(proc'[q], n)
  BY <1>1, <1>2 DEF Covered
<1> QED
  BY <1>3 DEF Covered, Pending

\* A step that leaves the file alone, and removes no credential.
LEMMA CredentialStep ==
    ASSUME TypeOK, CredentialInv, NEW p \in Process, NEW s,
           proc' = [proc EXCEPT ![p] = s], file' = file, faults' = faults,
           \A n \in Name : Covered(n) => Covered(n)',
           proc[p].pc # "save", faults = 0 => ListCovered(s)'
    PROVE  CredentialInv'
<1>1. SUFFICES ASSUME faults = 0
               PROVE  FileCovered' /\ \A q \in Process : ListCovered(proc[q])'
  BY DEF CredentialInv
<1>2. FileCovered /\ \A q \in Process : ListCovered(proc[q])
  BY <1>1 DEF CredentialInv
<1>3. file.logins \in Seq(Login) /\ \A q \in Process : proc[q].mem \in Seq(Login)
  BY FileType DEF TypeOK, Proc
<1>4. proc'[p] = s /\ \A q \in Process \ {p} : proc'[q] = proc[q]
  BY DEF TypeOK
<1>5. \A q \in Process : \A n : Deleting(proc[q], n) => Deleting(proc'[q], n)
  BY <1>4 DEF Deleting
<1>6. FileCovered'
  <2> SUFFICES ASSUME NEW i \in DOMAIN file.logins, file.logins[i].kind = "oauth"
               PROVE  \/ Covered(file.logins[i].name)'
                      \/ \E q \in Process : Deleting(proc'[q], file.logins[i].name)
    BY DEF FileCovered, Deleting, Covered, Pending
  <2>1. file.logins[i].name \in Name
    <3>1. file.logins[i] \in Login
      BY <1>3
    <3> QED
      BY <3>1 DEF Login
  <2> QED
    BY <1>2, <1>5, <2>1 DEF FileCovered
<1>7. ASSUME NEW q \in Process, q # p PROVE ListCovered(proc[q])'
  <2>1. proc'[q] = proc[q]
    BY <1>4, <1>7
  <2> SUFFICES ASSUME proc[q].pc \in {"net", "uncred", "save", "write"},
                      NEW i \in DOMAIN proc[q].mem, proc[q].mem[i].kind = "oauth"
               PROVE  Covered(proc[q].mem[i].name)' \/ Adding(proc[q], proc[q].mem[i].name)
    BY <2>1 DEF ListCovered, Covered, Pending, Adding
  <2>2. proc[q].mem[i].name \in Name
    <3>1. proc[q].mem[i] \in Login
      BY <1>3
    <3> QED
      BY <3>1 DEF Login
  <2>3. Covered(proc[q].mem[i].name) \/ Adding(proc[q], proc[q].mem[i].name)
    BY <1>2 DEF ListCovered
  <2> QED
    BY <2>1, <2>2, <2>3
<1>8. ListCovered(proc[p])'
  BY <1>1, <1>4 DEF ListCovered, Covered, Pending, Adding
<1> QED
  BY <1>6, <1>7, <1>8
\* Steps that promise nothing and store nothing leave every credential.
LEMMA QuietCovered ==
    ASSUME TypeOK, NEW p \in Process, NEW s, proc' = [proc EXCEPT ![p] = s],
           creds' = creds, proc[p].pc \notin {"unlock", "post"}
    PROVE  \A n \in Name : Covered(n) => Covered(n)'
<1>1. \A n : ~Pending(proc[p], n)
  BY DEF Pending
<1> QED
  BY <1>1, CoveredStays

LEMMA OutsideKeepsCredentials ==
    ASSUME TypeOK, StoreInv, CredentialInv, NEW p \in Process,
           \/ Start(p) \/ Snapshot(p) \/ LockTimeout(p) \/ Reauthenticate(p) \/ StoreNewToken(p)
    PROVE  CredentialInv'
<1>1. proc[p] \in Proc /\ Role(proc[p])
  BY DEF TypeOK, StoreInv
<1>2. PICK s : /\ proc' = [proc EXCEPT ![p] = s] /\ s.pc \notin Locked
               /\ proc[p].pc \notin Locked /\ UNCHANGED <<file, faults>>
  BY <1>1, StartRole, SnapshotRole, OutsideRole DEF Start, Local, At, Locked
<1>3. ListCovered(s)'
  BY <1>2 DEF ListCovered, Locked
<1>4. ASSUME NEW n \in Name, Covered(n) PROVE Covered(n)'
  <2>1. CASE StoreNewToken(p)
    <3>1. creds' = [creds EXCEPT ![proc[p].login.name] = proc[p].tok] /\ proc[p].tok \in Token
      BY <1>1, <2>1 DEF StoreNewToken, At, Role
    <3>2. Pending(proc[p], n) => creds'[n] # NoToken
      BY <3>1, NoTokenAssumption DEF Pending, TypeOK
    <3> QED
      BY <1>2, <1>4, <3>1, <3>2, CoveredStays
  <2>2. CASE ~StoreNewToken(p)
    <3>1. creds' = creds
      BY <2>2 DEF Start, Snapshot, LockTimeout, Reauthenticate, LoadFails, CreateLogin,
                  RunLoginDelete, GetLoginByName, NeedsRefresh, NoRefresh, Local
    <3>2. proc[p].pc \notin {"unlock", "post"}
      BY <2>2 DEF Start, Snapshot, LockTimeout, Reauthenticate, LoadFails, Loads, CreateLogin,
                  RunLoginDelete, GetLoginByName, NeedsRefresh, NoRefresh, At
    <3> QED
      BY <1>2, <1>4, <3>1, <3>2, QuietCovered
  <2> QED
    BY <2>1, <2>2
<1>5. proc[p].pc # "save"
  BY <1>2 DEF Locked
<1> QED
  BY <1>2, <1>3, <1>4, <1>5, CredentialStep

\* Without faults the list reloaded has its credentials: no other process is
\* deleting, and no one has lost the file.
LEMMA ReloadedCovered ==
    ASSUME TypeOK, StoreInv, CredentialInv, NEW p \in Process, At(p, "locked"), faults = 0
    PROVE  /\ Reloaded(p) = file.logins
           /\ \A i \in DOMAIN file.logins :
                file.logins[i].kind = "oauth" => Covered(file.logins[i].name)
<1>1. holder = p /\ \A q \in Process : proc[q].pc \in Locked => q = p
  BY ProcessAssumption DEF StoreInv, Mutex, At, Locked
<1>2. ~Damaged(file)
  <2>1. \A q \in Process : holder = q => ~At(q, "write")
    BY <1>1 DEF At
  <2> QED
    BY <2>1 DEF StoreInv, TruncatedOnlyByWriter
<1>3. \A q \in Process : \A n : ~Deleting(proc[q], n)
  BY <1>1 DEF Deleting, At, Locked
<1> QED
  BY <1>2, <1>3 DEF Reloaded, Damaged, CredentialInv, FileCovered

\* A function that gives up, or that saves a list with its credentials.
LEMMA FnKeepsCredentials ==
    ASSUME TypeOK, StoreInv, CredentialInv, NEW p \in Process, At(p, "locked") \/ At(p, "net"),
           NEW mem \in Seq(Login),
           \/ FnFails(p, mem)
           \/ /\ FnSaves(p, mem)
              /\ faults = 0 =>
                    \A i \in DOMAIN mem : mem[i].kind = "oauth" =>
                        Covered(mem[i].name) \/ Adding(proc[p], mem[i].name)
    PROVE  CredentialInv'
<1>1. proc[p] \in Proc /\ Role(proc[p])
  BY DEF TypeOK, StoreInv
<1>2. PICK s : /\ Local(p, s) /\ s.mem = mem
               /\ \/ s.pc = "unlock"
                  \/ /\ FnSaves(p, mem) /\ s.pc = "save"
                     /\ \A n : Adding(proc[p], n) => Adding(s, n)
  <2>1. CASE FnFails(p, mem)
    BY <1>1, <2>1, FnState
  <2>2. CASE FnSaves(p, mem)
    <3> DEFINE s == [proc[p] EXCEPT !.pc = "save", !.mem = mem]
    <3>1. s.pc = "save" /\ s.mem = mem /\ \A n : Adding(proc[p], n) => Adding(s, n)
      BY <1>1 DEF Adding, Proc
    <3> QED
      BY <2>2, <3>1 DEF FnSaves
  <2> QED
    BY <2>1, <2>2
<1>3. /\ proc' = [proc EXCEPT ![p] = s] /\ UNCHANGED <<file, creds, faults>>
      /\ proc[p].pc \notin {"unlock", "post", "save"}
  BY <1>2 DEF Local, At
<1>4. \A n \in Name : Covered(n) => Covered(n)'
  BY <1>3, QuietCovered
<1>5. ASSUME faults = 0 PROVE ListCovered(s)'
  <2>1. CASE s.pc = "unlock"
    BY <2>1 DEF ListCovered
  <2>2. CASE s.pc = "save"
    <3>1. ASSUME NEW i \in DOMAIN mem, mem[i].kind = "oauth"
          PROVE  Covered(mem[i].name)' \/ Adding(s, mem[i].name)
      <4>1. mem[i].name \in Name
        <5>1. mem[i] \in Login
          OBVIOUS
        <5> QED
          BY <5>1 DEF Login
      <4>2. FnSaves(p, mem)
        BY <1>2, <2>2
      <4>3. ~FnFails(p, mem)
        <5>1. [proc[p] EXCEPT !.pc = "unlock", !.ok = FALSE, !.mem = mem].pc = "unlock"
          BY <1>1 DEF Proc
        <5> QED
          BY <1>3, <2>2, <5>1 DEF FnFails, Local, TypeOK
      <4>4. Covered(mem[i].name) \/ Adding(proc[p], mem[i].name)
        BY <1>5, <3>1, <4>3
      <4> QED
        BY <1>2, <1>4, <2>2, <4>1, <4>4
    <3> QED
      BY <1>2, <3>1 DEF ListCovered, Adding
  <2> QED
    BY <1>2, <2>1, <2>2
<1> QED
  BY <1>3, <1>4, <1>5, CredentialStep
\* A step under the lock that leaves file and credentials alone.
LEMMA InsideKeepsCredentials ==
    ASSUME TypeOK, CredentialInv, NEW p \in Process, NEW s, Local(p, s),
           At(p, "locked") \/ At(p, "net"),
           faults = 0 /\ s.pc \in {"net", "uncred", "save", "write"} =>
                \A i \in DOMAIN s.mem : s.mem[i].kind = "oauth" =>
                    s.mem[i].name \in Name /\ Covered(s.mem[i].name)
    PROVE  CredentialInv'
<1>1. /\ proc' = [proc EXCEPT ![p] = s] /\ UNCHANGED <<file, creds, faults>>
      /\ proc[p].pc \notin {"unlock", "post", "save"}
  BY DEF Local, At
<1>2. \A n \in Name : Covered(n) => Covered(n)'
  BY <1>1, QuietCovered
<1>3. faults = 0 => ListCovered(s)'
  BY <1>2 DEF ListCovered
<1> QED
  BY <1>1, <1>2, <1>3, CredentialStep

\* An edit that changes neither kind nor name of a login, or makes it a legacy
\* one, asks for no new credential.
LEMMA EditCovered ==
    ASSUME NEW s \in Seq(Login), NEW i \in DOMAIN s, NEW l \in Login,
           l.kind = "legacy" \/ (l.kind = s[i].kind /\ l.name = s[i].name),
           \A j \in DOMAIN s : s[j].kind = "oauth" => Covered(s[j].name)
    PROVE  /\ [s EXCEPT ![i] = l] \in Seq(Login)
           /\ \A j \in DOMAIN [s EXCEPT ![i] = l] :
                [s EXCEPT ![i] = l][j].kind = "oauth" => Covered([s EXCEPT ![i] = l][j].name)
<1>1. [s EXCEPT ![i] = l] \in Seq(Login) /\ DOMAIN [s EXCEPT ![i] = l] = DOMAIN s
  OBVIOUS
<1>2. ASSUME NEW j \in DOMAIN s, [s EXCEPT ![i] = l][j].kind = "oauth"
      PROVE  Covered([s EXCEPT ![i] = l][j].name)
  <2>1. CASE j = i
    BY <1>2, <2>1
  <2>2. CASE j # i
    BY <1>2, <2>2
  <2> QED
    BY <2>1, <2>2
<1> QED
  BY <1>1, <1>2

\* The credential of a deleted login goes first, under its name as it was
\* typed, which no other login of the list has.
LEMMA DeleteKeepsCredentials ==
    ASSUME TypeOK, StoreInv, CredentialInv, NEW p \in Process, DeleteOAuthToken(p)
    PROVE  CredentialInv'
<1>0. PICK s, a : s = [proc[p] EXCEPT !.pc = "save"] /\ a = proc[p].arg
  OBVIOUS
<1>1. /\ proc[p] \in Proc /\ Role(proc[p]) /\ Edited(proc[p]) /\ At(p, "uncred")
      /\ \A q \in Process \ {p} : proc[q].pc \notin Locked
  BY DEF DeleteOAuthToken, TypeOK, StoreInv, FromFile, Mutex, At, Locked
<1>2. /\ s.pc = "save" /\ s.fn = "DeleteLogin" /\ s.arg = a /\ s.mem = proc[p].mem
      /\ ~NameTaken(s.mem, a)
  BY <1>0, <1>1 DEF Role, Proc, At, Edited
<1>3. /\ proc' = [proc EXCEPT ![p] = s] /\ UNCHANGED <<file, faults>>
      /\ creds' = [creds EXCEPT ![a] = NoToken]
  BY <1>0 DEF DeleteOAuthToken
<1>4. proc'[p] = s /\ \A q \in Process \ {p} : proc'[q] = proc[q]
  BY <1>3 DEF TypeOK
<1>5. ASSUME NEW n \in Name, n # a, Covered(n) PROVE Covered(n)'
  <2>1. creds'[n] = creds[n]
    BY <1>3, <1>5 DEF TypeOK
  <2>2. ~Pending(proc[p], n)
    BY <1>1 DEF Pending, At
  <2>3. \A q \in Process : Pending(proc[q], n) => Pending(proc'[q], n)
    BY <1>4, <2>2
  <2> QED
    BY <1>5, <2>1, <2>3 DEF Covered, Pending
<1>6. SUFFICES ASSUME faults = 0
               PROVE  FileCovered' /\ \A q \in Process : ListCovered(proc[q])'
  BY <1>3 DEF CredentialInv
<1>7. FileCovered /\ ListCovered(proc[p])
  BY <1>6 DEF CredentialInv
<1>8. FileCovered'
  <2> SUFFICES ASSUME NEW i \in DOMAIN file.logins, file.logins[i].kind = "oauth"
               PROVE  \/ Covered(file.logins[i].name)'
                      \/ \E q \in Process : Deleting(proc'[q], file.logins[i].name)
    BY <1>3 DEF FileCovered, Deleting, Covered, Pending
  <2>1. file.logins[i].name \in Name
    <3>1. file.logins[i] \in Login
      BY FileType
    <3> QED
      BY <3>1 DEF Login
  <2>2. CASE file.logins[i].name = a
    BY <1>2, <1>4, <2>2 DEF Deleting
  <2>3. CASE file.logins[i].name # a
    <3>1. \A q \in Process : \A n : ~Deleting(proc[q], n)
      BY <1>1 DEF Deleting, At, Locked
    <3>2. Covered(file.logins[i].name)
      BY <1>7, <3>1 DEF FileCovered
    <3> QED
      BY <1>3, <1>5, <2>1, <2>3, <3>2
  <2> QED
    BY <2>2, <2>3
<1>9. ListCovered(s)'
  <2> SUFFICES ASSUME NEW i \in DOMAIN s.mem, s.mem[i].kind = "oauth"
               PROVE  Covered(s.mem[i].name)'
    BY DEF ListCovered
  <2>1. s.mem[i].name \in Name
    <3>1. s.mem \in Seq(Login)
      BY <1>1, <1>2 DEF Proc
    <3>2. s.mem[i] \in Login
      BY <3>1
    <3> QED
      BY <3>2 DEF Login
  <2>2. s.mem[i].name # a
    BY <1>2 DEF NameTaken, Matches, EqualFold
  <2>3. Covered(s.mem[i].name)
    BY <1>1, <1>2, <1>7 DEF ListCovered, Adding, Role, At
  <2> QED
    BY <1>5, <2>1, <2>2, <2>3
<1>10. \A q \in Process : ListCovered(proc[q])'
  BY <1>1, <1>4, <1>9 DEF ListCovered, Locked, Covered, Pending, Adding
<1> QED
  BY <1>8, <1>10

LEMMA UnderLockKeepsCredentials ==
    ASSUME TypeOK, StoreInv, CredentialInv, NEW p \in Process, UnderLock(p) \/ DoOAuthRefresh(p)
    PROVE  CredentialInv'
<1> DEFINE mem == Reloaded(p)
           old == proc[p].mem
<1>1. /\ proc[p] \in Proc /\ proc[p].login \in Login /\ Role(proc[p])
      /\ \A q \in Process \ {p} : proc[p].pc \in Locked => proc[q].pc \notin Locked
  BY ProcessAssumption DEF StoreInv, Mutex, TypeOK, Proc
<1>2. mem \in Seq(Login) /\ old \in Seq(Login)
  BY ReloadedType DEF TypeOK, Proc
<1>3. ASSUME faults = 0, At(p, "locked")
      PROVE  \A i \in DOMAIN mem : mem[i].kind = "oauth" => Covered(mem[i].name)
  BY <1>3, ReloadedCovered
<1>4. ASSUME faults = 0, At(p, "net")
      PROVE  \A i \in DOMAIN old : old[i].kind = "oauth" => Covered(old[i].name)
  BY <1>1, <1>4 DEF CredentialInv, ListCovered, Adding, At, Role
<1> HIDE DEF mem, old
<1>5. CASE AddLogin(p)
  <2> DEFINE new == Append(mem, proc[p].login)
  <2>1. At(p, "locked") /\ proc[p].fn = "AddLogin"
    BY <1>5 DEF AddLogin, Runs
  <2>2. FnFails(p, mem) \/ FnSaves(p, new)
    BY <1>5 DEF AddLogin, mem
  <2>3. new \in Seq(Login) /\ \A i \in DOMAIN new :
            new[i] = proc[p].login \/ (i \in DOMAIN mem /\ new[i] = mem[i])
    BY <1>1, <1>2
  <2> HIDE DEF new
  <2>4. proc[p].login.kind = "oauth" => Adding(proc[p], proc[p].login.name)
    BY <1>1, <2>1 DEF Role, Adding
  <2>5. faults = 0 => \A i \in DOMAIN new : new[i].kind = "oauth" =>
            Covered(new[i].name) \/ Adding(proc[p], new[i].name)
    BY <1>3, <2>1, <2>3, <2>4
  <2> QED
    BY <1>2, <2>1, <2>2, <2>3, <2>5, FnKeepsCredentials
<1>6. CASE SetDefaultLogin(p)
  <2> DEFINE d == OnlyDefault(mem, proc[p].arg)
  <2>1. At(p, "locked") /\ (FnSaves(p, d) \/ FnFails(p, d))
    BY <1>6 DEF SetDefaultLogin, Runs, mem
  <2>2. d \in Seq(Login)
    BY <1>2, OnlyDefaultKeeps
  <2>3. ASSUME NEW i \in DOMAIN d
        PROVE  i \in DOMAIN mem /\ d[i].kind = mem[i].kind /\ d[i].name = mem[i].name
    <3> DEFINE flag == EqualFold(mem[i].name, proc[p].arg)
    <3>1. i \in DOMAIN mem /\ d[i] = [mem[i] EXCEPT !.default = flag]
      BY DEF OnlyDefault
    <3>2. mem[i] \in Login
      BY <1>2, <3>1
    <3> HIDE DEF flag, d
    <3> QED
      BY <3>1, <3>2 DEF Login
  <2> HIDE DEF d
  <2> QED
    BY <1>3, <2>1, <2>2, <2>3, FnKeepsCredentials
<1>7. CASE DeleteLogin(p)
  <2>1. At(p, "locked")
    BY <1>7 DEF DeleteLogin, Runs
  <2>2. CASE FnFails(p, mem)
    BY <1>2, <2>1, <2>2, FnKeepsCredentials
  <2>3. CASE ~FnFails(p, mem)
    <3> DEFINE s(i) == [proc[p] EXCEPT
                !.pc = IF mem[i].kind = "oauth" THEN "uncred" ELSE "save",
                !.login = mem[i], !.mem = Without(mem, i)]
    <3>1. PICK i \in DOMAIN mem : Local(p, s(i))
      BY <1>7, <2>3 DEF DeleteLogin, mem
    <3>2. s(i).mem = Without(mem, i)
      BY <1>1 DEF Proc
    <3> HIDE DEF s
    <3>3. Without(mem, i) \in Seq(Login)
      BY <1>2, WithoutKeeps
    <3>4. ASSUME NEW j \in DOMAIN Without(mem, i)
          PROVE  Without(mem, i)[j].name \in Name /\ \E k \in DOMAIN mem : Without(mem, i)[j] = mem[k]
      <4>1. Without(mem, i)[j] \in Login
        BY <3>3
      <4>2. \E k \in DOMAIN mem : Without(mem, i)[j] = mem[k]
        BY <1>2 DEF Without
      <4> QED
        BY <4>1, <4>2 DEF Login
    <3> QED
      BY <1>3, <2>1, <3>1, <3>2, <3>4, InsideKeepsCredentials
  <2> QED
    BY <2>2, <2>3
<1>8. CASE SaveLoginTokens(p)
  <2>1. At(p, "locked")
    BY <1>8 DEF SaveLoginTokens, Runs
  <2>2. CASE FnFails(p, mem)
    BY <1>2, <2>1, <2>2, FnKeepsCredentials
  <2>3. CASE ~FnFails(p, mem)
    <3> DEFINE l(i) == [mem[i] EXCEPT !.token = proc[p].login.token]
    <3>1. PICK i \in DOMAIN mem : FnSaves(p, [mem EXCEPT ![i] = l(i)])
      BY <1>8, <2>3 DEF SaveLoginTokens, mem
    <3>2. mem[i] \in Login
      BY <1>2
    <3>3. l(i) \in Login /\ l(i).kind = mem[i].kind /\ l(i).name = mem[i].name
      BY <1>1, <3>2 DEF Login
    <3> HIDE DEF l
    <3> DEFINE new == [mem EXCEPT ![i] = l(i)]
    <3>4. /\ new \in Seq(Login)
          /\ faults = 0 => \A j \in DOMAIN new : new[j].kind = "oauth" => Covered(new[j].name)
      BY <1>2, <1>3, <2>1, <3>3, EditCovered
    <3>5. FnSaves(p, new)
      BY <3>1
    <3> HIDE DEF new
    <3> QED
      BY <2>1, <3>4, <3>5, FnKeepsCredentials
  <2> QED
    BY <2>2, <2>3
<1>9. CASE RefreshOAuthToken(p)
  <2>1. At(p, "locked")
    BY <1>9 DEF RefreshOAuthToken, Runs
  <2>2. CASE FnFails(p, mem)
    BY <1>2, <2>1, <2>2, FnKeepsCredentials
  <2>3. CASE ~FnFails(p, mem)
    <3> DEFINE s(ph) == [proc[p] EXCEPT !.mem = mem, !.pc = ph]
    <3>1. PICK ph : Local(p, s(ph))
      BY <1>9, <2>3 DEF RefreshOAuthToken, mem
    <3>2. s(ph).mem = mem
      BY <1>1 DEF Proc
    <3> HIDE DEF s
    <3>3. ASSUME NEW i \in DOMAIN mem PROVE mem[i].name \in Name
      <4>1. mem[i] \in Login
        BY <1>2
      <4> QED
        BY <4>1 DEF Login
    <3> QED
      BY <1>3, <2>1, <3>1, <3>2, <3>3, InsideKeepsCredentials
  <2> QED
    BY <2>2, <2>3
<1>10. CASE DeleteOAuthToken(p)
  BY <1>10, DeleteKeepsCredentials
<1>11. CASE StoreRefreshedToken(p)
  <2>0. PICK s : s = [proc[p] EXCEPT !.pc = "unlock"]
    OBVIOUS
  <2>1. s.pc = "unlock" /\ proc[p].pc = "cred" /\ proc[p].tok \in Token
    BY <1>1, <1>11, <2>0 DEF StoreRefreshedToken, At, Role, Proc
  <2>2. /\ proc' = [proc EXCEPT ![p] = s] /\ UNCHANGED <<file, faults>>
        /\ creds' = [creds EXCEPT ![proc[p].login.name] = proc[p].tok]
    BY <1>11, <2>0 DEF StoreRefreshedToken
  <2>3. \A n : ~Pending(proc[p], n)
    BY <2>1 DEF Pending
  <2>4. \A n \in Name : Covered(n) => Covered(n)'
    BY <2>1, <2>2, <2>3, CoveredStays
  <2>5. ListCovered(s)'
    BY <2>1 DEF ListCovered
  <2> QED
    BY <2>1, <2>2, <2>4, <2>5, CredentialStep
<1>12. CASE Truncate(p) \/ Write(p)
  <2>0. PICK s, m : /\ s = [proc[p] EXCEPT !.pc = IF proc[p].pc = "save" THEN "write" ELSE "unlock"]
                    /\ m = old
    OBVIOUS
  <2>1. /\ proc[p].pc = "save" => s.pc = "write"
        /\ proc[p].pc # "save" => s.pc = "unlock"
        /\ s.mem = m /\ m = proc[p].mem /\ m \in Seq(Login) /\ s.cmd = proc[p].cmd /\ s.fn = proc[p].fn
        /\ s.login = proc[p].login /\ s.ok = proc[p].ok
    BY <1>1, <1>2, <2>0 DEF Proc, old
  <2>2. /\ proc' = [proc EXCEPT ![p] = s] /\ UNCHANGED <<creds, faults>>
        /\ \/ At(p, "save") /\ file'.logins = <<>>
           \/ At(p, "write") /\ file'.logins = m
    BY <1>12, <2>0 DEF Truncate, Write, At, Emptied, Yaml, old
  <2>3. proc'[p] = s /\ \A q \in Process \ {p} : proc'[q] = proc[q] /\ proc[q].pc \notin Locked
    BY <1>1, <2>2 DEF TypeOK, At, Locked
  <2>4. \A n \in Name : Covered(n) => Covered(n)'
    BY <2>2, QuietCovered DEF At
  <2>5. SUFFICES ASSUME faults = 0
                 PROVE  FileCovered' /\ \A q \in Process : ListCovered(proc[q])'
    BY <2>2 DEF CredentialInv
  <2>6. ASSUME NEW i \in DOMAIN m, m[i].kind = "oauth"
        PROVE  /\ Covered(m[i].name)' \/ Adding(s, m[i].name)
               /\ Adding(s, m[i].name) /\ s.pc = "unlock" => Pending(s, m[i].name)
    <3>1. m[i].name \in Name
      <4>1. m[i] \in Login
        BY <2>1
      <4> QED
        BY <4>1 DEF Login
    <3>2. Covered(m[i].name) \/ Adding(proc[p], m[i].name)
      BY <2>1, <2>2, <2>5, <2>6 DEF CredentialInv, ListCovered, At
    <3>3. ASSUME NEW n, n = m[i].name
          PROVE  /\ Covered(n)' \/ Adding(s, n)
                 /\ Adding(s, n) /\ s.pc = "unlock" => Pending(s, n)
      <4>1. Covered(n)' \/ Adding(s, n)
        BY <2>1, <2>4, <3>1, <3>2, <3>3 DEF Adding
      <4>2. Adding(s, n) /\ s.pc = "unlock" => Pending(s, n)
        BY <1>1, <2>1, <2>2 DEF Adding, Pending, Role, At
      <4> QED
        BY <4>1, <4>2
    <3> QED
      BY <3>3
  <2>7. FileCovered'
    BY <2>1, <2>2, <2>3, <2>6 DEF FileCovered, Covered, At
  <2>8. ListCovered(s)'
    BY <2>1, <2>6 DEF ListCovered
  <2>9. \A q \in Process : ListCovered(proc[q])'
    BY <2>3, <2>8 DEF ListCovered, Locked, Covered, Pending, Adding
  <2> QED
    BY <2>7, <2>9
<1>13. CASE DoOAuthRefresh(p)
  <2> DEFINE l(t) == [proc[p].login EXCEPT !.token = t]
  <2>1. At(p, "net")
    BY <1>13 DEF DoOAuthRefresh
  <2>2. CASE FnFails(p, old)
    BY <1>2, <2>1, <2>2, FnKeepsCredentials
  <2>3. ASSUME NEW t \in Token, Local(p, [proc[p] EXCEPT !.pc = "cred", !.tok = t])
        PROVE  CredentialInv'
    <3> DEFINE s == [proc[p] EXCEPT !.pc = "cred", !.tok = t]
    <3>1. s.pc = "cred"
      BY <1>1 DEF Proc
    <3>2. Local(p, s)
      BY <2>3
    <3> HIDE DEF s
    <3> QED
      BY <2>1, <3>1, <3>2, InsideKeepsCredentials
  <2>4. ASSUME NEW t \in Token, NEW i \in DOMAIN old, proc[p].login.kind = "legacy",
               FnSaves(p, [old EXCEPT ![i] = l(t)])
        PROVE  CredentialInv'
    <3>1. l(t) \in Login /\ l(t).kind = "legacy"
      BY <1>1, <2>4 DEF Login
    <3> HIDE DEF l
    <3> DEFINE new == [old EXCEPT ![i] = l(t)]
    <3>2. /\ new \in Seq(Login)
          /\ faults = 0 => \A j \in DOMAIN new : new[j].kind = "oauth" => Covered(new[j].name)
      BY <1>2, <1>4, <2>1, <3>1, EditCovered
    <3>3. FnSaves(p, new)
      BY <2>4
    <3> HIDE DEF new
    <3> QED
      BY <2>1, <3>2, <3>3, FnKeepsCredentials
  <2> QED
    BY <1>13, <2>2, <2>3, <2>4 DEF DoOAuthRefresh, old
<1>14. CASE Unlock(p)
  <2>0. PICK s : s = Resume(proc[p], proc[p].ok)
    OBVIOUS
  <2>1. s.pc \notin Locked
    BY <1>1, <2>0, ResumeRole DEF Proc
  <2>2. \A n : Pending(proc[p], n) => Pending(s, n)
    BY <1>1, <2>0 DEF Pending, Resume, Proc
  <2>3. proc' = [proc EXCEPT ![p] = s] /\ UNCHANGED <<file, creds, faults>> /\ At(p, "unlock")
    BY <1>14, <2>0 DEF Unlock
  <2>4. \A n \in Name : Covered(n) => Covered(n)'
    BY <2>2, <2>3, CoveredStays
  <2>5. ListCovered(s)'
    BY <2>1 DEF ListCovered, Locked
  <2> QED
    BY <2>3, <2>4, <2>5, CredentialStep DEF At
<1>15. CASE ReloadFails(p)
  <2>1. At(p, "locked") /\ FnFails(p, old)
    BY <1>15 DEF ReloadFails, old
  <2> QED
    BY <1>2, <2>1, FnKeepsCredentials
<1> QED
  BY <1>5, <1>6, <1>7, <1>8, <1>9, <1>10, <1>11, <1>12, <1>13, <1>14, <1>15 DEF UnderLock

\* As long as nothing fails a stored OAuth login has its credential, except
\* while the command that has added it is still to store it, or the one that
\* deletes it is still to save: between the commands the config file and the
\* credential store agree, though no step changes both.
THEOREM CredentialsAreKept == Spec => []CredentialComplete
<1>1. ASSUME Init PROVE CredentialInv
  <2>1. \A i \in DOMAIN file.logins : file.logins[i].kind = "oauth" => creds[file.logins[i].name] # NoToken
    <3> SUFFICES ASSUME NEW i \in DOMAIN file.logins, file.logins[i].kind = "oauth"
                 PROVE  creds[file.logins[i].name] # NoToken
      OBVIOUS
    <3>1. file.logins \in Seq(Login)
      BY <1>1, InitialLoginsAssumption DEF Init, Yaml
    <3>2. file.logins[i] \in Login
      BY <3>1
    <3>3. file.logins[i].name \in Name
      BY <3>2 DEF Login
    <3> QED
      BY <1>1, <3>3, NoTokenAssumption DEF Init
  <2>2. \A p \in Process : ListCovered(proc[p])
    BY <1>1 DEF Init, ListCovered, Exited
  <2> QED
    BY <2>1, <2>2 DEF CredentialInv, FileCovered, Covered
<1>2. ASSUME TypeOK, StoreInv, CredentialInv, [Next]_vars PROVE CredentialInv'
  <2>1. CASE UNCHANGED vars
    BY <1>2, <2>1 DEF CredentialInv, FileCovered, ListCovered, Covered, Pending, Adding,
                      Deleting, vars
  <2>2. ASSUME NEW p \in Process, AcquireLock(p) PROVE CredentialInv'
    <3>0. PICK s : s = [proc[p] EXCEPT !.pc = "locked"]
      OBVIOUS
    <3>1. s.pc = "locked"
      BY <1>2, <3>0 DEF TypeOK, Proc
    <3>2. proc' = [proc EXCEPT ![p] = s] /\ UNCHANGED <<file, creds, faults>> /\ At(p, "lock")
      BY <2>2, <3>0 DEF AcquireLock
    <3>3. \A n \in Name : Covered(n) => Covered(n)'
      BY <1>2, <3>2, QuietCovered DEF At
    <3>4. ListCovered(s)'
      BY <3>1 DEF ListCovered
    <3> QED
      BY <1>2, <3>2, <3>3, <3>4, CredentialStep DEF At
  <2>3. ASSUME NEW p \in Process, Faulty(p) PROVE CredentialInv'
    BY <1>2, <2>3, FaultEndsCredentials DEF Faulty, SaveFails, ReadFails, StoreFails, Crash
  <2>4. CASE Next
    BY <1>2, <2>2, <2>3, <2>4, OutsideKeepsCredentials, UnderLockKeepsCredentials
       DEF Next, Proceed, Remote
  <2> QED
    BY <1>2, <2>1, <2>4
<1>3. ASSUME TypeOK, CredentialInv PROVE CredentialComplete
  <2> SUFFICES ASSUME faults = 0, NEW i \in DOMAIN file.logins, file.logins[i].kind = "oauth"
               PROVE  LET n == file.logins[i].name IN
                      \/ creds[n] # NoToken
                      \/ \E p \in Process :
                          /\ proc[p].cmd = "oauth" /\ proc[p].login.name = n
                          /\ proc[p].fn = "AddLogin"
                          /\ proc[p].pc \in {"unlock", "post"}
                      \/ \E p \in Process :
                          /\ proc[p].fn = "DeleteLogin" /\ At(p, "save")
                          /\ EqualFold(proc[p].arg, n)
    BY DEF CredentialComplete
  <2>1. \/ Covered(file.logins[i].name)
        \/ \E p \in Process : Deleting(proc[p], file.logins[i].name)
    BY <1>3 DEF CredentialInv, FileCovered
  <2> QED
    BY <2>1 DEF Covered, Pending, Deleting, At, EqualFold
<1> QED
  BY <1>1, <1>2, <1>3, StoreTypeCorrect, StoreInvariance, PTL DEF Spec
=============================================================================
