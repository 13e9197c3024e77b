------------------------- MODULE TokenRefreshProofs -------------------------
(***************************************************************************)
(* Theorems about renewing tokens, for any number of processes, tokens and *)
(* losses and any lifetime, threshold and margin.                          *)
(*                                                                         *)
(* What a process stores may be a token it has read long ago.  It is not   *)
(* one that the server has dropped in between, because a refresh token is  *)
(* sent only when its access token has expired, and one that has expired   *)
(* is never stored again.  That is an invariant of all tokens in use.      *)
(***************************************************************************)
EXTENDS TokenRefresh, TLAPS

\* The tokens that are stored, in the memory of a process or on their way.
InUse(t) ==
    \/ t = FirstToken \/ t = stored
    \/ \E p \in Process : t = proc[p].copy \/ t = proc[p].got

\* p has a token to store, or one from the browser that nobody else has seen.
HasNew(p) == proc[p].pc \in {"store", "restore", "relock"}
FromBrowser(p) == proc[p].pc \in {"restore", "relock"}

IdsKnown == \A t \in Token : InUse(t) => t.id <= issued

IdsUnique == \A t, u \in Token : InUse(t) /\ InUse(u) /\ t.id = u.id => t = u

DroppedAreExpired ==
    \A t \in Token : InUse(t) /\ t.id \notin accepted => now > t.expiry - Margin

\* A token in the hands of doOAuthRefresh is sent only if it has expired.
SentAreExpired ==
    \A p \in Process : At(p, "sent") => now > proc[p].got.expiry - Margin

NewAreAccepted == \A p \in Process : HasNew(p) => proc[p].got.id \in accepted

BrowserTokenUnseen ==
    \A p \in Process : FromBrowser(p) =>
        /\ proc[p].got.id # 1 /\ proc[p].got.id # stored.id
        /\ \A q \in Process \ {p} :
             proc[p].got.id # proc[q].copy.id /\ proc[p].got.id # proc[q].got.id

\* The inductive invariant about the tokens in use, with TypeOK.
TokenInv ==
    /\ IdsKnown /\ IdsUnique /\ DroppedAreExpired /\ SentAreExpired
    /\ NewAreAccepted /\ BrowserTokenUnseen

\* The inductive invariant about the tokens that were sent, with those above.
UseInv ==
    authMethod = "oauth" /\ losses = 0 =>
        /\ \A k \in Id : asked[k] <= 1 /\ (k > issued => asked[k] = 0)
        /\ \A p \in Process :
             /\ ~At(p, "relock")
             /\ HasNew(p) => asked[proc[p].got.id] = 0
             /\ At(p, "sent") \/ At(p, "loaded") => proc[p].got.id \in accepted
             /\ At(p, "loaded") => asked[proc[p].got.id] = 0
        /\ \/ asked[stored.id] = 0
           \/ \E p \in Process : At(p, "sent") \/ At(p, "store")

----------------------------------------------------------------------------
(* Types                                                                   *)

\* A step that changes only p's own state keeps the types if the new state
\* has its type and enters the critical section only from within.
LEMMA LocalType ==
    ASSUME TypeOK, NEW p \in Process, NEW s \in Proc, Local(p, s),
           s.pc \in Critical => proc[p].pc \in Critical
    PROVE  TypeOK'
BY DEF TypeOK, Local, server

LEMMA FirstTokenType == FirstToken \in Token
BY TimeAssumption, BoundsAssumption DEF FirstToken, Token, Id

LEMMA ExitedType == Exited \in Proc
BY FirstTokenType DEF Exited, Proc, Phase

LEMMA FailedType ==
    ASSUME TypeOK, NEW p \in Process
    PROVE  Failed(p) \in Proc /\ Failed(p).pc \in {"idle", "browser"}
BY ExitedType DEF TypeOK, Failed, Proc, Phase, Exited

LEMMA TokenOfType ==
    ASSUME TypeOK, NEW p \in Process
    PROVE  TokenOf(p) \in Token
BY DEF TypeOK, TokenOf, Proc

\* What the server does when it issues a token.
LEMMA IssueType ==
    ASSUME TypeOK, NEW old, Issue(old)
    PROVE  /\ issued' \in Id /\ issued' = issued + 1
           /\ accepted' \subseteq 1 .. issued' /\ issued' \in accepted'
           /\ asked' = asked
           /\ NewToken \in Token /\ NewToken.id = issued'
<1>1. issued \in Nat /\ issued' = issued + 1 /\ issued' \in Id
  BY BoundsAssumption DEF TypeOK, Issue, Id
<1>2. accepted' \subseteq 1 .. issued' /\ issued' \in accepted'
  <2>1. accepted' \subseteq accepted \cup {issued'} /\ issued' \in accepted'
    BY Zenon DEF Issue
  <2>2. \A k \in accepted : k \in 1 .. issued'
    BY <1>1 DEF TypeOK
  <2>3. issued' \in 1 .. issued'
    BY <1>1
  <2> QED
    BY <2>1, <2>2, <2>3
<1>3. now + Lifetime \in 0 .. MaxTime + Lifetime
  BY TimeAssumption, BoundsAssumption DEF TypeOK
<1> QED
  BY <1>1, <1>2, <1>3 DEF Issue, NewToken, Token

\* Every variable keeps its type, and whoever is past the lock holds it
\* (RefreshOAuthToken, doOAuthRefresh in modules/config/login.go).
THEOREM RefreshTypeCorrect == Spec => []TypeOK
<1>1. Init => TypeOK
  BY ProcessAssumption, BoundsAssumption, FirstTokenType, ExitedType
     DEF Init, TypeOK, Id, Exited, Critical
<1>2. TypeOK /\ [Next]_vars => TypeOK'
  <2> SUFFICES ASSUME TypeOK, [Next]_vars PROVE TypeOK'
    OBVIOUS
  <2> USE ProcessAssumption
  <2>1. ASSUME NEW p \in Process, Start(p) PROVE TypeOK'
    <3> PICK manual \in BOOLEAN :
          Local(p, [Exited EXCEPT !.pc = IF manual THEN "lock" ELSE "check",
                      !.copy = stored, !.manual = manual])
      BY <2>1 DEF Start
    <3> QED
      BY ExitedType, LocalType DEF TypeOK, Proc, Phase, Critical
  <2>2. ASSUME NEW p \in Process, RefreshIfNeeded(p) PROVE TypeOK'
    <3>1. [proc[p] EXCEPT !.pc = "lock"] \in Proc
      BY DEF TypeOK, Proc, Phase
    <3> QED
      BY <2>2, <3>1, ExitedType, LocalType
         DEF RefreshIfNeeded, TypeOK, Proc, Critical, Exited
  <2>3. ASSUME NEW p \in Process, AcquireLock(p) PROVE TypeOK'
    BY <2>3 DEF AcquireLock, TypeOK, At, Proc, Phase, Critical, server
  <2>4. ASSUME NEW p \in Process, LockTimeout(p) PROVE TypeOK'
    BY <2>4, FailedType, LocalType DEF LockTimeout, Critical
  <2>5. ASSUME NEW p \in Process, DoubleCheck(p) PROVE TypeOK'
    <3>1. /\ [proc[p] EXCEPT !.pc = "unlock", !.ok = TRUE, !.copy = stored] \in Proc
          /\ [proc[p] EXCEPT !.pc = "source"] \in Proc
      BY DEF TypeOK, Proc, Phase
    <3> QED
      BY <2>5, <3>1, LocalType DEF DoubleCheck, At, Critical
  <2>6. ASSUME NEW p \in Process, TokenSource(p) PROVE TypeOK'
    <3> DEFINE t == proc[p].got
    <3>1. [proc[p] EXCEPT !.pc = "store"] \in Proc /\ [proc[p] EXCEPT !.pc = "sent"] \in Proc
      BY DEF TypeOK, Proc, Phase
    <3>2. CASE Local(p, [proc[p] EXCEPT !.pc = "store"])
      BY <2>6, <3>1, <3>2, LocalType DEF TokenSource, At, Critical
    <3>3. CASE /\ SendsRefreshToken(t)
               /\ proc' = [proc EXCEPT ![p] = [proc[p] EXCEPT !.pc = "sent"]]
               /\ UNCHANGED <<authMethod, now, stored, accepted, issued, losses, holder>>
      <4>1. asked' \in [Id -> 0 .. 2]
        <5>1. t.id \in Id
          BY DEF TypeOK, Proc, Token
        <5>2. (IF asked[t.id] = 2 THEN 2 ELSE asked[t.id] + 1) \in 0 .. 2
          BY <5>1 DEF TypeOK
        <5> HIDE DEF t
        <5> QED
          BY <3>3, <5>1, <5>2 DEF TypeOK, SendsRefreshToken
      <4>2. proc' \in [Process -> Proc]
            /\ \A q \in Process : proc'[q].pc \in Critical => holder = q
        BY <2>6, <3>1, <3>3 DEF TypeOK, TokenSource, At, Critical
      <4> QED
        BY <3>3, <4>1, <4>2 DEF TypeOK
    <3> QED
      BY <2>6, <3>2, <3>3 DEF TokenSource
  <2>18. ASSUME NEW p \in Process, LoadToken(p) PROVE TypeOK'
    <3>1. [proc[p] EXCEPT !.pc = "loaded", !.got = TokenOf(p)] \in Proc
      BY TokenOfType DEF TypeOK, Proc, Phase
    <3> QED
      BY <2>18, <3>1, LocalType DEF LoadToken, At, Critical
  <2>7. ASSUME NEW p \in Process, Granted(p) PROVE TypeOK'
    <3>1. [proc[p] EXCEPT !.pc = "store", !.got = NewToken] \in Proc
      BY <2>7, IssueType DEF Granted, TypeOK, Proc, Phase
    <3>2. /\ issued' \in Id /\ accepted' \subseteq 1 .. issued' /\ asked' = asked
          /\ UNCHANGED <<authMethod, now, stored, losses, holder>>
          /\ proc' = [proc EXCEPT ![p] = [proc[p] EXCEPT !.pc = "store", !.got = NewToken]]
          /\ proc[p].pc = "sent"
      BY <2>7, IssueType DEF Granted, At
    <3> HIDE DEF NewToken
    <3> QED
      BY <3>1, <3>2 DEF TypeOK, Critical
  <2>8. ASSUME NEW p \in Process, Rejected(p) PROVE TypeOK'
    <3>1. [proc[p] EXCEPT !.pc = "unlock"] \in Proc
      BY DEF TypeOK, Proc, Phase
    <3> QED
      BY <2>8, <3>1, LocalType DEF Rejected, At, Critical
  <2>9. ASSUME NEW p \in Process, AnswerLost(p) PROVE TypeOK'
    BY <2>9, IssueType, BoundsAssumption
       DEF AnswerLost, TypeOK, At, Proc, Phase, Critical
  <2>10. ASSUME NEW p \in Process, Store(p) PROVE TypeOK'
    <3>1. [proc[p] EXCEPT !.pc = "unlock", !.ok = TRUE, !.copy = proc[p].got]
            \in Proc /\ proc[p].got \in Token
      BY DEF TypeOK, Proc, Phase
    <3> QED
      BY <2>10, <3>1 DEF Store, TypeOK, At, Critical, server
  <2>11. ASSUME NEW p \in Process, Unlock(p) PROVE TypeOK'
    BY <2>11, FailedType, ExitedType
       DEF Unlock, TypeOK, At, Critical, server, Exited
  <2>12. ASSUME NEW p \in Process, Reauthenticate(p) PROVE TypeOK'
    <3>1. CASE Local(p, Exited)
      BY <3>1, ExitedType, LocalType DEF Exited, Critical
    <3>2. CASE ~Local(p, Exited)
      BY <2>12, <3>2, IssueType
         DEF Reauthenticate, TypeOK, At, Proc, Phase, Critical
    <3> QED
      BY <3>1, <3>2
  <2>13. ASSUME NEW p \in Process, StoreUnlocked(p) PROVE TypeOK'
    BY <2>13, ExitedType
       DEF StoreUnlocked, TypeOK, At, Proc, Critical, server, Exited
  <2>14. ASSUME NEW p \in Process, StoreFails(p) PROVE TypeOK'
    <3>1. [proc[p] EXCEPT !.pc = "unlock"] \in Proc
      BY DEF TypeOK, Proc, Phase
    <3> QED
      BY <2>14, <3>1, ExitedType, BoundsAssumption
         DEF StoreFails, TypeOK, At, Critical, server, Exited
  <2>15. ASSUME NEW p \in Process, Crash(p) PROVE TypeOK'
    BY <2>15, ExitedType, BoundsAssumption
       DEF Crash, TypeOK, At, Critical, server, Exited
  <2>16. CASE Tick
    BY <2>16, BoundsAssumption DEF Tick, TypeOK, server
  <2>17. CASE UNCHANGED vars
    BY <2>17 DEF vars, TypeOK, server
  <2> QED
    BY <2>1, <2>2, <2>3, <2>4, <2>5, <2>6, <2>7, <2>8, <2>9, <2>10, <2>11,
       <2>12, <2>13, <2>14, <2>15, <2>16, <2>17, <2>18 DEF Next, Refresh, Server
<1> QED
  BY <1>1, <1>2, PTL DEF Spec

----------------------------------------------------------------------------
(* The tokens in use                                                       *)

\* A step of p by which no token comes into use keeps the invariant.
LEMMA OldTokens ==
    ASSUME TypeOK, TokenInv, NEW p \in Process, NEW s \in Proc,
           proc' = [proc EXCEPT ![p] = s],
           s.copy \in {FirstToken, stored, proc[p].copy, proc[p].got},
           s.got \in {FirstToken, stored, proc[p].copy, proc[p].got},
           stored' \in {stored, proc[p].got},
           UNCHANGED <<accepted, issued, now>>,
           s.pc = "sent" => now > s.got.expiry - Margin,
           s.pc = "store" => s.got.id \in accepted,
           s.pc \notin {"restore", "relock"}
    PROVE  TokenInv'
<1> USE DEF At, HasNew, FromBrowser
<1>1. /\ proc'[p] = s /\ \A q \in Process \ {p} : proc'[q] = proc[q]
  BY DEF TypeOK
<1>2. \A t : InUse(t)' => InUse(t)
  BY <1>1, Zenon DEF InUse
<1>3. (IdsKnown /\ IdsUnique /\ DroppedAreExpired)'
  <2> HIDE DEF InUse
  <2> QED
    BY <1>2 DEF TokenInv, IdsKnown, IdsUnique, DroppedAreExpired
<1>4. (SentAreExpired /\ NewAreAccepted)'
  BY <1>1 DEF TokenInv, SentAreExpired, NewAreAccepted
<1>5. BrowserTokenUnseen'
  <2> SUFFICES ASSUME NEW q \in Process, FromBrowser(q)'
               PROVE  /\ proc'[q].got.id # 1 /\ proc'[q].got.id # stored'.id
                      /\ \A r \in Process \ {q} :
                           /\ proc'[q].got.id # proc'[r].copy.id
                           /\ proc'[q].got.id # proc'[r].got.id
    BY DEF BrowserTokenUnseen
  <2>1. q # p /\ FromBrowser(q) /\ proc'[q] = proc[q]
    BY <1>1
  <2>2. /\ proc[q].got.id # 1 /\ proc[q].got.id # stored.id
        /\ \A r \in Process \ {q} :
             proc[q].got.id # proc[r].copy.id /\ proc[q].got.id # proc[r].got.id
    BY <2>1 DEF TokenInv, BrowserTokenUnseen
  <2>3. FirstToken.id = 1
    BY DEF FirstToken
  <2> QED
    BY <1>1, <2>1, <2>2, <2>3
<1> QED
  BY <1>3, <1>4, <1>5 DEF TokenInv

\* A step of p by which the server issues a token keeps the invariant.
LEMMA NewTokens ==
    ASSUME TypeOK, TokenInv, NEW p \in Process, NEW s \in Proc, NEW old,
           proc' = [proc EXCEPT ![p] = s],
           Issue(old), old = {} \/ (old = {proc[p].got.id} /\ At(p, "sent")),
           s.copy = proc[p].copy, s.got \in {proc[p].got, NewToken},
           UNCHANGED <<stored, now>>,
           s.pc # "sent",
           s.pc \in {"store", "restore", "relock"} => s.got = NewToken
    PROVE  TokenInv'
<1> USE DEF At, HasNew, FromBrowser
<1>1. /\ proc'[p] = s /\ \A q \in Process \ {p} : proc'[q] = proc[q]
  BY DEF TypeOK
<1>2. /\ NewToken \in Token /\ NewToken.id = issued' /\ issued' = issued + 1
      /\ issued \in Nat /\ issued' \in accepted' /\ issued >= 1
  BY IssueType, BoundsAssumption DEF TypeOK, Id
<1>3. \A k : k \in accepted /\ k \notin accepted' => k = proc[p].got.id /\ At(p, "sent")
  BY Zenon DEF Issue
<1>4. \A k : k \in accepted' => k \in accepted \/ k = issued'
  BY Zenon DEF Issue
<1> HIDE DEF NewToken
<1>5. \A t : InUse(t)' => InUse(t) \/ t = NewToken
  BY <1>1, Zenon DEF InUse
<1>6. \A t \in Token : InUse(t) => t.id \in Nat /\ t.id <= issued /\ t.id # issued'
  BY <1>2 DEF TokenInv, IdsKnown, Token, Id
<1>7. InUse(stored) /\ \A q \in Process : InUse(proc[q].copy) /\ InUse(proc[q].got)
  BY DEF InUse
<1>8. stored \in Token /\ \A q \in Process : proc[q].copy \in Token /\ proc[q].got \in Token
  BY DEF TypeOK, Proc
<1> HIDE DEF InUse
<1>9. IdsKnown'
  BY <1>2, <1>5, <1>6 DEF IdsKnown
<1>10. IdsUnique'
  BY <1>2, <1>5, <1>6 DEF IdsUnique, TokenInv
<1>11. DroppedAreExpired'
  <2> SUFFICES ASSUME NEW t \in Token, InUse(t)', t.id \notin accepted'
               PROVE  now > t.expiry - Margin
    BY DEF DroppedAreExpired
  <2>1. InUse(t)
    BY <1>2, <1>5
  <2>2. CASE t.id \notin accepted
    BY <2>1, <2>2 DEF TokenInv, DroppedAreExpired
  <2>3. CASE t.id \in accepted
    <3>1. t = proc[p].got /\ At(p, "sent")
      BY <1>3, <1>7, <1>8, <2>1, <2>3 DEF TokenInv, IdsUnique
    <3> QED
      BY <3>1 DEF TokenInv, SentAreExpired
  <2> QED
    BY <2>2, <2>3
<1>12. SentAreExpired'
  BY <1>1 DEF TokenInv, SentAreExpired
<1>13. NewAreAccepted'
  <2> SUFFICES ASSUME NEW q \in Process, HasNew(q)' PROVE proc'[q].got.id \in accepted'
    BY DEF NewAreAccepted
  <2>1. CASE q = p
    BY <1>1, <1>2, <2>1
  <2>2. CASE q # p
    <3>1. proc'[q] = proc[q] /\ proc[q].got.id \in accepted /\ HasNew(q)
      BY <1>1, <2>2 DEF TokenInv, NewAreAccepted
    <3>2. At(p, "sent") => FromBrowser(q)
      BY <2>2, <3>1 DEF TypeOK, Critical
    <3>3. At(p, "sent") => proc[q].got.id # proc[p].got.id
      BY <2>2, <3>2 DEF TokenInv, BrowserTokenUnseen
    <3> QED
      BY <1>3, <3>1, <3>3
  <2> QED
    BY <2>1, <2>2
<1>14. BrowserTokenUnseen'
  <2> SUFFICES ASSUME NEW q \in Process, FromBrowser(q)'
               PROVE  /\ proc'[q].got.id # 1 /\ proc'[q].got.id # stored.id
                      /\ \A r \in Process \ {q} :
                           /\ proc'[q].got.id # proc'[r].copy.id
                           /\ proc'[q].got.id # proc'[r].got.id
    BY DEF BrowserTokenUnseen
  <2>1. CASE q = p
    <3>1. proc'[q].got.id = issued' /\ issued' # 1
      BY <1>1, <1>2, <2>1
    <3> QED
      BY <1>1, <1>6, <1>7, <1>8, <2>1, <3>1
  <2>2. CASE q # p
    <3>1. proc'[q] = proc[q] /\ FromBrowser(q)
      BY <1>1, <2>2
    <3>2. /\ proc[q].got.id # 1 /\ proc[q].got.id # stored.id
          /\ \A r \in Process \ {q} :
               proc[q].got.id # proc[r].copy.id /\ proc[q].got.id # proc[r].got.id
      BY <3>1 DEF TokenInv, BrowserTokenUnseen
    <3>3. proc[q].got.id # NewToken.id
      BY <1>2, <1>6, <1>7, <1>8
    <3> QED
      BY <1>1, <3>1, <3>2, <3>3
  <2> QED
    BY <2>1, <2>2
<1> QED
  BY <1>9, <1>10, <1>11, <1>12, <1>13, <1>14 DEF TokenInv

LEMMA TokenOfInUse ==
    ASSUME TypeOK, NEW p \in Process
    PROVE  TokenOf(p) \in {stored, proc[p].copy} /\ InUse(TokenOf(p))
BY DEF TokenOf, InUse

\* A step of p's own that leaves its tokens as they are, or gives them up.
LEMMA LocalTokens ==
    ASSUME TypeOK, TokenInv, NEW p \in Process, NEW s \in Proc,
           proc' = [proc EXCEPT ![p] = s],
           UNCHANGED <<stored, accepted, issued, now>>,
           s.copy \in {FirstToken, stored, proc[p].copy, proc[p].got},
           s.got \in {FirstToken, proc[p].got},
           s.pc \notin {"sent", "store", "restore", "relock"}
    PROVE  TokenInv'
BY OldTokens

LEMMA TokenInvStep == TypeOK /\ TokenInv /\ [Next]_vars => TokenInv'
<1> SUFFICES ASSUME TypeOK, TokenInv, [Next]_vars PROVE TokenInv'
  OBVIOUS
<1> USE DEF Local, server
<1>e. /\ Exited \in Proc /\ Exited.copy = FirstToken /\ Exited.got = FirstToken
      /\ Exited.pc = "idle"
  BY ExitedType DEF Exited
<1>f. ASSUME NEW p \in Process
      PROVE  /\ Failed(p) \in Proc /\ Failed(p).pc \in {"idle", "browser"}
             /\ Failed(p).copy \in {FirstToken, proc[p].copy}
             /\ Failed(p).got \in {FirstToken, proc[p].got}
  BY FailedType, <1>e DEF Failed, TypeOK, Proc
<1>l. ASSUME NEW p \in Process, NEW ph \in Phase
      PROVE  LET s == [proc[p] EXCEPT !.pc = ph]
             IN  s \in Proc /\ s.pc = ph /\ s.copy = proc[p].copy /\ s.got = proc[p].got
  BY DEF TypeOK, Proc
<1>1. ASSUME NEW p \in Process, Start(p) PROVE TokenInv'
  <2> PICK manual \in BOOLEAN :
        Local(p, [Exited EXCEPT !.pc = IF manual THEN "lock" ELSE "check",
                    !.copy = stored, !.manual = manual])
    BY <1>1 DEF Start
  <2> DEFINE s == [Exited EXCEPT !.pc = IF manual THEN "lock" ELSE "check",
                     !.copy = stored, !.manual = manual]
  <2>1. s \in Proc /\ s.copy = stored /\ s.got = FirstToken /\ s.pc \in {"lock", "check"}
    BY <1>e DEF TypeOK, Proc, Phase
  <2>2. proc' = [proc EXCEPT ![p] = s] /\ UNCHANGED <<stored, accepted, issued, now>>
    OBVIOUS
  <2> HIDE DEF s
  <2> QED
    BY <2>1, <2>2, LocalTokens
<1>2. ASSUME NEW p \in Process, RefreshIfNeeded(p) PROVE TokenInv'
  BY <1>2, <1>e, <1>l, LocalTokens DEF RefreshIfNeeded, Phase
<1>3. ASSUME NEW p \in Process, AcquireLock(p) PROVE TokenInv'
  <2> DEFINE s == [proc[p] EXCEPT !.pc = IF @ = "lock" THEN "locked" ELSE "store"]
  <2>1. /\ s \in Proc /\ s.copy = proc[p].copy /\ s.got = proc[p].got
        /\ s.pc \in {"locked", "store"} /\ (s.pc = "store" => HasNew(p))
        /\ proc' = [proc EXCEPT ![p] = s]
    BY <1>3 DEF AcquireLock, At, TypeOK, Proc, Phase, HasNew
  <2>2. s.pc = "store" => s.got.id \in accepted
    BY <2>1 DEF TokenInv, NewAreAccepted
  <2> HIDE DEF s
  <2> QED
    BY <1>3, <2>1, <2>2, OldTokens DEF AcquireLock
<1>4. ASSUME NEW p \in Process, LockTimeout(p) PROVE TokenInv'
  BY <1>4, <1>f, LocalTokens DEF LockTimeout
<1>5. ASSUME NEW p \in Process, DoubleCheck(p) PROVE TokenInv'
  <2> DEFINE s == [proc[p] EXCEPT !.pc = "unlock", !.ok = TRUE, !.copy = stored]
  <2>1. s \in Proc /\ s.copy = stored /\ s.got = proc[p].got /\ s.pc = "unlock"
    BY DEF TypeOK, Proc, Phase
  <2>2. Local(p, s) \/ Local(p, [proc[p] EXCEPT !.pc = "source"])
    BY <1>5 DEF DoubleCheck
  <2> HIDE DEF s
  <2>3. CASE Local(p, s)
    BY <2>1, <2>3, LocalTokens
  <2>4. CASE Local(p, [proc[p] EXCEPT !.pc = "source"])
    BY <2>4, <1>l, LocalTokens DEF Phase
  <2> QED
    BY <2>2, <2>3, <2>4
<1>6. ASSUME NEW p \in Process, TokenSource(p) PROVE TokenInv'
  <2> DEFINE t == proc[p].got
             s(ph) == [proc[p] EXCEPT !.pc = ph]
  <2>1. t \in Token /\ InUse(t)
    BY DEF TypeOK, Proc, InUse
  <2>2. \A ph \in Phase :
          s(ph) \in Proc /\ s(ph).pc = ph /\ s(ph).copy = proc[p].copy /\ s(ph).got = t
    BY <1>l
  <2>3. /\ UNCHANGED <<stored, accepted, issued, now>>
        /\ \/ now <= t.expiry - Margin /\ proc' = [proc EXCEPT ![p] = s("store")]
           \/ now > t.expiry - Margin /\ proc' = [proc EXCEPT ![p] = s("sent")]
    BY <1>6 DEF TokenSource
  <2> HIDE DEF s
  <2>4. CASE now <= t.expiry - Margin /\ proc' = [proc EXCEPT ![p] = s("store")]
    <3>1. t.id \in accepted
      BY <2>1, <2>4, TimeAssumption, BoundsAssumption
         DEF TokenInv, DroppedAreExpired, TypeOK, Token
    <3>2. "store" \in Phase
      BY DEF Phase
    <3> QED
      BY <2>2, <2>3, <2>4, <3>1, <3>2, OldTokens
  <2>5. CASE now > t.expiry - Margin /\ proc' = [proc EXCEPT ![p] = s("sent")]
    <3>1. "sent" \in Phase
      BY DEF Phase
    <3> QED
      BY <2>2, <2>3, <2>5, <3>1, OldTokens
  <2> QED
    BY <2>3, <2>4, <2>5
<1>18. ASSUME NEW p \in Process, LoadToken(p) PROVE TokenInv'
  <2> DEFINE s == [proc[p] EXCEPT !.pc = "loaded", !.got = TokenOf(p)]
  <2>1. TokenOf(p) \in Token /\ TokenOf(p) \in {stored, proc[p].copy}
    BY TokenOfType, TokenOfInUse
  <2>2. s \in Proc /\ s.copy = proc[p].copy /\ s.got = TokenOf(p) /\ s.pc = "loaded"
    BY <2>1 DEF TypeOK, Proc, Phase
  <2>3. proc' = [proc EXCEPT ![p] = s] /\ UNCHANGED <<stored, accepted, issued, now>>
    BY <1>18 DEF LoadToken
  <2> HIDE DEF s
  <2> QED
    BY <2>1, <2>2, <2>3, OldTokens
<1>7. ASSUME NEW p \in Process, Granted(p) PROVE TokenInv'
  <2> DEFINE s == [proc[p] EXCEPT !.pc = "store", !.got = NewToken]
  <2>1. NewToken \in Token
    BY <1>7, IssueType DEF Granted
  <2>2. s \in Proc /\ s.copy = proc[p].copy /\ s.got = NewToken /\ s.pc = "store"
    BY <2>1 DEF TypeOK, Proc, Phase
  <2>3. proc' = [proc EXCEPT ![p] = s]
    BY <1>7 DEF Granted
  <2> HIDE DEF s, NewToken
  <2> QED
    BY <1>7, <2>2, <2>3, NewTokens DEF Granted
<1>8. ASSUME NEW p \in Process, Rejected(p) PROVE TokenInv'
  BY <1>8, <1>l, LocalTokens DEF Rejected, Phase
<1>9. ASSUME NEW p \in Process, AnswerLost(p) PROVE TokenInv'
  BY <1>9, <1>l, NewTokens DEF AnswerLost, Phase
<1>10. ASSUME NEW p \in Process, Store(p) PROVE TokenInv'
  <2> DEFINE s == [proc[p] EXCEPT !.pc = "unlock", !.ok = TRUE, !.copy = proc[p].got]
  <2>1. s \in Proc /\ s.copy = proc[p].got /\ s.got = proc[p].got /\ s.pc = "unlock"
    BY DEF TypeOK, Proc, Phase
  <2>2. proc' = [proc EXCEPT ![p] = s]
    BY <1>10 DEF Store
  <2> HIDE DEF s
  <2> QED
    BY <1>10, <2>1, <2>2, OldTokens DEF Store
<1>11. ASSUME NEW p \in Process, Unlock(p) PROVE TokenInv'
  BY <1>11, <1>e, <1>f, LocalTokens DEF Unlock
<1>12. ASSUME NEW p \in Process, Reauthenticate(p) PROVE TokenInv'
  <2>1. CASE Local(p, Exited)
    BY <2>1, <1>e, LocalTokens
  <2>2. CASE ~Local(p, Exited)
    <3> DEFINE s == [proc[p] EXCEPT !.got = NewToken, !.manual = FALSE,
                       !.pc = IF authMethod = "oauth" THEN "restore" ELSE "relock"]
    <3>1. Issue({}) /\ UNCHANGED <<stored, now>> /\ proc' = [proc EXCEPT ![p] = s]
      BY <1>12, <2>2 DEF Reauthenticate
    <3>2. NewToken \in Token
      BY <3>1, IssueType
    <3>3. s \in Proc /\ s.copy = proc[p].copy /\ s.got = NewToken /\ s.pc # "sent"
      BY <3>2 DEF TypeOK, Proc, Phase
    <3> HIDE DEF s, NewToken
    <3> QED
      BY <3>1, <3>3, NewTokens
  <2> QED
    BY <2>1, <2>2
<1>13. ASSUME NEW p \in Process, StoreUnlocked(p) PROVE TokenInv'
  BY <1>13, <1>e, OldTokens DEF StoreUnlocked
<1>14. ASSUME NEW p \in Process, StoreFails(p) PROVE TokenInv'
  BY <1>14, <1>e, <1>l, LocalTokens DEF StoreFails, Phase
<1>15. ASSUME NEW p \in Process, Crash(p) PROVE TokenInv'
  BY <1>15, <1>e, LocalTokens DEF Crash
<1>16. CASE Tick
  <2>1. \A t : InUse(t)' <=> InUse(t)
    BY <1>16 DEF Tick, InUse
  <2>2. /\ \A p \in Process : proc[p].got \in Token
        /\ \A t \in Token : t.expiry \in Nat /\ Margin \in Nat
        /\ now \in Nat /\ now' = now + 1
    BY <1>16, TimeAssumption, BoundsAssumption DEF Tick, TypeOK, Proc, Token
  <2>3. UNCHANGED <<stored, accepted, issued, proc>>
    BY <1>16 DEF Tick
  <2> HIDE DEF InUse
  <2>4. (IdsKnown /\ IdsUnique)'
    BY <2>1, <2>3 DEF TokenInv, IdsKnown, IdsUnique
  <2>5. (DroppedAreExpired /\ SentAreExpired)'
    BY <2>1, <2>2, <2>3 DEF TokenInv, DroppedAreExpired, SentAreExpired, At
  <2>6. (NewAreAccepted /\ BrowserTokenUnseen)'
    BY <2>3 DEF TokenInv, NewAreAccepted, BrowserTokenUnseen, HasNew, FromBrowser
  <2> QED
    BY <2>4, <2>5, <2>6 DEF TokenInv
<1>17. CASE UNCHANGED vars
  BY <1>17 DEF vars, TokenInv, IdsKnown, IdsUnique, DroppedAreExpired,
     SentAreExpired, NewAreAccepted, BrowserTokenUnseen, HasNew, FromBrowser, InUse, At
<1> QED
  BY <1>1, <1>2, <1>3, <1>4, <1>5, <1>6, <1>7, <1>8, <1>9, <1>10, <1>11,
     <1>12, <1>13, <1>14, <1>15, <1>16, <1>17, <1>18 DEF Next, Refresh, Server

LEMMA TokenInvariant == Spec => []TokenInv
<1>1. Init => TokenInv
  BY TimeAssumption, FirstTokenType
     DEF Init, TokenInv, IdsKnown, IdsUnique, DroppedAreExpired, SentAreExpired,
         NewAreAccepted, BrowserTokenUnseen, HasNew, FromBrowser, InUse, At,
         Exited, FirstToken
<1> QED
  BY <1>1, TokenInvStep, RefreshTypeCorrect, PTL DEF Spec

----------------------------------------------------------------------------
(* What the server is asked                                                *)

\* A process stores a token only if the server accepts it.
LEMMA StoredAcceptedStep ==
    TypeOK /\ TokenInv /\ StoredTokenAccepted /\ [Next]_vars => StoredTokenAccepted'
<1> SUFFICES ASSUME TypeOK, TokenInv, StoredTokenAccepted, [Next]_vars, losses' = 0
             PROVE  \/ stored'.id \in accepted'
                    \/ \E p \in Process : At(p, "store")' /\ proc'[p].got.id \in accepted'
  BY DEF StoredTokenAccepted
<1> USE DEF At, server
<1>1. CASE \E p \in Process : Granted(p)
  <2> PICK p \in Process : Granted(p)
    BY <1>1
  <2>1. issued' \in accepted' /\ NewToken.id = issued'
    BY IssueType DEF Granted
  <2>2. proc'[p].pc = "store" /\ proc'[p].got = NewToken
    BY DEF Granted, TypeOK, Proc
  <2> QED
    BY <2>1, <2>2
<1>2. CASE \E p \in Process : Store(p) \/ StoreUnlocked(p)
  BY <1>2 DEF Store, StoreUnlocked, TokenInv, NewAreAccepted, HasNew
<1>3. CASE \E p \in Process : StoreFails(p) \/ Crash(p) \/ AnswerLost(p)
  BY <1>3 DEF StoreFails, Crash, AnswerLost, TypeOK
<1>4. ASSUME losses' = losses, stored' = stored, accepted \subseteq accepted',
             \A p \in Process : At(p, "store") => proc'[p] = proc[p]
      PROVE  \/ stored'.id \in accepted'
             \/ \E p \in Process : At(p, "store")' /\ proc'[p].got.id \in accepted'
  BY <1>4 DEF StoredTokenAccepted
<1>5. CASE \E p \in Process : Reauthenticate(p)
  BY <1>4, <1>5 DEF Reauthenticate, Issue, Local, TypeOK
<1>6. CASE \E p \in Process : Start(p) \/ RefreshIfNeeded(p) \/ LockTimeout(p)
             \/ DoubleCheck(p) \/ LoadToken(p) \/ Rejected(p)
  BY <1>4, <1>6
     DEF Start, RefreshIfNeeded, LockTimeout, DoubleCheck, LoadToken, Rejected, Local, TypeOK
<1>7. CASE \E p \in Process : AcquireLock(p) \/ Unlock(p)
  BY <1>4, <1>7 DEF AcquireLock, Unlock, TypeOK
<1>8. CASE \E p \in Process : TokenSource(p)
  BY <1>4, <1>8 DEF TokenSource, Local, TypeOK
<1>9. CASE Tick \/ UNCHANGED vars
  BY <1>4, <1>9 DEF Tick, vars
<1> QED
  BY <1>1, <1>2, <1>3, <1>5, <1>6, <1>7, <1>8, <1>9 DEF Next, Refresh, Server

\* Unless an answer was lost, the server accepts the stored refresh token or
\* its successor is about to be stored (doOAuthRefresh and
\* SaveOAuthTokenFromOAuth2 in modules/config/login.go).
THEOREM StoredTokenIsAccepted == Spec => []StoredTokenAccepted
<1>1. Init => StoredTokenAccepted
  BY DEF Init, StoredTokenAccepted, FirstToken
<1> QED
  BY <1>1, StoredAcceptedStep, RefreshTypeCorrect, TokenInvariant, PTL DEF Spec

\* A step of p that neither asks nor stores keeps UseInv.
LEMMA UseInvLocal ==
    ASSUME TypeOK, UseInv, authMethod = "oauth", losses = 0,
           NEW p \in Process, NEW s \in Proc, proc' = [proc EXCEPT ![p] = s],
           UNCHANGED <<stored, accepted, asked, issued>>,
           ~At(p, "sent"), ~At(p, "store"),
           s.pc \notin {"loaded", "sent", "store", "restore", "relock"}
    PROVE  UseInv'
<1>1. /\ proc'[p] = s /\ \A q \in Process \ {p} : proc'[q] = proc[q]
  BY DEF TypeOK
<1> QED
  BY <1>1 DEF UseInv, At, HasNew

LEMMA UseInvStep ==
    TypeOK /\ TokenInv /\ StoredTokenAccepted /\ UseInv /\ [Next]_vars => UseInv'
<1> SUFFICES ASSUME TypeOK, TokenInv, StoredTokenAccepted, UseInv, [Next]_vars,
                    authMethod' = "oauth", losses' = 0
             PROVE  UseInv'
  BY DEF UseInv
<1> USE DEF At, server, Local
<1>1. authMethod = "oauth" /\ losses = 0
  <2>1. UNCHANGED authMethod
    BY DEF Next, Refresh, Server, Start, RefreshIfNeeded, AcquireLock, LockTimeout,
       DoubleCheck, LoadToken, TokenSource, Granted, Rejected, AnswerLost, Store, Unlock,
       Reauthenticate, StoreUnlocked, StoreFails, Crash, Tick, vars
  <2>2. losses' = losses \/ losses' = losses + 1
    BY DEF Next, Refresh, Server, Start, RefreshIfNeeded, AcquireLock, LockTimeout,
       DoubleCheck, LoadToken, TokenSource, Granted, Rejected, AnswerLost, Store, Unlock,
       Reauthenticate, StoreUnlocked, StoreFails, Crash, Tick, vars
  <2> QED
    BY <2>1, <2>2, BoundsAssumption DEF TypeOK
\* What UseInv says of this state.
<1>2. /\ \A k \in Id : asked[k] <= 1 /\ (k > issued => asked[k] = 0)
      /\ \A p \in Process :
           /\ proc[p].pc # "relock"
           /\ HasNew(p) => asked[proc[p].got.id] = 0
           /\ proc[p].pc \in {"sent", "loaded"} => proc[p].got.id \in accepted
           /\ proc[p].pc = "loaded" => asked[proc[p].got.id] = 0
      /\ \/ asked[stored.id] = 0
         \/ \E p \in Process : proc[p].pc = "sent" \/ proc[p].pc = "store"
  BY <1>1 DEF UseInv
<1>3. ASSUME NEW p \in Process, NEW q \in Process,
             proc[p].pc \in Critical, proc[q].pc \in Critical
      PROVE  p = q
  BY <1>3 DEF TypeOK
<1>4. ASSUME NEW p \in Process, NEW ph \in Phase
      PROVE  LET s == [proc[p] EXCEPT !.pc = ph] IN s \in Proc /\ s.pc = ph
  BY DEF TypeOK, Proc
<1>5. ASSUME NEW p \in Process, Start(p) PROVE UseInv'
  <2> PICK manual \in BOOLEAN :
        Local(p, [Exited EXCEPT !.pc = IF manual THEN "lock" ELSE "check",
                    !.copy = stored, !.manual = manual])
    BY <1>5 DEF Start
  <2> DEFINE s == [Exited EXCEPT !.pc = IF manual THEN "lock" ELSE "check",
                     !.copy = stored, !.manual = manual]
  <2>1. s \in Proc /\ s.pc \in {"lock", "check"}
    BY ExitedType DEF TypeOK, Proc, Phase
  <2>2. proc' = [proc EXCEPT ![p] = s] /\ UNCHANGED <<stored, accepted, asked, issued>>
    OBVIOUS
  <2> HIDE DEF s
  <2> QED
    BY <1>1, <1>5, <2>1, <2>2, UseInvLocal DEF Start
<1>6. ASSUME NEW p \in Process, RefreshIfNeeded(p) PROVE UseInv'
  BY <1>1, <1>4, <1>6, ExitedType, UseInvLocal DEF RefreshIfNeeded, Phase, Exited
<1>7. ASSUME NEW p \in Process, AcquireLock(p) PROVE UseInv'
  <2>1. proc' = [proc EXCEPT ![p] = [proc[p] EXCEPT !.pc = "locked"]]
    BY <1>2, <1>7 DEF AcquireLock, TypeOK, Proc
  <2> QED
    BY <1>1, <1>4, <1>7, <2>1, UseInvLocal DEF AcquireLock, Phase
<1>8. ASSUME NEW p \in Process, LockTimeout(p) \/ Unlock(p) PROVE UseInv'
  BY <1>1, <1>8, FailedType, ExitedType, UseInvLocal DEF LockTimeout, Unlock, Exited
<1>9. ASSUME NEW p \in Process, DoubleCheck(p) PROVE UseInv'
  <2> DEFINE s == [proc[p] EXCEPT !.pc = "unlock", !.ok = TRUE, !.copy = stored]
  <2>1. s \in Proc /\ s.pc = "unlock"
    BY DEF TypeOK, Proc, Phase
  <2>2. \/ proc' = [proc EXCEPT ![p] = s]
        \/ proc' = [proc EXCEPT ![p] = [proc[p] EXCEPT !.pc = "source"]]
    BY <1>9 DEF DoubleCheck
  <2> HIDE DEF s
  <2> QED
    BY <1>1, <1>4, <1>9, <2>1, <2>2, UseInvLocal DEF DoubleCheck, Phase
<1>18. ASSUME NEW p \in Process, LoadToken(p) PROVE UseInv'
  <2>1. TokenOf(p) = stored /\ proc[p].pc = "source"
    BY <1>1, <1>18 DEF TokenOf, LoadToken
  <2>2. \A q \in Process : proc[q].pc \notin {"sent", "store"}
    BY <1>3, <2>1 DEF Critical
  <2>3. asked[stored.id] = 0 /\ stored.id \in accepted
    BY <1>1, <1>2, <2>2 DEF StoredTokenAccepted
  <2>4. proc'[p].pc = "loaded" /\ proc'[p].got = stored
    BY <1>18, <2>1 DEF LoadToken, TypeOK, Proc
  <2>5. /\ \A q \in Process \ {p} : proc'[q] = proc[q]
        /\ UNCHANGED <<stored, accepted, issued, asked>>
    BY <1>18 DEF LoadToken, TypeOK
  <2> QED
    BY <1>2, <2>3, <2>4, <2>5 DEF UseInv, HasNew
<1>10. ASSUME NEW p \in Process, TokenSource(p) PROVE UseInv'
  <2> DEFINE k == proc[p].got.id
  <2>1. proc[p].pc = "loaded" /\ k \in Id /\ k \in accepted /\ asked[k] = 0
    BY <1>2, <1>10 DEF TokenSource, TypeOK, Proc, Token
  <2>2. \A q \in Process \ {p} : proc[q].pc \notin {"loaded", "sent", "store"}
    BY <1>3, <2>1 DEF Critical
  <2>3. k <= issued
    BY DEF TokenInv, IdsKnown, InUse, TypeOK, Proc
  <2>4. \A q \in Process \ {p} : proc'[q] = proc[q]
    BY <1>10 DEF TokenSource, TypeOK
  <2>5. UNCHANGED <<stored, accepted, issued>>
    BY <1>10 DEF TokenSource
  <2>6. \/ proc'[p].pc = "store" /\ proc'[p].got = proc[p].got /\ asked' = asked
        \/ /\ proc'[p].pc = "sent" /\ proc'[p].got = proc[p].got
           /\ asked' = [asked EXCEPT ![k] = 1]
    <3>1. SendsRefreshToken(proc[p].got) => asked' = [asked EXCEPT ![k] = 1]
      BY <2>1 DEF SendsRefreshToken
    <3>2. \/ proc' = [proc EXCEPT ![p] = [proc[p] EXCEPT !.pc = "store"]] /\ asked' = asked
          \/ /\ proc' = [proc EXCEPT ![p] = [proc[p] EXCEPT !.pc = "sent"]]
             /\ SendsRefreshToken(proc[p].got)
      BY <1>10 DEF TokenSource
    <3> QED
      BY <3>1, <3>2 DEF TypeOK, Proc
  <2>7. CASE proc'[p].pc = "store" /\ proc'[p].got = proc[p].got /\ asked' = asked
    BY <1>2, <2>1, <2>2, <2>4, <2>5, <2>7 DEF UseInv, HasNew
  <2>8. CASE /\ proc'[p].pc = "sent" /\ proc'[p].got = proc[p].got
             /\ asked' = [asked EXCEPT ![k] = 1]
    <3>1. \A q \in Process \ {p} : HasNew(q) => proc[q].got.id # k
      BY <2>2 DEF HasNew, TokenInv, BrowserTokenUnseen, FromBrowser
    <3>2. \A q \in Process : proc[q].got.id \in Id
      BY DEF TypeOK, Proc, Token
    <3>3. asked'[k] = 1 /\ \A j \in Id \ {k} : asked'[j] = asked[j]
      BY <2>1, <2>8 DEF TypeOK
    <3>4. \A j \in Id : asked'[j] <= 1 /\ (j > issued => asked'[j] = 0)
      BY <1>2, <2>3, <3>3, BoundsAssumption DEF TypeOK, Id
    <3>5. \A q \in Process :
            /\ proc'[q].pc # "relock"
            /\ HasNew(q)' => asked'[proc'[q].got.id] = 0
            /\ proc'[q].pc \in {"sent", "loaded"} => proc'[q].got.id \in accepted'
            /\ proc'[q].pc = "loaded" => asked'[proc'[q].got.id] = 0
      BY <1>2, <2>1, <2>2, <2>4, <2>5, <2>8, <3>1, <3>2, <3>3 DEF HasNew
    <3> QED
      BY <2>5, <2>8, <3>4, <3>5 DEF UseInv
  <2> QED
    BY <2>6, <2>7, <2>8
<1>11. ASSUME NEW p \in Process, Granted(p) PROVE UseInv'
  <2>1. /\ issued' \in Id /\ issued' = issued + 1 /\ asked' = asked
        /\ NewToken.id = issued' /\ issued \in Nat
    BY <1>11, IssueType, BoundsAssumption DEF Granted, TypeOK, Id
  <2>2. /\ proc'[p].pc = "store" /\ proc'[p].got = NewToken /\ proc[p].pc = "sent"
        /\ \A q \in Process \ {p} : proc'[q] = proc[q]
    BY <1>11 DEF Granted, TypeOK, Proc
  <2>3. \A q \in Process \ {p} : proc[q].pc \notin {"sent", "loaded"}
    BY <1>3, <2>2 DEF Critical
  <2>4. asked[issued'] = 0 /\ \A k \in Id : k > issued' => asked[k] = 0
    BY <1>2, <2>1, BoundsAssumption DEF Id
  <2> HIDE DEF NewToken
  <2> QED
    BY <1>2, <2>1, <2>2, <2>3, <2>4 DEF UseInv, HasNew
<1>12. ASSUME NEW p \in Process, Rejected(p) PROVE UseInv'
  BY <1>2, <1>12 DEF Rejected
<1>13. ASSUME NEW p \in Process, Store(p) PROVE UseInv'
  <2>1. /\ proc'[p].pc = "unlock" /\ asked[proc[p].got.id] = 0
        /\ \A q \in Process \ {p} : proc'[q] = proc[q]
    BY <1>2, <1>13 DEF Store, TypeOK, Proc, HasNew
  <2> QED
    <3>1. stored' = proc[p].got /\ UNCHANGED <<accepted, asked, issued>>
      BY <1>13 DEF Store
    <3> QED
      BY <1>2, <2>1, <3>1 DEF UseInv, HasNew
<1>14. ASSUME NEW p \in Process, StoreUnlocked(p) PROVE UseInv'
  <2>1. /\ proc'[p].pc = "idle" /\ asked[proc[p].got.id] = 0
        /\ \A q \in Process \ {p} : proc'[q] = proc[q]
    BY <1>2, <1>14 DEF StoreUnlocked, TypeOK, Exited, HasNew
  <2> QED
    BY <1>2, <1>14, <2>1 DEF StoreUnlocked, UseInv, HasNew
<1>15. ASSUME NEW p \in Process, Reauthenticate(p) PROVE UseInv'
  <2>1. CASE Local(p, Exited)
    BY <1>1, <1>15, <2>1, ExitedType, UseInvLocal DEF Reauthenticate, Exited
  <2>2. CASE ~Local(p, Exited)
    <3>1. /\ Issue({}) /\ stored' = stored /\ proc[p].pc = "browser"
          /\ proc'[p].pc = "restore" /\ proc'[p].got = NewToken
          /\ \A q \in Process \ {p} : proc'[q] = proc[q]
      BY <1>1, <1>15, <2>2 DEF Reauthenticate, TypeOK, Proc
    <3>2. /\ issued' \in Id /\ issued' = issued + 1 /\ asked' = asked
          /\ NewToken.id = issued' /\ issued \in Nat
      BY <3>1, IssueType, BoundsAssumption DEF TypeOK, Id
    <3>3. asked[issued'] = 0 /\ \A k \in Id : k > issued' => asked[k] = 0
      BY <1>2, <3>2, BoundsAssumption DEF Id
    <3>4. \A k \in accepted : k \in accepted'
      BY <3>1, Zenon DEF Issue
    <3> HIDE DEF NewToken
    <3> QED
      BY <1>2, <3>1, <3>2, <3>3, <3>4 DEF UseInv, HasNew
  <2> QED
    BY <2>1, <2>2
<1>16. CASE \E p \in Process : AnswerLost(p) \/ StoreFails(p) \/ Crash(p)
  BY <1>1, <1>16 DEF AnswerLost, StoreFails, Crash
<1>17. CASE Tick \/ UNCHANGED vars
  BY <1>17 DEF Tick, vars, UseInv, HasNew
<1> QED
  BY <1>5, <1>6, <1>7, <1>8, <1>9, <1>10, <1>11, <1>12, <1>13, <1>14, <1>15,
     <1>16, <1>17, <1>18 DEF Next, Refresh, Server

\* However many processes find a token near its expiry, its refresh token is
\* sent once, unless an answer is lost (the double check under the lock in
\* RefreshOAuthToken, modules/config/login.go).
THEOREM TokensAreUsedOnce == Spec => []RefreshTokenUsedOnce
<1>1. Init => UseInv
  BY BoundsAssumption DEF Init, UseInv, At, HasNew, Exited, FirstToken, Id
<1>2. UseInv => RefreshTokenUsedOnce
  BY DEF UseInv, RefreshTokenUsedOnce
<1> QED
  BY <1>1, <1>2, UseInvStep, StoredTokenIsAccepted, RefreshTypeCorrect,
     TokenInvariant, PTL DEF Spec
=============================================================================
