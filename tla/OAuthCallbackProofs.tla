------------------------- MODULE OAuthCallbackProofs -------------------------
(***************************************************************************)
(* Theorems about the browser flow, for any set of requests and of state   *)
(* parameters.                                                             *)
(*                                                                         *)
(* What the command receives it receives from a channel, so the properties *)
(* need to say where the values in the channels come from: a handler sends *)
(* a code or a state only for a redirect with a code that has arrived, and *)
(* a request that has arrived is never forgotten.                          *)
(***************************************************************************)
EXTENDS OAuthCallback, TLAPS

\* The redirects that have arrived and carry a code.
Redirect == Requests("code")

\* Only their handlers send to the channels of codes and states.
SendersAreRedirects ==
    \A c \in Callback : handler[c] \in {"sendCode", "sendState"} => c \in Redirect

\* What is in a channel, or has been received, comes from one of them.
CodesAreSent ==
    /\ \A i \in DOMAIN codeChan : codeChan[i] \in Redirect
    /\ code # <<>> => \E c \in Redirect : code = <<c>>
StatesAreSent ==
    /\ \A i \in DOMAIN stateChan : \E c \in Redirect : stateChan[i] = query[c].state
    /\ state # <<>> => \E c \in Redirect : state = <<query[c].state>>

\* The command has what it acts on, and acts on what it has.
FlowFollows ==
    /\ flow \in {"state", "check", "exchange", "token", "mismatch"} => code # <<>>
    /\ flow \in {"check", "exchange", "token", "mismatch"} => state # <<>>
    /\ flow \in {"exchange", "token"} => state = <<OwnState>>
    /\ flow = "mismatch" => state # <<OwnState>>

\* The inductive invariant.
RedirectInv == SendersAreRedirects /\ CodesAreSent /\ StatesAreSent /\ FlowFollows

----------------------------------------------------------------------------
(* Channels.                                                               *)

LEMMA EmptyChannel == \A S : <<>> \in Seq(S) /\ Len(<<>>) = 0
OBVIOUS

\* A send into a channel with room, and a receive, keep the channel's type and
\* its bound; a receive takes what was sent.
LEMMA SendKeeps ==
    ASSUME NEW S, NEW ch \in Seq(S), NEW x \in S, HasRoom(ch)
    PROVE  /\ Append(ch, x) \in Seq(S)
           /\ Len(Append(ch, x)) <= ChannelCapacity
           /\ \A i \in DOMAIN Append(ch, x) :
                 Append(ch, x)[i] = x \/ (i \in DOMAIN ch /\ Append(ch, x)[i] = ch[i])
BY DEF HasRoom, ChannelCapacity

LEMMA ReceiveKeeps ==
    ASSUME NEW S, NEW ch \in Seq(S), ch # <<>>, Len(ch) <= ChannelCapacity
    PROVE  /\ Head(ch) \in S /\ Head(ch) = ch[1] /\ 1 \in DOMAIN ch
           /\ Tail(ch) = <<>> /\ Tail(ch) \in Seq(S) /\ Len(Tail(ch)) <= ChannelCapacity
BY DEF ChannelCapacity

----------------------------------------------------------------------------
(* Types                                                                   *)

\* Every variable keeps its type, and no channel ever holds more than its
\* room, however many requests arrive (performBrowserOAuthFlow).
THEOREM CallbackTypeCorrect == Spec => []TypeOK
<1>1. Init => TypeOK
  BY EmptyChannel DEF Init, TypeOK, Flow, Server, Serve, Phase, Channel, ChannelCapacity
<1>2. ASSUME TypeOK, [Next]_vars
      PROVE  TypeOK'
  <2> USE <1>2 DEF TypeOK, Channel
  <2>1. ASSUME NEW c \in Callback, Arrive(c) \/ Handle(c) \/ Answer(c)
        PROVE  TypeOK'
    <3>1. query[c] \in Query
      OBVIOUS
    <3>2. handler' \in [Callback -> Phase]
      BY <2>1, <3>1 DEF Arrive, Handle, Answer, Move, Phase, Query
    <3>3. page' \in [Callback -> {"none", "ok", "bad request", "not found", "lost"}]
      BY <2>1, <3>1 DEF Arrive, Handle, Answer, Reply, Query
    <3> QED
      BY <2>1, <3>2, <3>3 DEF Arrive, Handle, Answer, channels, received
  <2>2. ASSUME NEW c \in Callback, SendError(c) PROVE TypeOK'
    <3>0. c \in Callback \cup {"server"} /\ errChan \in Seq(Callback \cup {"server"})
      OBVIOUS
    <3>1. errChan' \in Seq(Callback \cup {"server"}) /\ Len(errChan') <= ChannelCapacity
      BY <2>2, <3>0, SendKeeps DEF SendError
    <3> QED
      BY <2>2, <3>1 DEF SendError, Move, Phase, received
  <2>3. ASSUME NEW c \in Callback, SendCode(c) PROVE TypeOK'
    <3>1. codeChan' \in Seq(Callback) /\ Len(codeChan') <= ChannelCapacity
      BY <2>3, SendKeeps DEF SendCode
    <3> QED
      BY <2>3, <3>1 DEF SendCode, Move, Phase, received
  <2>4. ASSUME NEW c \in Callback, SendState(c) PROVE TypeOK'
    <3>1. query[c].state \in State
      BY OwnStateAssumption DEF Query
    <3>2. stateChan' \in Seq(State) /\ Len(stateChan') <= ChannelCapacity
      BY <2>4, <3>1, SendKeeps DEF SendState
    <3> QED
      BY <2>4, <3>2 DEF SendState, Move, Phase, received
  <2>5. CASE SendServeError
    <3>0. "server" \in Callback \cup {"server"} /\ errChan \in Seq(Callback \cup {"server"})
      OBVIOUS
    <3>1. errChan' \in Seq(Callback \cup {"server"}) /\ Len(errChan') <= ChannelCapacity
      BY <2>5, <3>0, SendKeeps DEF SendServeError
    <3> QED
      BY <2>5, <3>1 DEF SendServeError, Serve, requests, received
  <2>6. CASE ServeFails \/ Close \/ ListenFails \/ Listen \/ OpenBrowser
                \/ Timeout \/ CheckState \/ Exchange
    BY <2>6 DEF ServeFails, Close, ListenFails, Listen, OpenBrowser, Timeout, CheckState,
                Exchange, requests, channels, received, Flow, Server, Serve
  <2>7. CASE ReceiveCode
    <3>1. Head(codeChan) \in Callback /\ codeChan' \in Seq(Callback) /\ Len(codeChan') <= ChannelCapacity
      BY <2>7, ReceiveKeeps DEF ReceiveCode
    <3>2. code' \in {<<c>> : c \in Callback}
      BY <2>7, <3>1 DEF ReceiveCode
    <3> QED
      BY <2>7, <3>1, <3>2 DEF ReceiveCode, requests, Flow
  <2>8. CASE ReceiveError
    <3>1. errChan' \in Seq(Callback \cup {"server"}) /\ Len(errChan') <= ChannelCapacity
      BY <2>8, ReceiveKeeps DEF ReceiveError
    <3> QED
      BY <2>8, <3>1 DEF ReceiveError, requests, received, Flow, Server
  <2>9. CASE ReceiveState
    <3>1. Head(stateChan) \in State /\ stateChan' \in Seq(State) /\ Len(stateChan') <= ChannelCapacity
      BY <2>9, ReceiveKeeps DEF ReceiveState
    <3>2. state' \in {<<s>> : s \in State}
      BY <2>9, <3>1 DEF ReceiveState
    <3> QED
      BY <2>9, <3>1, <3>2 DEF ReceiveState, requests, Flow, Server
  <2>10. CASE UNCHANGED vars
    BY <2>10 DEF vars, requests, channels, received
  <2> QED
    BY <2>1, <2>2, <2>3, <2>4, <2>5, <2>6, <2>7, <2>8, <2>9, <2>10 DEF Next, Handler, Wait
<1> QED
  BY <1>1, <1>2, PTL DEF Spec

----------------------------------------------------------------------------
(* Where codes and states come from                                        *)

\* A request that has arrived stays, with its query; a step of a handler is
\* that of a request that has arrived.
LEMMA RedirectsStay ==
    ASSUME TypeOK, [Next]_vars
    PROVE  query' = query /\ Redirect \subseteq Redirect'
<1>1. query' = query
  BY DEF Next, vars, Arrive, Handler, Handle, SendError, SendCode, SendState, Answer,
         ServeFails, SendServeError, Close, ListenFails, Listen, OpenBrowser, Wait,
         ReceiveCode, ReceiveError, Timeout, ReceiveState, CheckState, Exchange, requests
<1>2. ASSUME NEW c \in Callback, handler[c] # "none" PROVE handler'[c] # "none"
  <2>1. ASSUME NEW d \in Callback, Arrive(d) \/ Handler(d) PROVE handler'[c] # "none"
    <3>1. query[d] \in Query
      BY DEF TypeOK
    <3> QED
      BY <1>2, <2>1, <3>1 DEF TypeOK, Arrive, Handler, Handle, SendError, SendCode,
                               SendState, Answer, Move, Query
  <2> QED
    BY <1>2, <2>1 DEF Next, vars, ServeFails, SendServeError, Close, ListenFails, Listen,
         OpenBrowser, Wait, ReceiveCode, ReceiveError, Timeout, ReceiveState, CheckState,
         Exchange, requests
<1> QED
  BY <1>1, <1>2 DEF Redirect, Requests

LEMMA RedirectInvInductive ==
    /\ Init => RedirectInv
    /\ TypeOK /\ RedirectInv /\ [Next]_vars => RedirectInv'
<1>1. Init => RedirectInv
  BY DEF Init, RedirectInv, SendersAreRedirects, CodesAreSent, StatesAreSent, FlowFollows
<1>2. ASSUME TypeOK, RedirectInv, [Next]_vars
      PROVE  RedirectInv'
  <2>0. query' = query /\ Redirect \subseteq Redirect'
    BY <1>2, RedirectsStay
  \* A step that sends nothing and receives nothing.
  <2> DEFINE Quiet == UNCHANGED <<codeChan, stateChan, code, state>>
  <2>1. ASSUME Quiet PROVE CodesAreSent' /\ StatesAreSent'
    BY <1>2, <2>0, <2>1 DEF RedirectInv, CodesAreSent, StatesAreSent
  <2>2. ASSUME UNCHANGED <<flow, code, state>> PROVE FlowFollows'
    BY <1>2, <2>2 DEF RedirectInv, FlowFollows
  <2>3. ASSUME handler' = handler PROVE SendersAreRedirects'
    BY <1>2, <2>0, <2>3 DEF RedirectInv, SendersAreRedirects
  <2>4. ASSUME NEW c \in Callback, Arrive(c) \/ Handle(c) \/ SendError(c) \/ Answer(c)
        PROVE  RedirectInv'
    <3>1. \A d \in Callback : d # c => handler'[d] = handler[d]
      BY <1>2, <2>4 DEF TypeOK, Arrive, Handle, SendError, Answer, Move
    <3>2. handler'[c] \in {"sendCode", "sendState"} => handler[c] = "start" /\ query[c].kind = "code"
      <4>1. query[c] \in Query
        BY <1>2 DEF TypeOK
      <4> QED
        BY <1>2, <2>4, <4>1 DEF TypeOK, Arrive, Handle, SendError, Answer, Move, Query
    <3>3. SendersAreRedirects'
      BY <1>2, <2>0, <3>1, <3>2 DEF RedirectInv, SendersAreRedirects, Redirect, Requests
    <3> QED
      BY <2>1, <2>2, <2>4, <3>3
         DEF RedirectInv, Arrive, Handle, SendError, Answer, channels, received
  <2>5. ASSUME NEW c \in Callback, SendCode(c) \/ SendState(c)
        PROVE  RedirectInv'
    <3>1. c \in Redirect /\ query[c].state \in State
      BY <1>2, <2>5, OwnStateAssumption
         DEF TypeOK, RedirectInv, SendersAreRedirects, SendCode, SendState, Query
    <3>2. SendersAreRedirects'
      BY <1>2, <2>0, <2>5, <3>1
         DEF TypeOK, RedirectInv, SendersAreRedirects, SendCode, SendState, Move
    <3>3. CodesAreSent' /\ StatesAreSent'
      <4>1. CASE SendCode(c)
        <5>0. codeChan \in Seq(Callback) /\ HasRoom(codeChan) /\ codeChan' = Append(codeChan, c)
          BY <1>2, <4>1 DEF TypeOK, Channel, SendCode
        <5>1. \A i \in DOMAIN codeChan' :
                codeChan'[i] = c \/ (i \in DOMAIN codeChan /\ codeChan'[i] = codeChan[i])
          BY <5>0, SendKeeps
        <5> QED
          BY <1>2, <2>0, <3>1, <4>1, <5>1
             DEF RedirectInv, CodesAreSent, StatesAreSent, SendCode, received
      <4>2. CASE SendState(c)
        <5>0. /\ stateChan \in Seq(State) /\ HasRoom(stateChan)
              /\ stateChan' = Append(stateChan, query[c].state)
          BY <1>2, <4>2 DEF TypeOK, Channel, SendState
        <5>1. \A i \in DOMAIN stateChan' :
                stateChan'[i] = query[c].state
                  \/ (i \in DOMAIN stateChan /\ stateChan'[i] = stateChan[i])
          BY <3>1, <5>0, SendKeeps
        <5> QED
          BY <1>2, <2>0, <3>1, <4>2, <5>1
             DEF RedirectInv, CodesAreSent, StatesAreSent, SendState, received
      <4> QED
        BY <2>5, <4>1, <4>2
    <3> QED
      BY <2>2, <2>5, <3>2, <3>3 DEF RedirectInv, SendCode, SendState, received
  <2>6. CASE ServeFails \/ SendServeError \/ Close \/ UNCHANGED vars
    BY <2>1, <2>2, <2>3, <2>6
       DEF RedirectInv, ServeFails, SendServeError, Close, vars, requests, channels, received
  <2>7. CASE ListenFails \/ Listen \/ OpenBrowser \/ ReceiveError \/ Timeout
                \/ CheckState \/ Exchange
    <3>1. FlowFollows'
      BY <1>2, <2>7 DEF RedirectInv, FlowFollows, ListenFails, Listen, OpenBrowser,
           ReceiveError, Timeout, CheckState, Exchange, received
    <3> QED
      BY <2>1, <2>3, <2>7, <3>1 DEF RedirectInv, ListenFails, Listen, OpenBrowser,
           ReceiveError, Timeout, CheckState, Exchange, requests, channels, received
  <2>8. CASE ReceiveCode
    <3>1. Head(codeChan) = codeChan[1] /\ 1 \in DOMAIN codeChan /\ codeChan' = <<>>
      BY <1>2, <2>8, ReceiveKeeps DEF TypeOK, Channel, ReceiveCode
    <3>2. CodesAreSent' /\ StatesAreSent'
      BY <1>2, <2>0, <2>8, <3>1
         DEF RedirectInv, CodesAreSent, StatesAreSent, ReceiveCode
    <3>3. FlowFollows'
      BY <2>8 DEF FlowFollows, ReceiveCode
    <3> QED
      BY <2>3, <2>8, <3>2, <3>3 DEF RedirectInv, ReceiveCode, requests
  <2>9. CASE ReceiveState
    <3>1. Head(stateChan) = stateChan[1] /\ 1 \in DOMAIN stateChan /\ stateChan' = <<>>
      BY <1>2, <2>9, ReceiveKeeps DEF TypeOK, Channel, ReceiveState
    <3>2. CodesAreSent' /\ StatesAreSent'
      BY <1>2, <2>0, <2>9, <3>1
         DEF RedirectInv, CodesAreSent, StatesAreSent, ReceiveState
    <3>3. FlowFollows'
      BY <1>2, <2>9 DEF RedirectInv, FlowFollows, ReceiveState
    <3> QED
      BY <2>3, <2>9, <3>2, <3>3 DEF RedirectInv, ReceiveState, requests
  <2> QED
    BY <1>2, <2>4, <2>5, <2>6, <2>7, <2>8, <2>9 DEF Next, Handler, Wait
<1> QED
  BY <1>1, <1>2

LEMMA RedirectInvariant == Spec => []RedirectInv
BY RedirectInvInductive, CallbackTypeCorrect, PTL DEF Spec

\* A login is given up because of the state parameter only if a redirect with
\* another one has arrived, however many requests overlap.
THEOREM MismatchIsForeign == Spec => []MismatchHasCause
<1>1. RedirectInv => MismatchHasCause
  BY DEF RedirectInv, StatesAreSent, FlowFollows, MismatchHasCause, Redirect
<1> QED
  BY <1>1, RedirectInvariant, PTL

----------------------------------------------------------------------------
(* Which state goes with which code                                        *)

\* The handler of c has sent its state, or not yet.
Sent(c) == handler[c] \in {"answer", "done"} /\ query[c].kind = "code"
Sending(c) == handler[c] = "sendState"

\* Before the command has received a code, at most one is on its way, and the
\* only state on its way is that of the same redirect.
FirstPair ==
    flow \in {"listen", "browser", "wait"} =>
        \/ /\ codeChan = <<>> /\ stateChan = <<>>
           /\ \A c \in Callback : ~Sending(c)
        \/ \E c \in Callback :
            /\ codeChan = <<c>>
            /\ \A d \in Callback : Sending(d) => d = c
            /\ \/ Sending(c) /\ stateChan = <<>>
               \/ Sent(c) /\ stateChan = <<query[c].state>>

\* Once it has, a state that waits is that of the same redirect, or of one that
\* has overtaken it.
CodeThenState ==
    flow = "state" =>
        \E c \in Callback :
            /\ code = <<c>>
            /\ \/ Sent(c) /\ stateChan = <<query[c].state>>
               \/ Sending(c) /\ stateChan = <<>>
               \/ /\ Sending(c)
                  /\ \E d \in Callback \ {c} : Sent(d) /\ stateChan = <<query[d].state>>

PairInv == FirstPair /\ CodeThenState

LEMMA PairInvInductive ==
    /\ Init => PairInv
    /\ TypeOK /\ RedirectInv /\ PairInv /\ [Next]_vars => PairInv'
<1>1. Init => PairInv
  BY DEF Init, PairInv, FirstPair, CodeThenState, Sending
<1>2. ASSUME TypeOK, RedirectInv, PairInv, [Next]_vars
      PROVE  PairInv'
  <2>0. query' = query
    BY <1>2, RedirectsStay
  <2>1. ASSUME flow' = flow, UNCHANGED <<codeChan, stateChan, code>>,
               \A c \in Callback : (Sending(c)' <=> Sending(c)) /\ (Sent(c) => Sent(c)')
        PROVE  PairInv'
    <3>1. FirstPair'
      BY <1>2, <2>0, <2>1 DEF PairInv, FirstPair
    <3>2. CodeThenState'
      BY <1>2, <2>0, <2>1 DEF PairInv, CodeThenState
    <3> QED
      BY <3>1, <3>2 DEF PairInv
  <2>2. ASSUME NEW c \in Callback, Arrive(c) \/ Handle(c) \/ SendError(c) \/ Answer(c)
        PROVE  PairInv'
    <3>1. query[c] \in Query
      BY <1>2 DEF TypeOK
    <3>2. \A d \in Callback : (Sending(d)' <=> Sending(d)) /\ (Sent(d) => Sent(d)')
      BY <1>2, <2>0, <2>2, <3>1
         DEF Sending, Sent, TypeOK, Query, Arrive, Handle, SendError, Answer, Move
    <3> QED
      BY <2>1, <2>2, <3>2 DEF Arrive, Handle, SendError, Answer, channels, received
  <2>3. ASSUME NEW c \in Callback, SendCode(c)
        PROVE  PairInv'
    <3>1. /\ codeChan = <<>> /\ codeChan' = <<c>> /\ UNCHANGED <<flow, stateChan, code>>
          /\ handler[c] = "sendCode" /\ handler' = [handler EXCEPT ![c] = "sendState"]
      <4>1. codeChan \in Seq(Callback) /\ Len(codeChan) < 1
        BY <1>2, <2>3 DEF TypeOK, Channel, SendCode, HasRoom, ChannelCapacity
      <4>2. codeChan = <<>>
        BY <4>1
      <4>3. Append(codeChan, c) = <<c>>
        BY <4>2
      <4> QED
        BY <2>3, <4>2, <4>3 DEF SendCode, Move, received
    <3>2. /\ Sending(c)' /\ ~Sent(c) /\ ~Sending(c)
          /\ \A d \in Callback : d # c => (Sending(d)' <=> Sending(d)) /\ (Sent(d) => Sent(d)')
      BY <1>2, <2>0, <3>1 DEF Sending, Sent, TypeOK
    <3>3. FirstPair'
      BY <1>2, <3>1, <3>2 DEF PairInv, FirstPair
    <3>4. CodeThenState'
      BY <1>2, <2>0, <3>1, <3>2 DEF PairInv, CodeThenState
    <3> QED
      BY <3>3, <3>4 DEF PairInv
  <2>4. ASSUME NEW c \in Callback, SendState(c)
        PROVE  PairInv'
    <3>1. /\ stateChan = <<>> /\ stateChan' = <<query[c].state>> /\ Sending(c)
          /\ UNCHANGED <<flow, codeChan, code>>
          /\ handler' = [handler EXCEPT ![c] = "answer"]
      <4>1. stateChan \in Seq(State) /\ Len(stateChan) < 1
        BY <1>2, <2>4 DEF TypeOK, Channel, SendState, HasRoom, ChannelCapacity
      <4>2. stateChan = <<>>
        BY <4>1
      <4> QED
        BY <2>4, <4>2 DEF SendState, Move, Sending, received
    <3>2. query[c].kind = "code"
      BY <1>2, <3>1 DEF RedirectInv, SendersAreRedirects, Sending, Redirect, Requests
    <3>3. /\ Sent(c)' /\ ~Sending(c)'
          /\ \A d \in Callback : d # c => (Sending(d)' <=> Sending(d)) /\ (Sent(d) => Sent(d)')
      BY <1>2, <2>0, <3>1, <3>2 DEF Sending, Sent, TypeOK
    <3>4. FirstPair'
      BY <1>2, <2>0, <3>1, <3>3 DEF PairInv, FirstPair
    <3>5. CodeThenState'
      BY <1>2, <2>0, <3>1, <3>3 DEF PairInv, CodeThenState
    <3> QED
      BY <3>4, <3>5 DEF PairInv
  <2>5. CASE ServeFails \/ SendServeError \/ Close \/ UNCHANGED vars
    BY <2>0, <2>1, <2>5 DEF ServeFails, SendServeError, Close, vars, requests, channels,
                            received, Sending, Sent
  <2>6. CASE ListenFails \/ Listen \/ OpenBrowser \/ ReceiveError \/ Timeout
                \/ CheckState \/ Exchange \/ ReceiveState
    <3>1. flow' # "state"
      BY <2>6 DEF ListenFails, Listen, OpenBrowser, ReceiveError, Timeout, CheckState,
                  Exchange, ReceiveState
    <3>2. flow' \in {"listen", "browser", "wait"} =>
            /\ flow \in {"listen", "browser", "wait"}
            /\ UNCHANGED <<codeChan, stateChan, handler>>
      BY <2>6 DEF ListenFails, Listen, OpenBrowser, ReceiveError, Timeout, CheckState,
                  Exchange, ReceiveState, requests, channels
    <3> QED
      BY <1>2, <2>0, <3>1, <3>2 DEF PairInv, FirstPair, CodeThenState, Sending, Sent
  <2>7. CASE ReceiveCode
    <3>1. PICK c \in Callback :
            /\ codeChan = <<c>>
            /\ \/ Sending(c) /\ stateChan = <<>>
               \/ Sent(c) /\ stateChan = <<query[c].state>>
      BY <1>2, <2>7 DEF PairInv, FirstPair, ReceiveCode
    <3>2. code' = <<c>> /\ flow' = "state" /\ UNCHANGED <<stateChan, handler>>
      BY <2>7, <3>1 DEF ReceiveCode, requests
    <3> QED
      BY <2>0, <3>1, <3>2 DEF PairInv, FirstPair, CodeThenState, Sending, Sent
  <2> QED
    BY <1>2, <2>2, <2>3, <2>4, <2>5, <2>6, <2>7 DEF Next, Handler, Wait
<1> QED
  BY <1>1, <1>2

\* The state that is checked is that of the redirect whose code is exchanged,
\* unless another redirect has overtaken it between the two sends of its
\* handler (startLocalServerAndOpenBrowser in modules/auth/oauth.go).
THEOREM CodeAndStateBelongTogether == Spec => StateComesWithCode
<1>1. ASSUME TypeOK, RedirectInv, PairInv, Next, flow = "state", flow' = "check"
      PROVE  \E c \in Requests("code") :
                /\ code = <<c>>
                /\ \/ state' = <<query[c].state>>
                   \/ /\ handler[c] = "sendState"
                      /\ \E d \in Requests("code") \ {c} :
                            /\ handler[d] \in {"answer", "done"}
                            /\ state' = <<query[d].state>>
  <2>1. ReceiveState
    BY <1>1 DEF Next, Arrive, Handler, Handle, SendError, SendCode, SendState, Answer,
         ServeFails, SendServeError, Close, ListenFails, Listen, OpenBrowser, Wait,
         ReceiveCode, ReceiveError, Timeout, CheckState, Exchange
  <2>2. stateChan # <<>> /\ state' = <<Head(stateChan)>>
    BY <2>1 DEF ReceiveState
  <2>3. PICK c \in Callback :
          /\ code = <<c>>
          /\ \/ Sent(c) /\ state' = <<query[c].state>>
             \/ /\ Sending(c)
                /\ \E d \in Callback \ {c} : Sent(d) /\ state' = <<query[d].state>>
    BY <1>1, <2>2 DEF PairInv, CodeThenState
  <2>4. query[c].kind = "code"
    BY <1>1, <2>3 DEF RedirectInv, SendersAreRedirects, Redirect, Requests, Sent, Sending
  <2> QED
    BY <2>3, <2>4 DEF Sent, Sending, Requests
<1> QED
  BY <1>1, PairInvInductive, CallbackTypeCorrect, RedirectInvariant, PTL
     DEF Spec, StateComesWithCode
=============================================================================
