--------------------------- MODULE OAuthCallback ---------------------------
(***************************************************************************)
(* The browser half of login add --oauth and of a reauthentication:        *)
(* performBrowserOAuthFlow in modules/auth/oauth.go.  The command starts a *)
(* local HTTP server, opens the browser and waits for the redirect that    *)
(* carries the authorization code, an error, or a minute to pass.  Every   *)
(* request runs its handler in a goroutine of its own, and the handlers    *)
(* talk to the command through three channels with room for one value.     *)
(*                                                                         *)
(* A callback stands for one request and for the code it carries.          *)
(***************************************************************************)
EXTENDS Naturals, Sequences

CONSTANTS
    Callback,   \* requests that may reach the local server
    State,      \* state parameters of this and of earlier login attempts
    OwnState    \* the one this attempt has sent

ASSUME OwnStateAssumption == OwnState \in State

VARIABLES
    flow,       \* where the command is
    server,     \* the local server, from net.Listen to server.Close
    serve,      \* the goroutine that runs server.Serve
    handler,    \* handler[c]: where the goroutine of request c is
    query,      \* query[c]: what request c asks
    page,       \* page[c]: what the browser shows for request c
    codeChan, stateChan, errChan,
    code,       \* the callback whose code the command has received
    state       \* the state parameter it has received, as a sequence

channels == <<codeChan, stateChan, errChan>>
requests == <<handler, query, page>>
received == <<code, state>>
vars == <<flow, server, serve, requests, channels, received>>

\* A request for another path, a refusal, a redirect without a code, and
\* the redirects with a code and a state parameter.
Query == [kind : {"notfound", "error", "nocode"}, state : {OwnState}]
    \cup [kind : {"code"}, state : State]

Phase == {"none", "start", "sendError", "sendCode", "sendState", "answer", "done"}
Flow == {"listen", "browser", "wait", "state", "check", "exchange",
         "token", "mismatch", "failed", "timeout"}
Server == {"down", "up", "closing", "closed"}
Serve == {"none", "serving", "failed", "ended"}

ChannelCapacity == 1
Channel(s) == Seq(s)

\* Every variable has its type, and no channel holds more than its room.
TypeOK ==
    /\ flow \in Flow
    /\ server \in Server
    /\ serve \in Serve
    /\ handler \in [Callback -> Phase]
    /\ query \in [Callback -> Query]
    /\ page \in [Callback -> {"none", "ok", "bad request", "not found", "lost"}]
    /\ codeChan \in Channel(Callback)
    /\ stateChan \in Channel(State)
    /\ errChan \in Channel(Callback \cup {"server"})
    /\ \A ch \in {codeChan, stateChan, errChan} : Len(ch) <= ChannelCapacity
    /\ code \in {<<>>} \cup {<<c>> : c \in Callback}
    /\ state \in {<<>>} \cup {<<s>> : s \in State}

Init ==
    /\ flow = "listen"
    /\ server = "down"
    /\ serve = "none"
    /\ handler = [c \in Callback |-> "none"]
    /\ query \in [Callback -> Query]
    /\ page = [c \in Callback |-> "none"]
    /\ codeChan = <<>> /\ stateChan = <<>> /\ errChan = <<>>
    /\ code = <<>> /\ state = <<>>

\* A send that does not wait for room.
HasRoomAlways(ch) == TRUE

HasRoom(ch) == Len(ch) < ChannelCapacity

----------------------------------------------------------------------------
(* The local server and its handlers.                                      *)

Move(c, p) == handler' = [handler EXCEPT ![c] = p]

Arrive(c) ==
    /\ serve = "serving" /\ server \in {"up", "closing"}
    /\ handler[c] = "none"
    /\ Move(c, "start")
    /\ UNCHANGED <<flow, server, serve, query, page, channels, received>>

\* Not the callback path; a refusal or a missing code; a code.  The success
\* page is written to the buffer of the connection only.
Handle(c) ==
    /\ handler[c] = "start"
    /\ Move(c, CASE query[c].kind = "notfound" -> "answer"
                 [] query[c].kind \in {"error", "nocode"} -> "sendError"
                 [] query[c].kind = "code" -> "sendCode")
    /\ UNCHANGED <<flow, server, serve, query, page, channels, received>>

SendError(c) ==
    /\ handler[c] = "sendError"
    /\ HasRoom(errChan)
    /\ errChan' = Append(errChan, c)
    /\ Move(c, "answer")
    /\ UNCHANGED <<flow, server, serve, query, page, codeChan, stateChan, received>>

\* A handler that returns after the code.
SendCodeOnly(c) ==
    /\ handler[c] = "sendCode"
    /\ HasRoom(codeChan)
    /\ codeChan' = Append(codeChan, c)
    /\ Move(c, "answer")
    /\ UNCHANGED <<flow, server, serve, query, page, stateChan, errChan, received>>

SendCode(c) ==
    /\ handler[c] = "sendCode"
    /\ HasRoom(codeChan)
    /\ codeChan' = Append(codeChan, c)
    /\ Move(c, "sendState")
    /\ UNCHANGED <<flow, server, serve, query, page, stateChan, errChan, received>>

SendState(c) ==
    /\ handler[c] = "sendState"
    /\ HasRoom(stateChan)
    /\ stateChan' = Append(stateChan, query[c].state)
    /\ Move(c, "answer")
    /\ UNCHANGED <<flow, server, serve, query, page, codeChan, errChan, received>>

Reply(c) ==
    CASE query[c].kind = "notfound" -> "not found"
      [] query[c].kind \in {"error", "nocode"} -> "bad request"
      [] query[c].kind = "code" -> "ok"

\* The handler returns and net/http flushes the page, if the connection is
\* still open: server.Close closes those of running handlers too.
Answer(c) ==
    /\ handler[c] = "answer"
    /\ page' = [page EXCEPT ![c] = IF server = "closed" THEN "lost" ELSE Reply(c)]
    /\ Move(c, "done")
    /\ UNCHANGED <<flow, server, serve, query, channels, received>>

\* Serve returns an error, unless it does so because of Close.
ServeFails ==
    /\ serve = "serving" /\ server = "up"
    /\ serve' = "failed"
    /\ UNCHANGED <<flow, server, requests, channels, received>>

SendServeError ==
    /\ serve = "failed"
    /\ HasRoom(errChan)
    /\ errChan' = Append(errChan, "server")
    /\ serve' = "ended"
    /\ UNCHANGED <<flow, server, requests, codeChan, stateChan, received>>

\* go server.Close()
Close ==
    /\ server = "closing"
    /\ server' = "closed"
    /\ serve' = IF serve = "serving" THEN "ended" ELSE serve
    /\ UNCHANGED <<flow, requests, channels, received>>

----------------------------------------------------------------------------
(* The command.                                                            *)

ListenFails ==
    /\ flow = "listen"
    /\ flow' = "failed"
    /\ UNCHANGED <<server, serve, requests, channels, received>>

Listen ==
    /\ flow = "listen"
    /\ flow' = "browser"
    /\ server' = "up"
    /\ serve' = "serving"
    /\ UNCHANGED <<requests, channels, received>>

\* open.Run waits for the program that opens the page; that it fails is
\* printed and the user may open the page by hand.
OpenBrowser ==
    /\ flow = "browser"
    /\ flow' = "wait"
    /\ UNCHANGED <<server, serve, requests, channels, received>>

ReceiveCode ==
    /\ flow = "wait"
    /\ codeChan # <<>>
    /\ code' = <<Head(codeChan)>>
    /\ codeChan' = Tail(codeChan)
    /\ flow' = "state"
    /\ UNCHANGED <<server, serve, requests, stateChan, errChan, state>>

\* A receive that does not wait for the handler to send the state.
ReceiveStateNoWait ==
    /\ flow = "state"
    /\ IF stateChan = <<>>
       THEN UNCHANGED <<stateChan, state>>
       ELSE state' = <<Head(stateChan)>> /\ stateChan' = Tail(stateChan)
    /\ flow' = "check"
    /\ server' = "closing"
    /\ UNCHANGED <<serve, requests, codeChan, errChan, code>>

ReceiveState ==
    /\ flow = "state"
    /\ stateChan # <<>>
    /\ state' = <<Head(stateChan)>>
    /\ stateChan' = Tail(stateChan)
    /\ flow' = "check"
    /\ server' = "closing"
    /\ UNCHANGED <<serve, requests, codeChan, errChan, code>>

ReceiveError ==
    /\ flow = "wait"
    /\ errChan # <<>>
    /\ errChan' = Tail(errChan)
    /\ flow' = "failed"
    /\ server' = "closing"
    /\ UNCHANGED <<serve, requests, codeChan, stateChan, received>>

\* select takes any case that is ready, the timer too.
Timeout ==
    /\ flow = "wait"
    /\ flow' = "timeout"
    /\ server' = "closing"
    /\ UNCHANGED <<serve, requests, channels, received>>

CheckState ==
    /\ flow = "check"
    /\ flow' = IF state = <<OwnState>> THEN "exchange" ELSE "mismatch"
    /\ UNCHANGED <<server, serve, requests, channels, received>>

\* The answer to the exchange, for which there is no timeout.
Exchange ==
    /\ flow = "exchange"
    /\ flow' \in {"token", "failed"}
    /\ UNCHANGED <<server, serve, requests, channels, received>>

----------------------------------------------------------------------------
Handler(c) ==
    \/ Handle(c) \/ SendError(c) \/ SendCode(c) \/ SendState(c) \/ Answer(c)

Wait == ReceiveCode \/ ReceiveError \/ Timeout

Next ==
    \/ \E c \in Callback : Arrive(c) \/ Handler(c)
    \/ ServeFails \/ SendServeError \/ Close
    \/ ListenFails \/ Listen \/ OpenBrowser
    \/ Wait \/ ReceiveState \/ CheckState \/ Exchange

\* Goroutines are scheduled and the timer fires.  The browser, its requests
\* and the answer to the exchange may never come.
Fairness ==
    /\ \A c \in Callback : WF_vars(Handler(c))
    /\ WF_vars(Wait) /\ WF_vars(ReceiveState) /\ WF_vars(CheckState)
    /\ WF_vars(Close) /\ WF_vars(SendServeError)

Spec == Init /\ [][Next]_vars /\ Fairness

----------------------------------------------------------------------------
Requests(kind) == {c \in Callback : handler[c] # "none" /\ query[c].kind = kind}

\* A command that gives up because of the state parameter has received one
\* of another attempt: that the state is sent after the code, through a
\* channel of its own, never makes a redirect of this attempt look foreign.
MismatchHasCause ==
    flow = "mismatch" => \E c \in Requests("code") : query[c].state # OwnState

\* The state that is checked came with the code that is exchanged, as "Verify
\* state to prevent CSRF attacks" (performBrowserOAuthFlow) takes for granted,
\* but for one order of events: between the two sends of the code's handler
\* another redirect has gone through both of its own, and its state is checked.
StateComesWithCode ==
    [][flow = "state" /\ flow' = "check" =>
        \E c \in Requests("code") :
            /\ code = <<c>>
            /\ \/ state' = <<query[c].state>>
               \/ /\ handler[c] = "sendState"
                  /\ \E d \in Requests("code") \ {c} :
                        /\ handler[d] \in {"answer", "done"}
                        /\ state' = <<query[d].state>>
      ]_vars

\* Once the command waits for the redirect it goes on within the timeout: the
\* receive of the state, which has no timeout, never hangs.
FlowEnds == flow = "wait" ~> flow \notin {"wait", "state", "check"}
=============================================================================
