----------------------------- MODULE ToolCalls -----------------------------
(***************************************************************************)
(* The tools that the model calls while it answers: the loop of a process  *)
(* job (llm/claude.go; llm/openai.go has the same one), the dispatch of a  *)
(* call (jobs/tool_dispatch.go, mcp/multi_client.go), and a client of the  *)
(* Model Context Protocol (mcp/client.go) behind a refresher of its OAuth  *)
(* token (mcp/oauth_refresher.go), which all jobs of the bot share.        *)
(*                                                                         *)
(* One server is modelled, which wants a session and a token.  It answers  *)
(* 401 to a token it does not know, 404 to a session it does not know,     *)
(* and 400 when there is none.  Sessions and tokens are numbered as they   *)
(* are issued, 0 is none.  Whatever else a tool may answer, an error too,  *)
(* is a result.                                                            *)
(***************************************************************************)
EXTENDS Naturals, FiniteSets, ChannelConfig

CONSTANTS
  Caller,        (* process jobs that may run at once                      *)
  Nobody,        (* the refresher's lock is free                           *)
  Withheld,      (* rows of the configuration (when the UI saved them)     *)
                 (* whose tool_allowlist leaves the server's tools out     *)
  MaxIterations, (* maxToolUseIterations: 10                               *)
  MaxBlocks,     (* bound: tool calls in an answer of the model            *)
  MaxAttempts,   (* bound: attempts of a job                               *)
  MaxOutages,    (* bound: restarts of the server, expiries of a token     *)
  MaxFaults      (* bound: answers that are lost, restarts of the bot      *)

ASSUME ToolCallsAssumption ==
  /\ IsFiniteSet(Caller) /\ Nobody \notin Caller
  /\ Withheld \subseteq 1 .. MaxChanges + 1
  /\ MaxIterations \in Nat \ {0} /\ MaxBlocks \in Nat \ {0}
  /\ MaxAttempts \in Nat /\ MaxOutages \in Nat /\ MaxFaults \in Nat

VARIABLES
  pc,           (* where an attempt is                                     *)
  attempt, iteration, (* attempts made, requests to the model in this one  *)
  blocks,       (* calls of the model's answer that are left               *)
  offered,      (* whether the server's tools were offered to the model    *)
  request,      (* the request under way: its session and its token        *)
  again,        (* what the call did over: the session, the token          *)
  client,       (* Client: sessionID, initialized, initAttempted           *)
  bearer, refreshToken, (* BearerToken, RefreshToken                       *)
  holder,       (* the refresher's mutex                                   *)
  discovered,   (* MultiClient.routing has the server's tools              *)
  sessions, tokens, (* the server: issued so far, and how many are void    *)
  grant,        (* the server: the refresh token it takes, counted         *)
  effects,      (* history: how often the server carried out this call     *)
  outcome,      (* history: how the last call ended                        *)
  disturbed,    (* history: callers whose session another call, or the     *)
                (* server, dropped meanwhile                               *)
  outdated,     (* history: callers whose token expired, or was torn, after*)
                (* a refresh                                               *)
  grantLost,    (* history: an answer with a new refresh token was lost,   *)
                (* or the token with the process                           *)
  outages, faults

attempts == <<pc, attempt, iteration, blocks, offered, request, again>>
shared   == <<client, bearer, refreshToken, holder, discovered>>
server   == <<sessions, tokens, grant>>
past     == <<effects, outcome, disturbed, outdated, grantLost>>
vars     == <<attempts, shared, server, past, outages, faults, settings>>

NoRequest == [session |-> 0, token |-> 0]
NotAgain  == [session |-> FALSE, token |-> FALSE]

(* The bot has started: NewMultiClient initialized the client and learned  *)
(* its tools with the token of the environment.                            *)
Init ==
  /\ pc = [c \in Caller |-> "idle"]
  /\ attempt = [c \in Caller |-> 0]
  /\ iteration = [c \in Caller |-> 0]
  /\ blocks = [c \in Caller |-> 0]
  /\ offered = [c \in Caller |-> FALSE]
  /\ request = [c \in Caller |-> NoRequest]
  /\ again = [c \in Caller |-> NotAgain]
  /\ client = [session |-> 1, initialized |-> TRUE, attempted |-> TRUE]
  /\ bearer = 1 /\ refreshToken = 1
  /\ holder = Nobody /\ discovered = TRUE
  /\ sessions = [issued |-> 1, void |-> 0]
  /\ tokens = [issued |-> 1, void |-> 0]
  /\ grant = 1
  /\ effects = [c \in Caller |-> 0]
  /\ outcome = [c \in Caller |-> "none"]
  /\ disturbed = {} /\ outdated = {} /\ grantLost = FALSE
  /\ outages = 0 /\ faults = 0
  /\ ConfigInit

Fault == faults < MaxFaults /\ faults' = faults + 1

Valid(ids, n) == n > ids.void
Calling(c) == pc[c] \notin {"idle", "model", "call"}
Goto(c, to) == pc' = [pc EXCEPT ![c] = to]

-----------------------------------------------------------------------------
(* The loop.  Operators named Slip... are wrong variants of the definition *)
(* that follows them.                                                      *)

(* filterTools: no row, or one without a list, offers every tool.          *)
Offers(row) == row = NoConfig \/ row.rest \notin Withheld

(* An attempt of the job begins, with the configuration as it is.          *)
Start(c) ==
  /\ pc[c] = "idle" /\ attempt[c] < MaxAttempts
  /\ attempt' = [attempt EXCEPT ![c] = @ + 1]
  /\ iteration' = [iteration EXCEPT ![c] = 0]
  /\ offered' = [offered EXCEPT ![c] = Offers(config)]
  /\ outcome' = [outcome EXCEPT ![c] = "none"]
  /\ Goto(c, "model")
  /\ UNCHANGED <<blocks, request, again, shared, server, effects, disturbed, outdated, grantLost,
                 outages, faults, settings>>

(* Wrong: one request more than the limit.                                 *)
SlipMayAsk(c) == iteration[c] <= MaxIterations
MayAsk(c) == iteration[c] < MaxIterations

(* The model calls tools, n of them.                                       *)
ModelCalls(c) ==
  /\ pc[c] = "model" /\ MayAsk(c)
  /\ iteration' = [iteration EXCEPT ![c] = @ + 1]
  /\ \E n \in 1 .. MaxBlocks : blocks' = [blocks EXCEPT ![c] = n]
  /\ Goto(c, "call")
  /\ UNCHANGED <<attempt, offered, request, again, shared, server, past, outages, faults, settings>>

(* It answers, or the iterations are used up: the attempt ends.            *)
ModelEnds(c) ==
  /\ pc[c] = "model"
  /\ Goto(c, "idle")
  /\ UNCHANGED <<attempt, iteration, blocks, offered, request, again, shared, server, past,
                 outages, faults, settings>>

(* The model's service fails, whatever the reason: so does the attempt.    *)
RequestFails(c) ==
  /\ pc[c] = "model" /\ MayAsk(c)
  /\ Goto(c, "idle")
  /\ UNCHANGED <<attempt, iteration, blocks, offered, request, again, shared, server, past,
                 outages, faults, settings>>

(* Wrong: a call that failed is not counted as one of the iterations.      *)
SlipResult(c, how) ==
  /\ outcome' = [outcome EXCEPT ![c] = how]
  /\ blocks' = [blocks EXCEPT ![c] = @ - 1]
  /\ iteration' = IF how = "ok" THEN iteration ELSE [iteration EXCEPT ![c] = 0]
  /\ request' = [request EXCEPT ![c] = NoRequest]
  /\ again' = [again EXCEPT ![c] = NotAgain]
  /\ effects' = [effects EXCEPT ![c] = 0]
  /\ Goto(c, IF blocks[c] = 1 THEN "model" ELSE "call")

(* A result, or an error, is handed to the model with the next request.    *)
Result(c, how) ==
  /\ outcome' = [outcome EXCEPT ![c] = how]
  /\ blocks' = [blocks EXCEPT ![c] = @ - 1]
  /\ iteration' = iteration
  /\ request' = [request EXCEPT ![c] = NoRequest]
  /\ again' = [again EXCEPT ![c] = NotAgain]
  /\ effects' = [effects EXCEPT ![c] = 0]
  /\ Goto(c, IF blocks[c] = 1 THEN "model" ELSE "call")

(* ToolDispatcher: a tool of the bot's own, or an unknown one.             *)
CallOwn(c) ==
  /\ pc[c] = "call"
  /\ Result(c, "none")
  /\ UNCHANGED <<attempt, offered, shared, server, disturbed, outdated, grantLost,
                 outages, faults, settings>>

(* MultiClient: a tool of the server.                                      *)
CallRemote(c) ==
  /\ pc[c] = "call" /\ offered[c] /\ discovered
  /\ disturbed' = disturbed \ {c} /\ outdated' = outdated \ {c}
  /\ outcome' = [outcome EXCEPT ![c] = "none"]
  /\ Goto(c, "ensure")
  /\ UNCHANGED <<attempt, iteration, blocks, offered, request, again, shared, server,
                 effects, grantLost, outages, faults, settings>>

-----------------------------------------------------------------------------
(* Client.sendRequest.                                                     *)

(* The token is read without the lock it is written under: while it is     *)
(* being written a reader may get neither the old nor the new one.         *)
Tokens == {bearer} \cup (IF \E c \in Caller : pc[c] = "store" THEN {0} ELSE {})
Torn(c, t) == IF t = 0 THEN outdated' = outdated \cup {c} ELSE UNCHANGED outdated

(* OAuthRefresher.CallTool: the first refusal refreshes the token.         *)
Unauthorized(c) ==
  IF again[c].token
  THEN Result(c, "token")
  ELSE Goto(c, "refresh") /\ UNCHANGED <<blocks, iteration, request, again, effects, outcome>>

(* initialize, under the lock: the handshake, which may break off before   *)
(* or after the session is there.                                          *)
Initialize(c) ==
  \E t \in Tokens :
    /\ Torn(c, t)
    /\ IF ~Valid(tokens, t)
       THEN Unauthorized(c) /\ UNCHANGED <<client, sessions, faults>>
       ELSE LET s == sessions.issued + 1 IN
            \/ /\ sessions' = [sessions EXCEPT !.issued = s]
               /\ client' = [client EXCEPT !.session = s, !.initialized = TRUE]
               /\ Goto(c, "send")
               /\ UNCHANGED <<blocks, iteration, request, again, effects, outcome, faults>>
            \/ /\ Fault
               /\ sessions' = [sessions EXCEPT !.issued = s]
               /\ \/ client' = [client EXCEPT !.session = s]
                  \/ UNCHANGED client
               /\ Result(c, "lost")

EnsureInitialized(c) ==
  /\ pc[c] = "ensure"
  /\ \/ /\ client.initialized \/ client.attempted
        /\ Goto(c, "send")
        /\ UNCHANGED <<blocks, iteration, request, again, effects, outcome, client, sessions,
                       outdated, faults>>
     \/ ~client.initialized /\ ~client.attempted /\ Initialize(c)
  /\ UNCHANGED <<attempt, offered, bearer, refreshToken, holder, discovered, tokens, grant,
                 disturbed, grantLost, outages, settings>>

(* doRequest: the session is copied under the lock, the token is not.      *)
Send(c) ==
  /\ pc[c] = "send"
  /\ \E t \in Tokens :
       Torn(c, t) /\ request' = [request EXCEPT ![c] = [session |-> client.session, token |-> t]]
  /\ Goto(c, "sent")
  /\ UNCHANGED <<attempt, iteration, blocks, offered, again, shared, server,
                 effects, outcome, disturbed, grantLost, outages, faults, settings>>

(* The call may have been carried out; it is an error.                     *)
AnswerLost(c) == Result(c, "lost")

(* The server's answer.                                                    *)
Answered(c) ==
  LET r == request[c] IN
  /\ pc[c] = "sent"
  /\ CASE ~Valid(tokens, r.token) -> Unauthorized(c) /\ UNCHANGED faults
       [] Valid(tokens, r.token) /\ (r.session = 0 \/ (~Valid(sessions, r.session) /\ again[c].session)) ->
            Result(c, "session") /\ UNCHANGED faults
       [] Valid(tokens, r.token) /\ r.session # 0 /\ ~Valid(sessions, r.session) /\ ~again[c].session ->
            Goto(c, "expired") /\ UNCHANGED <<blocks, iteration, request, again, effects, outcome, faults>>
       [] OTHER ->
            \/ /\ Goto(c, "done")
               /\ effects' = [effects EXCEPT ![c] = @ + 1]
               /\ UNCHANGED <<blocks, iteration, request, again, outcome, faults>>
            \/ Fault /\ AnswerLost(c)
  /\ UNCHANGED <<attempt, offered, shared, server, disturbed, outdated, grantLost, outages, settings>>

Return(c) ==
  /\ pc[c] = "done"
  /\ Result(c, "ok")
  /\ UNCHANGED <<attempt, offered, shared, server, disturbed, outdated, grantLost,
                 outages, faults, settings>>

(* After a 404: the session is dropped, whichever it is by now, and the    *)
(* request is made once more.                                              *)
Reset(c) ==
  /\ pc[c] = "expired"
  /\ client' = [session |-> 0, initialized |-> FALSE, attempted |-> FALSE]
  /\ again' = [again EXCEPT ![c].session = TRUE]
  /\ disturbed' = disturbed \cup {d \in Caller \ {c} : Calling(d)}
  /\ Goto(c, "ensure")
  /\ UNCHANGED <<attempt, iteration, blocks, offered, request, bearer, refreshToken, holder,
                 discovered, server, effects, outcome, outdated, grantLost, outages, faults, settings>>

-----------------------------------------------------------------------------
(* OAuthRefresher.refresh.                                                 *)

(* Wrong: the refresher is not locked while it waits for the answer.       *)
SlipLockFree(c) == pc[c] = "refresh"
LockFree(c) == pc[c] = "refresh" /\ holder = Nobody

(* The token endpoint issues a token, and may replace the refresh token;   *)
(* one that was replaced is refused.                                       *)
Refresh(c) ==
  /\ LockFree(c)
  /\ \/ /\ refreshToken = grant
        /\ tokens' = [tokens EXCEPT !.issued = @ + 1]
        /\ \E g \in {grant, grant + 1} :
             /\ grant' = g
             /\ \/ /\ request' = [request EXCEPT ![c] = [session |-> g, token |-> tokens.issued + 1]]
                   /\ holder' = c
                   /\ Goto(c, "store")
                   /\ UNCHANGED <<blocks, iteration, again, effects, outcome, grantLost, faults>>
                \/ /\ Fault
                   /\ grantLost' = (grantLost \/ g # grant)
                   /\ Result(c, "lost")
                   /\ UNCHANGED holder
     \/ /\ refreshToken # grant
        /\ Result(c, "token")
        /\ UNCHANGED <<tokens, grant, holder, grantLost, faults>>
  /\ UNCHANGED <<attempt, offered, client, bearer, refreshToken, discovered, sessions,
                 disturbed, outdated, outages, settings>>

(* Both tokens are stored, and the call is made over.                      *)
StoreTokens(c) ==
  /\ pc[c] = "store"
  /\ bearer' = request[c].token
  /\ refreshToken' = request[c].session
  /\ holder' = Nobody
  /\ request' = [request EXCEPT ![c] = NoRequest]
  /\ again' = [again EXCEPT ![c] = [session |-> FALSE, token |-> TRUE]]
  /\ Goto(c, "ensure")
  /\ UNCHANGED <<attempt, iteration, blocks, offered, client, discovered, server, past,
                 outages, faults, settings>>

-----------------------------------------------------------------------------
(* The server, and the bot, stop and start again.                          *)
Outage == outages < MaxOutages /\ outages' = outages + 1

ServerRestarts ==
  /\ Outage
  /\ sessions.void < sessions.issued
  /\ sessions' = [sessions EXCEPT !.void = sessions.issued]
  /\ disturbed' = disturbed \cup {c \in Caller : Calling(c) /\ again[c].session}
  /\ UNCHANGED <<attempts, shared, tokens, grant, effects, outcome, outdated, grantLost, faults, settings>>

TokenExpires ==
  /\ Outage
  /\ tokens.void < tokens.issued
  /\ tokens' = [tokens EXCEPT !.void = tokens.issued]
  /\ outdated' = outdated \cup {c \in Caller : Calling(c) /\ (again[c].token \/ pc[c] = "store")}
  /\ UNCHANGED <<attempts, shared, sessions, grant, effects, outcome, disturbed, grantLost, faults, settings>>

(* A server whose token of the environment has expired is initialized with *)
(* the one that the refresh token of the environment gets, if it does; one *)
(* that was initialized lists its tools.                                   *)
Known      == Valid(tokens, 1)
Granted    == ~Known /\ grant = 1
ListsTools == Known \/ Granted

(* NewMultiClient: a server that refuses both is left out.                 *)
Restart ==
  /\ Fault
  /\ pc' = [c \in Caller |-> "idle"]
  /\ blocks' = [c \in Caller |-> 0]
  /\ request' = [c \in Caller |-> NoRequest]
  /\ again' = [c \in Caller |-> NotAgain]
  /\ effects' = [c \in Caller |-> 0]
  /\ holder' = Nobody
  /\ \E g \in {grant} \cup (IF Granted THEN {grant + 1} ELSE {}) :
       grant' = g /\ refreshToken' = IF Granted THEN g ELSE 1
  /\ grantLost' = (grantLost \/ grant # 1)
  /\ discovered' = ListsTools
  /\ tokens' = IF Granted THEN [tokens EXCEPT !.issued = @ + 1] ELSE tokens
  /\ bearer' = IF Granted THEN tokens.issued + 1 ELSE 1
  /\ sessions' = IF ListsTools THEN [sessions EXCEPT !.issued = @ + 1] ELSE sessions
  /\ client' = [session |-> IF ListsTools THEN sessions.issued + 1 ELSE 0,
                initialized |-> ListsTools, attempted |-> TRUE]
  /\ EndCommand
  /\ UNCHANGED <<attempt, iteration, offered, outcome, disturbed, outdated, outages>>

CallStep(c) ==
  \/ CallOwn(c) \/ CallRemote(c) \/ EnsureInitialized(c) \/ Send(c) \/ Answered(c) \/ Return(c)
  \/ Reset(c) \/ Refresh(c) \/ StoreTokens(c)

Next ==
  \/ \E c \in Caller : Start(c) \/ ModelCalls(c) \/ ModelEnds(c) \/ RequestFails(c) \/ CallStep(c)
  \/ ServerRestarts \/ TokenExpires \/ Restart
  \/ ConfigStep /\ UNCHANGED <<attempts, shared, server, past, outages, faults>>

(* A job's goroutine goes on, the model and the server answer in the end.  *)
Spec ==
  /\ Init /\ [][Next]_vars
  /\ \A c \in Caller : WF_vars(ModelCalls(c) \/ ModelEnds(c) \/ RequestFails(c) \/ CallStep(c))

-----------------------------------------------------------------------------
Ids == [issued : Nat, void : Nat]

TypeOK ==
  /\ pc \in [Caller -> {"idle", "model", "call", "ensure", "send", "sent", "expired", "done",
                        "refresh", "store"}]
  /\ attempt \in [Caller -> 0 .. MaxAttempts]
  /\ iteration \in [Caller -> 0 .. MaxIterations]
  /\ blocks \in [Caller -> 0 .. MaxBlocks]
  /\ offered \in [Caller -> BOOLEAN]
  /\ request \in [Caller -> [session : Nat, token : Nat]]
  /\ again \in [Caller -> [session : BOOLEAN, token : BOOLEAN]]
  /\ client \in [session : 0 .. sessions.issued, initialized : BOOLEAN, attempted : BOOLEAN]
  /\ bearer \in 1 .. tokens.issued /\ refreshToken \in 1 .. grant
  /\ holder \in Caller \cup {Nobody} /\ discovered \in BOOLEAN
  /\ sessions \in Ids /\ tokens \in Ids /\ grant \in Nat
  /\ effects \in [Caller -> Nat]
  /\ outcome \in [Caller -> {"none", "ok", "session", "token", "lost"}]
  /\ disturbed \subseteq Caller /\ outdated \subseteq Caller /\ grantLost \in BOOLEAN
  /\ outages \in 0 .. MaxOutages /\ faults \in 0 .. MaxFaults
  /\ ConfigTypeOK

(* An expired session or token costs no call its result, however many      *)
(* calls meet it at once, and no call is carried out twice for it:         *)
(*   - the client makes a new session and sends the request again; only    *)
(*     when another call dropped the session meanwhile, or the server      *)
(*     dropped it once more, the call fails;                               *)
(*   - each call that is refused refreshes with the refresh token that the *)
(*     one before it got; only when the new token expired too, or was read *)
(*     while it was written, or a replaced refresh token was lost with an  *)
(*     answer or with the process, the call fails;                         *)
(*   - what is sent again was refused before.                              *)
SessionErrorExplained == \A c \in Caller : outcome[c] = "session" => c \in disturbed
TokenErrorExplained   == \A c \in Caller : outcome[c] = "token" => c \in outdated \/ grantLost
EffectOnce            == \A c \in Caller : effects[c] <= 1

CallsRecover == SessionErrorExplained /\ TokenErrorExplained /\ EffectOnce

(* Every attempt ends, whatever the model asks for and the server does.    *)
AttemptsEnd == \A c \in Caller : pc[c] # "idle" ~> pc[c] = "idle"
=============================================================================
