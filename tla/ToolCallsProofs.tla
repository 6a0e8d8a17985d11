-------------------------- MODULE ToolCallsProofs --------------------------
(***************************************************************************)
(* What the calls of tools keep for any number of jobs, iterations, calls, *)
(* outages and lost answers (CallsRecover), and what a slash command keeps *)
(* of a channel's configuration (CommandKeepsConfig).                      *)
(*                                                                         *)
(* The argument: a call that has done over its session, or its token, goes *)
(* on with one that is valid, until somebody disturbs it, and whatever may *)
(* disturb it is recorded; the refresher's mutex makes the refresh token   *)
(* that is stored the last that was granted.                               *)
(***************************************************************************)
EXTENDS ToolCalls, TLAPS

(* A row that a command has read is still the row, unless the UI saved     *)
(* meanwhile.                                                              *)
ConfigRow == {NoConfig} \cup [mode : Modes, rest : 0 .. MaxChanges + 1]
ConfigInv ==
  /\ config \in ConfigRow
  /\ command \subseteq [row : ConfigRow, mode : Modes]
  /\ ~clobbered => \A c \in command : c.row = config

(* The refresher's mutex is held while the tokens are stored, and no other *)
(* call stores them then.                                                  *)
MutexInv == \A c \in Caller : (pc[c] = "store") <=> (holder = c)

(* What was voided had been issued.                                        *)
IdsInv == sessions.void <= sessions.issued /\ tokens.void <= tokens.issued

(* A session is missing only while the client will initialize, or the bot  *)
(* was started without the server; then nobody calls.                      *)
SessionInv ==
  /\ discovered /\ client.session = 0 => ~client.initialized /\ ~client.attempted
  /\ ~discovered => \A c \in Caller : ~Calling(c)
  /\ \A c \in Caller \ disturbed :
       /\ pc[c] = "send" => client.session # 0
       /\ pc[c] = "sent" => request[c].session # 0
       /\ Calling(c) /\ again[c].session =>
            client.session = 0 \/ Valid(sessions, client.session)
       /\ pc[c] = "sent" /\ again[c].session => Valid(sessions, request[c].session)

(* A call that was refreshed goes on with a token that is good, and with   *)
(* it is whatever another call is about to store.                          *)
TokenInv ==
  \A c \in Caller \ outdated :
    /\ pc[c] = "store" => Valid(tokens, request[c].token)
    /\ pc[c] = "sent" /\ again[c].token => Valid(tokens, request[c].token)
    /\ Calling(c) /\ again[c].token =>
         /\ Valid(tokens, bearer)
         /\ \A d \in Caller : pc[d] = "store" => Valid(tokens, request[d].token)

(* The refresh token that is stored, or about to be, is the last granted.  *)
GrantInv ==
  /\ \A c \in Caller : pc[c] = "store" =>
       request[c].token \in 1 .. tokens.issued /\ request[c].session \in 1 .. grant
  /\ ~grantLost =>
       IF holder = Nobody THEN refreshToken = grant ELSE request[holder].session = grant

(* The server carried out the call that is about to return, once.          *)
EffectInv == \A c \in Caller : effects[c] = IF pc[c] = "done" THEN 1 ELSE 0

(* A call under way is one of the model's answer.                          *)
BlocksInv == \A c \in Caller : pc[c] \notin {"idle", "model"} => blocks[c] > 0

(* Between two calls nothing was done over.                                *)
AgainInv == \A c \in Caller \ {d \in Caller : Calling(d)} : again[c] = NotAgain

CallInv ==
  /\ AgainInv /\ BlocksInv /\ MutexInv /\ IdsInv
  /\ SessionInv /\ TokenInv /\ GrantInv /\ EffectInv
IInv == TypeOK /\ ConfigInv /\ CallInv /\ CallsRecover /\ CommandKeepsConfig
-----------------------------------------------------------------------------
(* The configuration of a channel.                                         *)

(* Lemma: a command or a save keeps the types of the row and of the        *)
(* command, and what is known of a row that was read.                      *)
LEMMA StepConfig ==
  ASSUME ConfigTypeOK, ConfigInv, ConfigStep
  PROVE  ConfigTypeOK' /\ ConfigInv'
<1> USE ConfigAssumption DEF ConfigTypeOK, ConfigInv, ConfigRow
<1>1. ASSUME NEW mode \in Modes, ReadConfig(mode) PROVE ConfigTypeOK' /\ ConfigInv'
  BY <1>1 DEF ReadConfig, Change
<1>2. CASE UpsertConfig
  BY <1>2 DEF UpsertConfig, Changed
<1>3. CASE PutConfig
  <2>1. clobbered' \in BOOLEAN
    BY <1>3 DEF PutConfig
  <2>2. changes' \in 0 .. MaxChanges /\ saved' \in 0 .. MaxChanges + 1
    BY <1>3 DEF PutConfig, Change, DeleteConfig
  <2>3. config' \in ConfigRow
    BY <1>3, <2>2 DEF PutConfig, DeleteConfig
  <2>4. ~clobbered' => \A c \in command' : c.row = config'
    BY <1>3 DEF PutConfig
  <2>. QED
    BY <1>3, <2>1, <2>2, <2>3, <2>4 DEF PutConfig
<1>. QED
  BY <1>1, <1>2, <1>3 DEF ConfigStep

(* Lemma: and the command keeps the rest of the row.                       *)
LEMMA StepCommandKeeps ==
  ASSUME ConfigTypeOK, ConfigInv, CommandKeepsConfig, ConfigStep
  PROVE  CommandKeepsConfig'
<1> USE ConfigAssumption DEF ConfigTypeOK, ConfigInv, ConfigRow, CommandKeepsConfig
<1>1. ASSUME NEW mode \in Modes, ReadConfig(mode) PROVE CommandKeepsConfig'
  BY <1>1 DEF ReadConfig, Change
<1>2. CASE UpsertConfig
  BY <1>2 DEF UpsertConfig, Changed
<1>3. CASE PutConfig
  BY <1>3 DEF PutConfig, Change, DeleteConfig
<1>. QED
  BY <1>1, <1>2, <1>3 DEF ConfigStep

-----------------------------------------------------------------------------
(* The two steps of a call with several ends.                              *)

(* How the handshake, when it is due, may end: it is not due, the token is *)
(* refused, the session is made, or the answer is lost.                    *)
NotDue(c) ==
  /\ client.initialized \/ client.attempted
  /\ Goto(c, "send")
  /\ UNCHANGED <<blocks, iteration, request, again, effects, outcome, client, sessions, outdated>>
TokenRefused(c) ==
  /\ \E t \in Tokens : Torn(c, t) /\ ~Valid(tokens, t)
  /\ Unauthorized(c)
  /\ UNCHANGED <<client, sessions>>
Made(c) ==
  /\ sessions' = [sessions EXCEPT !.issued = sessions.issued + 1]
  /\ client' = [client EXCEPT !.session = sessions.issued + 1, !.initialized = TRUE]
  /\ Goto(c, "send")
  /\ outdated \subseteq outdated'
  /\ UNCHANGED <<blocks, iteration, request, again, effects, outcome>>
MadeInVain(c) ==
  /\ ~client.initialized /\ ~client.attempted
  /\ sessions' = [sessions EXCEPT !.issued = sessions.issued + 1]
  /\ \/ client' = [client EXCEPT !.session = sessions.issued + 1]
     \/ UNCHANGED client
  /\ outdated \subseteq outdated'
  /\ Result(c, "lost")

(* Lemma: these are all of them.                                           *)
LEMMA EnsureCases ==
  ASSUME NEW c \in Caller, EnsureInitialized(c)
  PROVE  /\ pc[c] = "ensure"
         /\ UNCHANGED <<bearer, refreshToken, holder, discovered, tokens, grant, disturbed,
                        grantLost>>
         /\ NotDue(c) \/ TokenRefused(c) \/ Made(c) \/ MadeInVain(c)
<1>1. CASE client.initialized \/ client.attempted
  BY <1>1 DEF EnsureInitialized, Initialize, NotDue
<1>2. CASE ~client.initialized /\ ~client.attempted
  <2>1. PICK t \in Tokens :
          /\ Torn(c, t)
          /\ IF ~Valid(tokens, t)
             THEN Unauthorized(c) /\ UNCHANGED <<client, sessions, faults>>
             ELSE LET s == sessions.issued + 1 IN
                  \/ /\ sessions' = [sessions EXCEPT !.issued = s]
                     /\ client' = [client EXCEPT !.session = s, !.initialized = TRUE]
                     /\ Goto(c, "send")
                     /\ UNCHANGED <<blocks, iteration, request, again, effects, outcome, faults>>
                  \/ /\ Fault
                     /\ sessions' = [sessions EXCEPT !.issued = s]
                     /\ \/ client' = [client EXCEPT !.session = s]
                        \/ UNCHANGED client
                     /\ Result(c, "lost")
    BY <1>2 DEF EnsureInitialized, Initialize
  <2>2. outdated \subseteq outdated'
    BY <2>1 DEF Torn
  <2>3. ~Valid(tokens, t) => TokenRefused(c)
    BY <2>1 DEF TokenRefused
  <2>4. Valid(tokens, t) => Made(c) \/ MadeInVain(c)
    BY <1>2, <2>1, <2>2 DEF Made, MadeInVain
  <2>. QED
    BY <1>2, <2>3, <2>4 DEF EnsureInitialized
<1>. QED
  BY <1>1, <1>2

(* How a refresh may end: the tokens will be stored, they are lost with    *)
(* the answer, or the refresh token is refused.                            *)
Granting(c) ==
  /\ refreshToken = grant
  /\ tokens' = [tokens EXCEPT !.issued = tokens.issued + 1]
  /\ grant' \in {grant, grant + 1}
ToStore(c) ==
  /\ Granting(c)
  /\ request' = [request EXCEPT ![c] = [session |-> grant', token |-> tokens.issued + 1]]
  /\ holder' = c /\ Goto(c, "store")
  /\ UNCHANGED <<blocks, iteration, again, effects, outcome, grantLost>>
GrantIsLost(c) ==
  /\ Granting(c)
  /\ grantLost' = (grantLost \/ grant' # grant)
  /\ Result(c, "lost") /\ UNCHANGED holder
GrantRefused(c) ==
  /\ refreshToken # grant
  /\ Result(c, "token")
  /\ UNCHANGED <<tokens, grant, holder, grantLost>>

(* Lemma: these are all of them.                                           *)
LEMMA RefreshCases ==
  ASSUME NEW c \in Caller, Refresh(c)
  PROVE  /\ pc[c] = "refresh" /\ holder = Nobody
         /\ UNCHANGED <<client, bearer, refreshToken, discovered, sessions, disturbed, outdated>>
         /\ ToStore(c) \/ GrantIsLost(c) \/ GrantRefused(c)
<1>1. CASE refreshToken = grant
  BY <1>1 DEF Refresh, LockFree, ToStore, GrantIsLost, Granting
<1>2. CASE refreshToken # grant
  BY <1>2 DEF Refresh, LockFree, GrantRefused
<1>. QED
  BY <1>1, <1>2

-----------------------------------------------------------------------------
(* Types.                                                                  *)

(* What a call writes.                                                     *)
CallTypes ==
  /\ pc \in [Caller -> {"idle", "model", "call", "ensure", "send", "sent", "expired", "done",
                        "refresh", "store"}]
  /\ iteration \in [Caller -> 0 .. MaxIterations]
  /\ blocks \in [Caller -> 0 .. MaxBlocks]
  /\ request \in [Caller -> [session : Nat, token : Nat]]
  /\ again \in [Caller -> [session : BOOLEAN, token : BOOLEAN]]
  /\ effects \in [Caller -> Nat]
  /\ outcome \in [Caller -> {"none", "ok", "session", "token", "lost"}]

(* Lemma: the end of a call keeps these types.                             *)
LEMMA ResultTypes ==
  ASSUME TypeOK, BlocksInv, NEW c \in Caller, pc[c] \notin {"idle", "model"},
         NEW how \in {"none", "ok", "session", "token", "lost"}, Result(c, how)
  PROVE  CallTypes'
<1> USE ToolCallsAssumption DEF TypeOK, Result, NoRequest, NotAgain, Goto
<1>1. blocks' \in [Caller -> 0 .. MaxBlocks]
  <2>1. blocks[c] - 1 \in 0 .. MaxBlocks
    BY DEF BlocksInv
  <2>. QED
    BY <2>1
<1>2. again' \in [Caller -> [session : BOOLEAN, token : BOOLEAN]]
  <2>1. NotAgain \in [session : BOOLEAN, token : BOOLEAN]
    OBVIOUS
  <2>. QED
    BY <2>1
<1>. QED
  BY <1>1, <1>2 DEF CallTypes

(* Lemma: and so do the steps that go on with it.                          *)
LEMMA GotoTypes ==
  ASSUME TypeOK, NEW c \in Caller,
         NEW to \in {"send", "sent", "expired", "done", "refresh", "store", "ensure"},
         Goto(c, to), UNCHANGED <<blocks, iteration, outcome>>,
         request' \in [Caller -> [session : Nat, token : Nat]],
         again' \in [Caller -> [session : BOOLEAN, token : BOOLEAN]],
         effects' \in [Caller -> Nat]
  PROVE  CallTypes'
  BY DEF TypeOK, Goto, CallTypes

(* Lemma: a call that is refused is refreshed, or ends.                   *)
LEMMA UnauthorizedTypes ==
  ASSUME TypeOK, BlocksInv, NEW c \in Caller, pc[c] \notin {"idle", "model"}, Unauthorized(c)
  PROVE  CallTypes'
<1>1. CASE again[c].token
  BY <1>1, ResultTypes DEF Unauthorized
<1>2. CASE ~again[c].token
  BY <1>2, GotoTypes DEF Unauthorized, TypeOK
<1>. QED
  BY <1>1, <1>2

(* Lemma: every step keeps the types.                                      *)
LEMMA StepTypeOK ==
  ASSUME IInv, [Next]_vars
  PROVE  TypeOK'
<1> USE ToolCallsAssumption DEF IInv, CallInv, TypeOK, Ids, NoRequest, NotAgain,
       attempts, shared, server, past, settings, Goto, ConfigTypeOK
<1>1. ASSUME NEW c \in Caller, Start(c) PROVE TypeOK'
  BY <1>1 DEF Start, Offers
<1>2. ASSUME NEW c \in Caller, ModelCalls(c) PROVE TypeOK'
  BY <1>2 DEF ModelCalls, MayAsk
<1>3. ASSUME NEW c \in Caller, ModelEnds(c) PROVE TypeOK'
  BY <1>3 DEF ModelEnds
<1>4. ASSUME NEW c \in Caller, RequestFails(c) PROVE TypeOK'
  BY <1>4 DEF RequestFails
<1>5. ASSUME NEW c \in Caller, CallOwn(c) PROVE TypeOK'
  BY <1>5, ResultTypes DEF CallOwn, CallTypes
<1>6. ASSUME NEW c \in Caller, CallRemote(c) PROVE TypeOK'
  BY <1>6 DEF CallRemote
<1>7. ASSUME NEW c \in Caller, EnsureInitialized(c) PROVE TypeOK'
  <2>0. pc[c] = "ensure"
    BY <1>7, EnsureCases
  <2>2. CallTypes'
    <3>1. CASE NotDue(c)
      BY <3>1, GotoTypes DEF NotDue
    <3>2. CASE TokenRefused(c)
      BY <2>0, <3>2, UnauthorizedTypes DEF TokenRefused
    <3>3. CASE Made(c)
      BY <3>3, GotoTypes DEF Made
    <3>4. CASE MadeInVain(c)
      BY <2>0, <3>4, ResultTypes DEF MadeInVain
    <3>. QED
      BY <1>7, <3>1, <3>2, <3>3, <3>4, EnsureCases
  <2>3. ASSUME Initialize(c)
        PROVE  /\ sessions' \in Ids /\ faults' \in 0 .. MaxFaults
               /\ outdated' \subseteq Caller
               /\ client' \in [session : 0 .. sessions'.issued, initialized : BOOLEAN,
                               attempted : BOOLEAN]
    <3>1. outdated' \subseteq Caller
      BY <2>3 DEF Initialize, Torn
    <3>2. CASE UNCHANGED <<client, sessions, faults>>
      BY <3>1, <3>2
    <3>3. CASE ~ UNCHANGED <<client, sessions, faults>>
      <4>1. /\ sessions' = [sessions EXCEPT !.issued = sessions.issued + 1]
            /\ faults' \in 0 .. MaxFaults
            /\ \/ client' = [client EXCEPT !.session = sessions.issued + 1, !.initialized = TRUE]
               \/ client' = [client EXCEPT !.session = sessions.issued + 1]
               \/ client' = client
        BY <2>3, <3>3 DEF Initialize, Fault
      <4>2. sessions' \in Ids /\ sessions'.issued = sessions.issued + 1
        BY <4>1
      <4>3. client' \in [session : 0 .. sessions'.issued, initialized : BOOLEAN,
                         attempted : BOOLEAN]
        <5>1. sessions.issued \in Nat /\ sessions'.issued = sessions.issued + 1
          BY <4>1
        <5>2. client \in [session : 0 .. sessions'.issued, initialized : BOOLEAN,
                         attempted : BOOLEAN]
          BY <5>1
        <5> HIDE DEF IInv, TypeOK, CallInv
        <5>3. sessions'.issued \in 0 .. sessions'.issued
          BY <5>1
        <5>4. CASE client' = [client EXCEPT !.session = sessions.issued + 1, !.initialized = TRUE]
          BY <5>1, <5>2, <5>3, <5>4
        <5>5. CASE client' = [client EXCEPT !.session = sessions.issued + 1]
          BY <5>1, <5>2, <5>3, <5>5
        <5>. QED
          BY <4>1, <5>2, <5>4, <5>5
      <4>. QED
        BY <3>1, <4>1, <4>2, <4>3
    <3>. QED
      BY <3>2, <3>3
  <2>. QED
    BY <1>7, <2>2, <2>3 DEF EnsureInitialized, CallTypes
<1>8. ASSUME NEW c \in Caller, Send(c) PROVE TypeOK'
  BY <1>8 DEF Send, Tokens, Torn
<1>9. ASSUME NEW c \in Caller, Answered(c) PROVE TypeOK'
  <2>1. CallTypes'
    <3>1. CASE Unauthorized(c)
      BY <1>9, <3>1, UnauthorizedTypes DEF Answered
    <3>2. CASE \E how \in {"session", "lost"} : Result(c, how)
      BY <1>9, <3>2, ResultTypes, SMTT(30) DEF Answered
    <3>3. CASE /\ \E to \in {"expired", "done"} : Goto(c, to)
               /\ \/ UNCHANGED effects
                  \/ effects' = [effects EXCEPT ![c] = @ + 1]
               /\ UNCHANGED <<blocks, iteration, request, again, outcome>>
      <4>1. /\ effects' \in [Caller -> Nat]
            /\ request' \in [Caller -> [session : Nat, token : Nat]]
        BY <3>3, SMTT(30)
      <4>2. again' \in [Caller -> [session : BOOLEAN, token : BOOLEAN]]
        BY <3>3
      <4>3. PICK to \in {"expired", "done"} : Goto(c, to)
        BY <3>3
      <4>4. UNCHANGED <<blocks, iteration, outcome>>
        BY <3>3
      <4>. QED
        BY <4>1, <4>2, <4>3, <4>4, GotoTypes
    <3>. QED
      BY <1>9, <3>1, <3>2, <3>3 DEF Answered, AnswerLost
  <2>2. faults' \in 0 .. MaxFaults
    BY <1>9 DEF Answered, Fault
  <2>. QED
    BY <1>9, <2>1, <2>2 DEF Answered, CallTypes
<1>10. ASSUME NEW c \in Caller, Return(c) PROVE TypeOK'
  BY <1>10, ResultTypes DEF Return, CallTypes
<1>11. ASSUME NEW c \in Caller, Reset(c) PROVE TypeOK'
  <2>1. again' \in [Caller -> [session : BOOLEAN, token : BOOLEAN]]
    <3>1. again' = [again EXCEPT ![c] = [again[c] EXCEPT !.session = TRUE]]
      BY <1>11 DEF Reset
    <3>2. again \in [Caller -> [session : BOOLEAN, token : BOOLEAN]]
      OBVIOUS
    <3> HIDE DEF IInv, TypeOK, CallInv
    <3>3. [again[c] EXCEPT !.session = TRUE] \in [session : BOOLEAN, token : BOOLEAN]
      BY <3>2
    <3>. QED
      BY <3>1, <3>2, <3>3
  <2>2. client' \in [session : 0 .. sessions'.issued, initialized : BOOLEAN, attempted : BOOLEAN]
    BY <1>11 DEF Reset
  <2>. QED
    BY <1>11, <2>1, <2>2 DEF Reset
<1>12. ASSUME NEW c \in Caller, Refresh(c) PROVE TypeOK'
  <2>1. CallTypes'
    <3>1. CASE \E how \in {"token", "lost"} : Result(c, how)
      <4>1. pc[c] = "refresh"
        BY <1>12 DEF Refresh, LockFree
      <4>. QED
        BY <3>1, <4>1, ResultTypes, SMTT(30)
    <3>2. CASE /\ \E g \in {grant, grant + 1} :
                    request' = [request EXCEPT ![c] = [session |-> g, token |-> tokens.issued + 1]]
               /\ Goto(c, "store")
               /\ UNCHANGED <<blocks, iteration, again, effects, outcome>>
      <4>1. request' \in [Caller -> [session : Nat, token : Nat]]
        BY <3>2
      <4>2. /\ again' \in [Caller -> [session : BOOLEAN, token : BOOLEAN]]
            /\ effects' \in [Caller -> Nat]
            /\ UNCHANGED <<blocks, iteration, outcome>> /\ Goto(c, "store")
        BY <3>2
      <4>. QED
        BY <4>1, <4>2, GotoTypes
    <3>. QED
      BY <1>12, <3>1, <3>2 DEF Refresh
  <2>2. /\ tokens' \in Ids /\ tokens'.issued >= tokens.issued
        /\ grant' \in Nat /\ grant' >= grant
        /\ holder' \in Caller \cup {Nobody} /\ faults' \in 0 .. MaxFaults
    <3>1. \/ tokens' = [tokens EXCEPT !.issued = tokens.issued + 1]
          \/ tokens' = tokens
      BY <1>12 DEF Refresh
    <3>2. grant' \in {grant, grant + 1}
      BY <1>12 DEF Refresh
    <3>3. holder' \in Caller \cup {Nobody} /\ faults' \in 0 .. MaxFaults
      BY <1>12 DEF Refresh, Fault
    <3>4. tokens' \in Ids /\ tokens'.issued >= tokens.issued
      BY <3>1
    <3>. QED
      BY <3>2, <3>3, <3>4
  <2>3. grantLost' \in BOOLEAN
    BY <1>12 DEF Refresh
  <2>. QED
    BY <1>12, <2>1, <2>2, <2>3 DEF Refresh, CallTypes
<1>13. ASSUME NEW c \in Caller, StoreTokens(c) PROVE TypeOK'
  <2>1. request[c].token \in 1 .. tokens.issued /\ request[c].session \in 1 .. grant
    BY <1>13 DEF StoreTokens, GrantInv
  <2>2. again' \in [Caller -> [session : BOOLEAN, token : BOOLEAN]]
    BY <1>13 DEF StoreTokens
  <2>. QED
    BY <1>13, <2>1, <2>2 DEF StoreTokens
<1>14. CASE ServerRestarts
  BY <1>14 DEF ServerRestarts, Outage
<1>15. CASE TokenExpires
  BY <1>15 DEF TokenExpires, Outage
<1>16. CASE Restart
  BY <1>16 DEF Restart, Fault, EndCommand, Known, Granted, ListsTools, Valid
<1>17. CASE ConfigStep /\ UNCHANGED <<attempts, shared, server, past, outages, faults>>
  BY <1>17, StepConfig
<1>18. CASE UNCHANGED vars
  BY <1>18 DEF vars, settings
<1>. QED
  BY <1>1, <1>2, <1>3, <1>4, <1>5, <1>6, <1>7, <1>8, <1>9, <1>10, <1>11, <1>12, <1>13,
     <1>14, <1>15, <1>16, <1>17, <1>18 DEF Next, CallStep

-----------------------------------------------------------------------------
(* The calls.                                                              *)

(* Lemma: a call ends with one block less, and is followed by the next one *)
(* only when there is one.                                                 *)
LEMMA ResultBlocks ==
  ASSUME TypeOK, BlocksInv, NEW c \in Caller, pc[c] \notin {"idle", "model"},
         NEW how, Result(c, how)
  PROVE  BlocksInv'
<1>1. /\ blocks[c] \in Nat /\ blocks[c] > 0
      /\ pc' = [pc EXCEPT ![c] = IF blocks[c] = 1 THEN "model" ELSE "call"]
      /\ blocks' = [blocks EXCEPT ![c] = blocks[c] - 1]
  BY DEF TypeOK, BlocksInv, Result, Goto
<1>2. blocks'[c] = blocks[c] - 1 /\ \A d \in Caller : d # c => blocks'[d] = blocks[d]
  BY <1>1 DEF TypeOK
<1>3. CASE blocks[c] = 1
  BY <1>1, <1>2, <1>3 DEF TypeOK, BlocksInv
<1>4. CASE blocks[c] # 1
  <2>1. blocks[c] - 1 > 0
    BY <1>1, <1>4
  <2>. QED
    BY <1>1, <1>2, <2>1 DEF TypeOK, BlocksInv
<1>. QED
  BY <1>3, <1>4

(* Lemma: whatever a step of a call is, blocks are left for those at work. *)
LEMMA StepBlocksInv ==
  ASSUME TypeOK, CallInv, [Next]_vars
  PROVE  BlocksInv'
<1> USE ToolCallsAssumption DEF TypeOK, CallInv, BlocksInv, attempts, Goto
<1>1. ASSUME NEW c \in Caller, Start(c) PROVE BlocksInv'
  BY <1>1 DEF Start
<1>2. ASSUME NEW c \in Caller, ModelCalls(c) PROVE BlocksInv'
  BY <1>2 DEF ModelCalls
<1>3. ASSUME NEW c \in Caller, ModelEnds(c) PROVE BlocksInv'
  BY <1>3 DEF ModelEnds
<1>4. ASSUME NEW c \in Caller, RequestFails(c) PROVE BlocksInv'
  BY <1>4 DEF RequestFails
<1>5. ASSUME NEW c \in Caller, CallOwn(c) PROVE BlocksInv'
  BY <1>5, ResultBlocks DEF CallOwn
<1>6. ASSUME NEW c \in Caller, CallRemote(c) PROVE BlocksInv'
  BY <1>6 DEF CallRemote
<1>7. ASSUME NEW c \in Caller, EnsureInitialized(c) PROVE BlocksInv'
  BY <1>7, ResultBlocks DEF EnsureInitialized, Initialize, Unauthorized
<1>8. ASSUME NEW c \in Caller, Send(c) PROVE BlocksInv'
  BY <1>8 DEF Send, Tokens, Torn
<1>9. ASSUME NEW c \in Caller, Answered(c) PROVE BlocksInv'
  BY <1>9, ResultBlocks DEF Answered, Unauthorized, AnswerLost
<1>10. ASSUME NEW c \in Caller, Return(c) PROVE BlocksInv'
  BY <1>10, ResultBlocks DEF Return
<1>11. ASSUME NEW c \in Caller, Reset(c) PROVE BlocksInv'
  BY <1>11 DEF Reset
<1>12. ASSUME NEW c \in Caller, Refresh(c) PROVE BlocksInv'
  BY <1>12, ResultBlocks DEF Refresh, LockFree
<1>13. ASSUME NEW c \in Caller, StoreTokens(c) PROVE BlocksInv'
  BY <1>13 DEF StoreTokens
<1>14. CASE ServerRestarts
  BY <1>14 DEF ServerRestarts
<1>15. CASE TokenExpires
  BY <1>15 DEF TokenExpires
<1>16. CASE Restart
  BY <1>16 DEF Restart
<1>17. CASE UNCHANGED <<attempts, shared, server, past>>
  BY <1>17
<1>. QED
  BY <1>1, <1>2, <1>3, <1>4, <1>5, <1>6, <1>7, <1>8, <1>9, <1>10, <1>11, <1>12, <1>13,
     <1>14, <1>15, <1>16, <1>17 DEF Next, CallStep, vars

(* Lemma: the mutex is taken by the call that will store, and released     *)
(* when it has.                                                            *)
LEMMA StepMutexInv ==
  ASSUME TypeOK, CallInv, [Next]_vars
  PROVE  MutexInv'
<1> USE ToolCallsAssumption DEF TypeOK, CallInv, MutexInv, attempts, shared, Goto
<1>1. ASSUME NEW c \in Caller, Start(c) PROVE MutexInv'
  BY <1>1 DEF Start
<1>2. ASSUME NEW c \in Caller, ModelCalls(c) PROVE MutexInv'
  BY <1>2 DEF ModelCalls
<1>3. ASSUME NEW c \in Caller, ModelEnds(c) PROVE MutexInv'
  BY <1>3 DEF ModelEnds
<1>4. ASSUME NEW c \in Caller, RequestFails(c) PROVE MutexInv'
  BY <1>4 DEF RequestFails
<1>5. ASSUME NEW c \in Caller, CallOwn(c) PROVE MutexInv'
  BY <1>5 DEF CallOwn, Result
<1>6. ASSUME NEW c \in Caller, CallRemote(c) PROVE MutexInv'
  BY <1>6 DEF CallRemote
<1>7. ASSUME NEW c \in Caller, EnsureInitialized(c) PROVE MutexInv'
  BY <1>7 DEF EnsureInitialized, Initialize, Unauthorized, Torn, Result, Tokens
<1>8. ASSUME NEW c \in Caller, Send(c) PROVE MutexInv'
  BY <1>8 DEF Send, Tokens, Torn
<1>9. ASSUME NEW c \in Caller, Answered(c) PROVE MutexInv'
  BY <1>9 DEF Answered, Unauthorized, Result, AnswerLost
<1>10. ASSUME NEW c \in Caller, Return(c) PROVE MutexInv'
  BY <1>10 DEF Return, Result
<1>11. ASSUME NEW c \in Caller, Reset(c) PROVE MutexInv'
  BY <1>11 DEF Reset
<1>12. ASSUME NEW c \in Caller, Refresh(c) PROVE MutexInv'
  BY <1>12 DEF Refresh, LockFree, Result
<1>13. ASSUME NEW c \in Caller, StoreTokens(c) PROVE MutexInv'
  BY <1>13 DEF StoreTokens
<1>14. CASE ServerRestarts
  BY <1>14 DEF ServerRestarts
<1>15. CASE TokenExpires
  BY <1>15 DEF TokenExpires
<1>16. CASE Restart
  BY <1>16 DEF Restart
<1>17. CASE UNCHANGED <<attempts, shared, server, past>>
  BY <1>17
<1>. QED
  BY <1>1, <1>2, <1>3, <1>4, <1>5, <1>6, <1>7, <1>8, <1>9, <1>10, <1>11, <1>12, <1>13,
     <1>14, <1>15, <1>16, <1>17 DEF Next, CallStep, vars

(* Lemma: what the server carries out returns.                             *)
LEMMA StepEffectInv ==
  ASSUME TypeOK, CallInv, [Next]_vars
  PROVE  EffectInv'
<1> USE ToolCallsAssumption DEF TypeOK, CallInv, EffectInv, attempts, past, Goto
<1>1. ASSUME NEW c \in Caller, Start(c) PROVE EffectInv'
  BY <1>1 DEF Start
<1>2. ASSUME NEW c \in Caller, ModelCalls(c) PROVE EffectInv'
  BY <1>2 DEF ModelCalls
<1>3. ASSUME NEW c \in Caller, ModelEnds(c) PROVE EffectInv'
  BY <1>3 DEF ModelEnds
<1>4. ASSUME NEW c \in Caller, RequestFails(c) PROVE EffectInv'
  BY <1>4 DEF RequestFails
<1>5. ASSUME NEW c \in Caller, CallOwn(c) PROVE EffectInv'
  BY <1>5 DEF CallOwn, Result
<1>6. ASSUME NEW c \in Caller, CallRemote(c) PROVE EffectInv'
  BY <1>6 DEF CallRemote
<1>7. ASSUME NEW c \in Caller, EnsureInitialized(c) PROVE EffectInv'
  BY <1>7 DEF EnsureInitialized, Initialize, Unauthorized, Torn, Result, Tokens
<1>8. ASSUME NEW c \in Caller, Send(c) PROVE EffectInv'
  BY <1>8 DEF Send, Tokens, Torn
<1>9. ASSUME NEW c \in Caller, Answered(c) PROVE EffectInv'
  BY <1>9 DEF Answered, Unauthorized, Result, AnswerLost
<1>10. ASSUME NEW c \in Caller, Return(c) PROVE EffectInv'
  BY <1>10 DEF Return, Result
<1>11. ASSUME NEW c \in Caller, Reset(c) PROVE EffectInv'
  BY <1>11 DEF Reset
<1>12. ASSUME NEW c \in Caller, Refresh(c) PROVE EffectInv'
  BY <1>12 DEF Refresh, LockFree, Result
<1>13. ASSUME NEW c \in Caller, StoreTokens(c) PROVE EffectInv'
  BY <1>13 DEF StoreTokens
<1>14. CASE ServerRestarts
  BY <1>14 DEF ServerRestarts
<1>15. CASE TokenExpires
  BY <1>15 DEF TokenExpires
<1>16. CASE Restart
  BY <1>16 DEF Restart
<1>17. CASE UNCHANGED <<attempts, shared, server, past>>
  BY <1>17
<1>. QED
  BY <1>1, <1>2, <1>3, <1>4, <1>5, <1>6, <1>7, <1>8, <1>9, <1>10, <1>11, <1>12, <1>13,
     <1>14, <1>15, <1>16, <1>17 DEF Next, CallStep, vars

(* Lemma: nothing is done over before a call begins.                       *)
LEMMA StepAgainInv ==
  ASSUME TypeOK, CallInv, [Next]_vars
  PROVE  AgainInv'
<1> USE ToolCallsAssumption DEF TypeOK, CallInv, AgainInv, NotAgain, Calling, attempts,
       Goto
<1>1. ASSUME NEW c \in Caller, Start(c) PROVE AgainInv'
  BY <1>1 DEF Start
<1>2. ASSUME NEW c \in Caller, ModelCalls(c) PROVE AgainInv'
  BY <1>2 DEF ModelCalls
<1>3. ASSUME NEW c \in Caller, ModelEnds(c) PROVE AgainInv'
  BY <1>3 DEF ModelEnds
<1>4. ASSUME NEW c \in Caller, RequestFails(c) PROVE AgainInv'
  BY <1>4 DEF RequestFails
<1>5. ASSUME NEW c \in Caller, CallOwn(c) PROVE AgainInv'
  BY <1>5 DEF CallOwn, Result
<1>6. ASSUME NEW c \in Caller, CallRemote(c) PROVE AgainInv'
  BY <1>6 DEF CallRemote
<1>7. ASSUME NEW c \in Caller, EnsureInitialized(c) PROVE AgainInv'
  <2>0. /\ pc[c] = "ensure"
        /\ UNCHANGED <<bearer, refreshToken, holder, discovered, tokens, grant, disturbed,
                       grantLost>>
    BY <1>7, EnsureCases
  <2>1. CASE NotDue(c)
    BY <2>0, <2>1 DEF NotDue
  <2>2. CASE TokenRefused(c)
    BY <2>0, <2>2, ZenonT(30) DEF TokenRefused, Unauthorized, Torn, Tokens, Result
  <2>3. CASE Made(c)
    BY <2>0, <2>3 DEF Made
  <2>4. CASE MadeInVain(c)
    BY <2>0, <2>4 DEF MadeInVain, Result
  <2>. QED
    BY <1>7, <2>1, <2>2, <2>3, <2>4, EnsureCases
<1>8. ASSUME NEW c \in Caller, Send(c) PROVE AgainInv'
  BY <1>8 DEF Send, Tokens, Torn
<1>9. ASSUME NEW c \in Caller, Answered(c) PROVE AgainInv'
  <2>1. \/ Unauthorized(c) \/ \E how \in {"session", "lost"} : Result(c, how)
        \/ /\ \E to \in {"expired", "done"} : Goto(c, to)
           /\ UNCHANGED <<request, again, outcome>>
    BY <1>9 DEF Answered, AnswerLost
  <2>2. \/ /\ again' = [again EXCEPT ![c] = NotAgain]
           /\ \E to \in {"model", "call"} : pc' = [pc EXCEPT ![c] = to]
        \/ /\ again' = again
           /\ \E to \in {"expired", "done", "refresh"} : pc' = [pc EXCEPT ![c] = to]
    <3> HIDE DEF IInv, TypeOK, CallInv
    <3>. QED
      BY <2>1 DEF Unauthorized, Result
  <2>3. CASE /\ again' = [again EXCEPT ![c] = NotAgain]
             /\ \E to \in {"model", "call"} : pc' = [pc EXCEPT ![c] = to]
    BY <2>3
  <2>4. CASE /\ again' = again
             /\ \E to \in {"expired", "done", "refresh"} : pc' = [pc EXCEPT ![c] = to]
    BY <2>4
  <2>. QED
    BY <2>2, <2>3, <2>4
<1>10. ASSUME NEW c \in Caller, Return(c) PROVE AgainInv'
  BY <1>10 DEF Return, Result
<1>11. ASSUME NEW c \in Caller, Reset(c) PROVE AgainInv'
  BY <1>11 DEF Reset
<1>12. ASSUME NEW c \in Caller, Refresh(c) PROVE AgainInv'
  <2>0. /\ pc[c] = "refresh" /\ holder = Nobody
        /\ UNCHANGED <<client, bearer, refreshToken, discovered, sessions, disturbed, outdated>>
    BY <1>12, RefreshCases
  <2>1. CASE ToStore(c)
    BY <2>0, <2>1 DEF ToStore, Granting
  <2>2. CASE GrantIsLost(c)
    BY <2>0, <2>2 DEF GrantIsLost, Granting, Result
  <2>3. CASE GrantRefused(c)
    BY <2>0, <2>3 DEF GrantRefused, Result
  <2>. QED
    BY <1>12, <2>1, <2>2, <2>3, RefreshCases
<1>13. ASSUME NEW c \in Caller, StoreTokens(c) PROVE AgainInv'
  BY <1>13 DEF StoreTokens
<1>14. CASE ServerRestarts
  BY <1>14 DEF ServerRestarts
<1>15. CASE TokenExpires
  BY <1>15 DEF TokenExpires
<1>16. CASE Restart
  BY <1>16 DEF Restart
<1>17. CASE UNCHANGED <<attempts, shared, server, past>>
  BY <1>17
<1>. QED
  BY <1>1, <1>2, <1>3, <1>4, <1>5, <1>6, <1>7, <1>8, <1>9, <1>10, <1>11, <1>12, <1>13,
     <1>14, <1>15, <1>16, <1>17 DEF Next, CallStep, vars

(* Lemma: what is voided was issued.                                       *)
LEMMA StepIdsInv ==
  ASSUME TypeOK, CallInv, [Next]_vars
  PROVE  IdsInv'
<1> USE ToolCallsAssumption DEF TypeOK, CallInv, IdsInv, Ids, server, Goto
<1>1. ASSUME NEW c \in Caller, Start(c) PROVE IdsInv'
  BY <1>1 DEF Start
<1>2. ASSUME NEW c \in Caller, ModelCalls(c) PROVE IdsInv'
  BY <1>2 DEF ModelCalls
<1>3. ASSUME NEW c \in Caller, ModelEnds(c) PROVE IdsInv'
  BY <1>3 DEF ModelEnds
<1>4. ASSUME NEW c \in Caller, RequestFails(c) PROVE IdsInv'
  BY <1>4 DEF RequestFails
<1>5. ASSUME NEW c \in Caller, CallOwn(c) PROVE IdsInv'
  BY <1>5 DEF CallOwn, Result
<1>6. ASSUME NEW c \in Caller, CallRemote(c) PROVE IdsInv'
  BY <1>6 DEF CallRemote
<1>7. ASSUME NEW c \in Caller, EnsureInitialized(c) PROVE IdsInv'
  BY <1>7, SMTT(30) DEF EnsureInitialized, Initialize, Unauthorized, Torn, Result, Tokens
<1>8. ASSUME NEW c \in Caller, Send(c) PROVE IdsInv'
  BY <1>8 DEF Send, Tokens, Torn
<1>9. ASSUME NEW c \in Caller, Answered(c) PROVE IdsInv'
  BY <1>9 DEF Answered, Unauthorized, Result, AnswerLost
<1>10. ASSUME NEW c \in Caller, Return(c) PROVE IdsInv'
  BY <1>10 DEF Return, Result
<1>11. ASSUME NEW c \in Caller, Reset(c) PROVE IdsInv'
  BY <1>11 DEF Reset
<1>12. ASSUME NEW c \in Caller, Refresh(c) PROVE IdsInv'
  BY <1>12 DEF Refresh, LockFree, Result
<1>13. ASSUME NEW c \in Caller, StoreTokens(c) PROVE IdsInv'
  BY <1>13 DEF StoreTokens
<1>14. CASE ServerRestarts
  BY <1>14 DEF ServerRestarts
<1>15. CASE TokenExpires
  BY <1>15 DEF TokenExpires
<1>16. CASE Restart
  BY <1>16 DEF Restart
<1>17. CASE UNCHANGED <<attempts, shared, server, past>>
  BY <1>17
<1>. QED
  BY <1>1, <1>2, <1>3, <1>4, <1>5, <1>6, <1>7, <1>8, <1>9, <1>10, <1>11, <1>12, <1>13,
     <1>14, <1>15, <1>16, <1>17 DEF Next, CallStep, vars

(* Lemma: the refresh token that is kept stays the last granted, or its    *)
(* loss is recorded.                                                       *)
LEMMA StepGrantInv ==
  ASSUME TypeOK, CallInv, [Next]_vars
  PROVE  GrantInv'
<1> USE ToolCallsAssumption DEF TypeOK, CallInv, GrantInv, attempts, shared, server,
       past, MutexInv, Goto
<1>1. ASSUME NEW c \in Caller, Start(c) PROVE GrantInv'
  BY <1>1 DEF Start
<1>2. ASSUME NEW c \in Caller, ModelCalls(c) PROVE GrantInv'
  BY <1>2 DEF ModelCalls
<1>3. ASSUME NEW c \in Caller, ModelEnds(c) PROVE GrantInv'
  BY <1>3 DEF ModelEnds
<1>4. ASSUME NEW c \in Caller, RequestFails(c) PROVE GrantInv'
  BY <1>4 DEF RequestFails
<1>5. ASSUME NEW c \in Caller, CallOwn(c) PROVE GrantInv'
  BY <1>5 DEF CallOwn, Result
<1>6. ASSUME NEW c \in Caller, CallRemote(c) PROVE GrantInv'
  BY <1>6 DEF CallRemote
<1>7. ASSUME NEW c \in Caller, EnsureInitialized(c) PROVE GrantInv'
  <2>0. /\ pc[c] = "ensure"
        /\ UNCHANGED <<bearer, refreshToken, holder, discovered, tokens, grant, disturbed,
                       grantLost>>
    BY <1>7, EnsureCases
  <2>1. CASE NotDue(c)
    BY <2>0, <2>1 DEF NotDue
  <2>2. CASE TokenRefused(c)
    <3>1. CASE Result(c, "token")
      BY <2>0, <2>2, <3>1 DEF TokenRefused, Torn, Result
    <3>2. CASE Goto(c, "refresh") /\ UNCHANGED <<request, again>>
      BY <2>0, <2>2, <3>2 DEF TokenRefused, Torn
    <3>. QED
      BY <2>2, <3>1, <3>2 DEF TokenRefused, Unauthorized
  <2>3. CASE Made(c)
    BY <2>0, <2>3 DEF Made
  <2>4. CASE MadeInVain(c)
    BY <2>0, <2>4 DEF MadeInVain, Result
  <2>. QED
    BY <1>7, <2>1, <2>2, <2>3, <2>4, EnsureCases
<1>8. ASSUME NEW c \in Caller, Send(c) PROVE GrantInv'
  BY <1>8 DEF Send, Tokens, Torn
<1>9. ASSUME NEW c \in Caller, Answered(c) PROVE GrantInv'
  BY <1>9, SMTT(30) DEF Answered, Unauthorized, Result, AnswerLost
<1>10. ASSUME NEW c \in Caller, Return(c) PROVE GrantInv'
  BY <1>10 DEF Return, Result
<1>11. ASSUME NEW c \in Caller, Reset(c) PROVE GrantInv'
  BY <1>11 DEF Reset
<1>12. ASSUME NEW c \in Caller, Refresh(c) PROVE GrantInv'
  <2>0. /\ pc[c] = "refresh" /\ holder = Nobody
        /\ UNCHANGED <<client, bearer, refreshToken, discovered, sessions, disturbed, outdated>>
    BY <1>12, RefreshCases
  <2>1. CASE ToStore(c)
    <3>1. tokens'.issued = tokens.issued + 1 /\ tokens.issued \in Nat
      BY <2>1 DEF ToStore, Granting, Ids
    <3>2. request'[c] = [session |-> grant', token |-> tokens.issued + 1]
      BY <2>1 DEF ToStore
    <3>3. \A d \in Caller : pc'[d] = "store" => d = c
      BY <2>0, <2>1 DEF ToStore
    <3>. QED
      BY <2>1, <3>1, <3>2, <3>3 DEF ToStore, Granting
  <2>2. CASE GrantIsLost(c)
    BY <2>0, <2>2 DEF GrantIsLost, Granting, Result
  <2>3. CASE GrantRefused(c)
    BY <2>0, <2>3 DEF GrantRefused, Result
  <2>. QED
    BY <1>12, <2>1, <2>2, <2>3, RefreshCases
<1>13. ASSUME NEW c \in Caller, StoreTokens(c) PROVE GrantInv'
  BY <1>13 DEF StoreTokens
<1>14. CASE ServerRestarts
  BY <1>14 DEF ServerRestarts
<1>15. CASE TokenExpires
  BY <1>15 DEF TokenExpires
<1>16. CASE Restart
  BY <1>16 DEF Restart
<1>17. CASE UNCHANGED <<attempts, shared, server, past>>
  BY <1>17
<1>. QED
  BY <1>1, <1>2, <1>3, <1>4, <1>5, <1>6, <1>7, <1>8, <1>9, <1>10, <1>11, <1>12, <1>13,
     <1>14, <1>15, <1>16, <1>17 DEF Next, CallStep, vars

(* Lemma: a call that made a new session keeps it, or is disturbed.        *)
LEMMA StepSessionInv ==
  ASSUME TypeOK, CallInv, [Next]_vars
  PROVE  SessionInv'
<1> USE ToolCallsAssumption DEF TypeOK, CallInv, AgainInv, NotAgain, SessionInv, IdsInv,
       Valid, Calling, Ids, attempts, shared, server, past, Goto
<1>1. ASSUME NEW c \in Caller, Start(c) PROVE SessionInv'
  BY <1>1 DEF Start
<1>2. ASSUME NEW c \in Caller, ModelCalls(c) PROVE SessionInv'
  BY <1>2 DEF ModelCalls
<1>3. ASSUME NEW c \in Caller, ModelEnds(c) PROVE SessionInv'
  BY <1>3 DEF ModelEnds
<1>4. ASSUME NEW c \in Caller, RequestFails(c) PROVE SessionInv'
  BY <1>4 DEF RequestFails
<1>5. ASSUME NEW c \in Caller, CallOwn(c) PROVE SessionInv'
  BY <1>5 DEF CallOwn, Result
<1>6. ASSUME NEW c \in Caller, CallRemote(c) PROVE SessionInv'
  BY <1>6 DEF CallRemote
<1>7. ASSUME NEW c \in Caller, EnsureInitialized(c) PROVE SessionInv'
  <2>0. /\ pc[c] = "ensure"
        /\ UNCHANGED <<bearer, refreshToken, holder, discovered, tokens, grant, disturbed,
                       grantLost>>
    BY <1>7, EnsureCases
  <2>1. CASE NotDue(c)
    BY <2>0, <2>1 DEF NotDue
  <2>2. CASE TokenRefused(c)
    <3>1. CASE Result(c, "token")
      BY <2>0, <2>2, <3>1 DEF TokenRefused, Torn, Result
    <3>2. CASE Goto(c, "refresh") /\ UNCHANGED <<request, again>>
      BY <2>0, <2>2, <3>2 DEF TokenRefused, Torn
    <3>. QED
      BY <2>2, <3>1, <3>2 DEF TokenRefused, Unauthorized
  <2>3. CASE Made(c)
    BY <2>0, <2>3 DEF Made
  <2>4. CASE MadeInVain(c)
    BY <2>0, <2>4 DEF MadeInVain, Result
  <2>. QED
    BY <1>7, <2>1, <2>2, <2>3, <2>4, EnsureCases
<1>8. ASSUME NEW c \in Caller, Send(c) PROVE SessionInv'
  BY <1>8 DEF Send, Tokens, Torn
<1>9. ASSUME NEW c \in Caller, Answered(c) PROVE SessionInv'
  BY <1>9 DEF Answered, Unauthorized, Result, AnswerLost
<1>10. ASSUME NEW c \in Caller, Return(c) PROVE SessionInv'
  BY <1>10 DEF Return, Result
<1>11. ASSUME NEW c \in Caller, Reset(c) PROVE SessionInv'
  BY <1>11 DEF Reset
<1>12. ASSUME NEW c \in Caller, Refresh(c) PROVE SessionInv'
  <2>0. /\ pc[c] = "refresh" /\ holder = Nobody
        /\ UNCHANGED <<client, bearer, refreshToken, discovered, sessions, disturbed, outdated>>
    BY <1>12, RefreshCases
  <2>1. CASE ToStore(c)
    BY <2>0, <2>1 DEF ToStore, Granting
  <2>2. CASE GrantIsLost(c)
    BY <2>0, <2>2 DEF GrantIsLost, Granting, Result
  <2>3. CASE GrantRefused(c)
    BY <2>0, <2>3 DEF GrantRefused, Result
  <2>. QED
    BY <1>12, <2>1, <2>2, <2>3, RefreshCases
<1>13. ASSUME NEW c \in Caller, StoreTokens(c) PROVE SessionInv'
  BY <1>13 DEF StoreTokens
<1>14. CASE ServerRestarts
  BY <1>14 DEF ServerRestarts
<1>15. CASE TokenExpires
  BY <1>15 DEF TokenExpires
<1>16. CASE Restart
  BY <1>16 DEF Restart
<1>17. CASE UNCHANGED <<attempts, shared, server, past>>
  BY <1>17
<1>. QED
  BY <1>1, <1>2, <1>3, <1>4, <1>5, <1>6, <1>7, <1>8, <1>9, <1>10, <1>11, <1>12, <1>13,
     <1>14, <1>15, <1>16, <1>17 DEF Next, CallStep, vars

(* Lemma: a call that was refreshed keeps its token, or is outdated.       *)
LEMMA StepTokenInv ==
  ASSUME TypeOK, CallInv, [Next]_vars
  PROVE  TokenInv'
<1> USE ToolCallsAssumption DEF TypeOK, CallInv, AgainInv, NotAgain, TokenInv, MutexInv,
       IdsInv, Valid, Calling, Ids, attempts, shared, server, past, Goto
<1>1. ASSUME NEW c \in Caller, Start(c) PROVE TokenInv'
  BY <1>1 DEF Start
<1>2. ASSUME NEW c \in Caller, ModelCalls(c) PROVE TokenInv'
  BY <1>2 DEF ModelCalls
<1>3. ASSUME NEW c \in Caller, ModelEnds(c) PROVE TokenInv'
  BY <1>3 DEF ModelEnds
<1>4. ASSUME NEW c \in Caller, RequestFails(c) PROVE TokenInv'
  BY <1>4 DEF RequestFails
<1>5. ASSUME NEW c \in Caller, CallOwn(c) PROVE TokenInv'
  BY <1>5 DEF CallOwn, Result
<1>6. ASSUME NEW c \in Caller, CallRemote(c) PROVE TokenInv'
  BY <1>6 DEF CallRemote
<1>7. ASSUME NEW c \in Caller, EnsureInitialized(c) PROVE TokenInv'
  <2>0. /\ pc[c] = "ensure"
        /\ UNCHANGED <<bearer, refreshToken, holder, discovered, tokens, grant, disturbed,
                       grantLost>>
    BY <1>7, EnsureCases
  <2>1. CASE NotDue(c)
    BY <2>0, <2>1 DEF NotDue
  <2>2. CASE TokenRefused(c)
    <3>1. CASE Result(c, "token")
      BY <2>0, <2>2, <3>1 DEF TokenRefused, Torn, Result
    <3>2. CASE Goto(c, "refresh") /\ UNCHANGED <<request, again>>
      BY <2>0, <2>2, <3>2 DEF TokenRefused, Torn
    <3>. QED
      BY <2>2, <3>1, <3>2 DEF TokenRefused, Unauthorized
  <2>3. CASE Made(c)
    BY <2>0, <2>3 DEF Made
  <2>4. CASE MadeInVain(c)
    BY <2>0, <2>4 DEF MadeInVain, Result
  <2>. QED
    BY <1>7, <2>1, <2>2, <2>3, <2>4, EnsureCases
<1>8. ASSUME NEW c \in Caller, Send(c) PROVE TokenInv'
  BY <1>8 DEF Send, Tokens, Torn
<1>9. ASSUME NEW c \in Caller, Answered(c) PROVE TokenInv'
  BY <1>9 DEF Answered, Unauthorized, Result, AnswerLost
<1>10. ASSUME NEW c \in Caller, Return(c) PROVE TokenInv'
  BY <1>10 DEF Return, Result
<1>11. ASSUME NEW c \in Caller, Reset(c) PROVE TokenInv'
  BY <1>11 DEF Reset
<1>12. ASSUME NEW c \in Caller, Refresh(c) PROVE TokenInv'
  <2>0. /\ pc[c] = "refresh" /\ holder = Nobody
        /\ UNCHANGED <<client, bearer, refreshToken, discovered, sessions, disturbed, outdated>>
    BY <1>12, RefreshCases
  <2>1. CASE ToStore(c)
    BY <2>0, <2>1 DEF ToStore, Granting
  <2>2. CASE GrantIsLost(c)
    BY <2>0, <2>2 DEF GrantIsLost, Granting, Result
  <2>3. CASE GrantRefused(c)
    BY <2>0, <2>3 DEF GrantRefused, Result
  <2>. QED
    BY <1>12, <2>1, <2>2, <2>3, RefreshCases
<1>13. ASSUME NEW c \in Caller, StoreTokens(c) PROVE TokenInv'
  BY <1>13 DEF StoreTokens
<1>14. CASE ServerRestarts
  BY <1>14 DEF ServerRestarts
<1>15. CASE TokenExpires
  BY <1>15 DEF TokenExpires
<1>16. CASE Restart
  BY <1>16 DEF Restart
<1>17. CASE UNCHANGED <<attempts, shared, server, past>>
  BY <1>17
<1>. QED
  BY <1>1, <1>2, <1>3, <1>4, <1>5, <1>6, <1>7, <1>8, <1>9, <1>10, <1>11, <1>12, <1>13,
     <1>14, <1>15, <1>16, <1>17 DEF Next, CallStep, vars

(* Lemma: so a call that fails of its session was disturbed.               *)
LEMMA StepSessionErrorExplained ==
  ASSUME TypeOK, CallInv, SessionErrorExplained, [Next]_vars
  PROVE  SessionErrorExplained'
<1> USE ToolCallsAssumption DEF TypeOK, CallInv, SessionErrorExplained, SessionInv,
       Valid, Calling, Ids, attempts, shared, server, past, Goto
<1>1. ASSUME NEW c \in Caller, Start(c) PROVE SessionErrorExplained'
  BY <1>1 DEF Start
<1>2. ASSUME NEW c \in Caller, ModelCalls(c) PROVE SessionErrorExplained'
  BY <1>2 DEF ModelCalls
<1>3. ASSUME NEW c \in Caller, ModelEnds(c) PROVE SessionErrorExplained'
  BY <1>3 DEF ModelEnds
<1>4. ASSUME NEW c \in Caller, RequestFails(c) PROVE SessionErrorExplained'
  BY <1>4 DEF RequestFails
<1>5. ASSUME NEW c \in Caller, CallOwn(c) PROVE SessionErrorExplained'
  BY <1>5 DEF CallOwn, Result
<1>6. ASSUME NEW c \in Caller, CallRemote(c) PROVE SessionErrorExplained'
  BY <1>6 DEF CallRemote
<1>7. ASSUME NEW c \in Caller, EnsureInitialized(c) PROVE SessionErrorExplained'
  <2>0. /\ pc[c] = "ensure"
        /\ UNCHANGED <<bearer, refreshToken, holder, discovered, tokens, grant, disturbed,
                       grantLost>>
    BY <1>7, EnsureCases
  <2>1. CASE NotDue(c)
    BY <2>0, <2>1 DEF NotDue
  <2>2. CASE TokenRefused(c)
    <3>1. CASE Result(c, "token")
      BY <2>0, <2>2, <3>1 DEF TokenRefused, Torn, Result
    <3>2. CASE Goto(c, "refresh") /\ UNCHANGED <<request, again, outcome>>
      BY <2>0, <2>2, <3>2 DEF TokenRefused, Torn
    <3>. QED
      BY <2>2, <3>1, <3>2 DEF TokenRefused, Unauthorized
  <2>3. CASE Made(c)
    BY <2>0, <2>3 DEF Made
  <2>4. CASE MadeInVain(c)
    BY <2>0, <2>4 DEF MadeInVain, Result
  <2>. QED
    BY <1>7, <2>1, <2>2, <2>3, <2>4, EnsureCases
<1>8. ASSUME NEW c \in Caller, Send(c) PROVE SessionErrorExplained'
  BY <1>8 DEF Send, Tokens, Torn
<1>9. ASSUME NEW c \in Caller, Answered(c) PROVE SessionErrorExplained'
  BY <1>9 DEF Answered, Unauthorized, Result, AnswerLost
<1>10. ASSUME NEW c \in Caller, Return(c) PROVE SessionErrorExplained'
  BY <1>10 DEF Return, Result
<1>11. ASSUME NEW c \in Caller, Reset(c) PROVE SessionErrorExplained'
  BY <1>11 DEF Reset
<1>12. ASSUME NEW c \in Caller, Refresh(c) PROVE SessionErrorExplained'
  <2>0. /\ pc[c] = "refresh" /\ holder = Nobody
        /\ UNCHANGED <<client, bearer, refreshToken, discovered, sessions, disturbed, outdated>>
    BY <1>12, RefreshCases
  <2>1. CASE ToStore(c)
    BY <2>0, <2>1 DEF ToStore, Granting
  <2>2. CASE GrantIsLost(c)
    BY <2>0, <2>2 DEF GrantIsLost, Granting, Result
  <2>3. CASE GrantRefused(c)
    BY <2>0, <2>3 DEF GrantRefused, Result
  <2>. QED
    BY <1>12, <2>1, <2>2, <2>3, RefreshCases
<1>13. ASSUME NEW c \in Caller, StoreTokens(c) PROVE SessionErrorExplained'
  BY <1>13 DEF StoreTokens
<1>14. CASE ServerRestarts
  BY <1>14 DEF ServerRestarts
<1>15. CASE TokenExpires
  BY <1>15 DEF TokenExpires
<1>16. CASE Restart
  BY <1>16 DEF Restart
<1>17. CASE UNCHANGED <<attempts, shared, server, past>>
  BY <1>17
<1>. QED
  BY <1>1, <1>2, <1>3, <1>4, <1>5, <1>6, <1>7, <1>8, <1>9, <1>10, <1>11, <1>12, <1>13,
     <1>14, <1>15, <1>16, <1>17 DEF Next, CallStep, vars

(* Lemma: and one that fails of its token was outdated, or a grant is      *)
(* lost.                                                                   *)
LEMMA StepTokenErrorExplained ==
  ASSUME TypeOK, CallInv, TokenErrorExplained, [Next]_vars
  PROVE  TokenErrorExplained'
<1> USE ToolCallsAssumption DEF TypeOK, CallInv, TokenErrorExplained, TokenInv,
       GrantInv, MutexInv, Valid, Calling, Ids, attempts, shared, server, past, Goto
<1>1. ASSUME NEW c \in Caller, Start(c) PROVE TokenErrorExplained'
  BY <1>1 DEF Start
<1>2. ASSUME NEW c \in Caller, ModelCalls(c) PROVE TokenErrorExplained'
  BY <1>2 DEF ModelCalls
<1>3. ASSUME NEW c \in Caller, ModelEnds(c) PROVE TokenErrorExplained'
  BY <1>3 DEF ModelEnds
<1>4. ASSUME NEW c \in Caller, RequestFails(c) PROVE TokenErrorExplained'
  BY <1>4 DEF RequestFails
<1>5. ASSUME NEW c \in Caller, CallOwn(c) PROVE TokenErrorExplained'
  BY <1>5 DEF CallOwn, Result
<1>6. ASSUME NEW c \in Caller, CallRemote(c) PROVE TokenErrorExplained'
  BY <1>6 DEF CallRemote
<1>7. ASSUME NEW c \in Caller, EnsureInitialized(c) PROVE TokenErrorExplained'
  <2>0. /\ pc[c] = "ensure"
        /\ UNCHANGED <<bearer, refreshToken, holder, discovered, tokens, grant, disturbed,
                       grantLost>>
    BY <1>7, EnsureCases
  <2>1. CASE NotDue(c)
    BY <2>0, <2>1 DEF NotDue
  <2>2. CASE TokenRefused(c)
    <3>1. CASE again[c].token /\ Result(c, "token")
      BY <2>0, <2>2, <3>1 DEF TokenRefused, Torn, Tokens, Result
    <3>2. CASE Goto(c, "refresh") /\ UNCHANGED <<request, again, outcome>>
      BY <2>0, <2>2, <3>2 DEF TokenRefused, Torn
    <3>. QED
      BY <2>2, <3>1, <3>2 DEF TokenRefused, Unauthorized
  <2>3. CASE Made(c)
    BY <2>0, <2>3 DEF Made
  <2>4. CASE MadeInVain(c)
    BY <2>0, <2>4 DEF MadeInVain, Result
  <2>. QED
    BY <1>7, <2>1, <2>2, <2>3, <2>4, EnsureCases
<1>8. ASSUME NEW c \in Caller, Send(c) PROVE TokenErrorExplained'
  BY <1>8 DEF Send, Tokens, Torn
<1>9. ASSUME NEW c \in Caller, Answered(c) PROVE TokenErrorExplained'
  BY <1>9 DEF Answered, Unauthorized, Result, AnswerLost
<1>10. ASSUME NEW c \in Caller, Return(c) PROVE TokenErrorExplained'
  BY <1>10 DEF Return, Result
<1>11. ASSUME NEW c \in Caller, Reset(c) PROVE TokenErrorExplained'
  BY <1>11 DEF Reset
<1>12. ASSUME NEW c \in Caller, Refresh(c) PROVE TokenErrorExplained'
  <2>0. /\ pc[c] = "refresh" /\ holder = Nobody
        /\ UNCHANGED <<client, bearer, refreshToken, discovered, sessions, disturbed, outdated>>
    BY <1>12, RefreshCases
  <2>1. CASE ToStore(c)
    BY <2>0, <2>1 DEF ToStore, Granting
  <2>2. CASE GrantIsLost(c)
    BY <2>0, <2>2 DEF GrantIsLost, Granting, Result
  <2>3. CASE GrantRefused(c)
    BY <2>0, <2>3 DEF GrantRefused, Result
  <2>. QED
    BY <1>12, <2>1, <2>2, <2>3, RefreshCases
<1>13. ASSUME NEW c \in Caller, StoreTokens(c) PROVE TokenErrorExplained'
  BY <1>13 DEF StoreTokens
<1>14. CASE ServerRestarts
  BY <1>14 DEF ServerRestarts
<1>15. CASE TokenExpires
  BY <1>15 DEF TokenExpires
<1>16. CASE Restart
  BY <1>16 DEF Restart
<1>17. CASE UNCHANGED <<attempts, shared, server, past>>
  BY <1>17
<1>. QED
  BY <1>1, <1>2, <1>3, <1>4, <1>5, <1>6, <1>7, <1>8, <1>9, <1>10, <1>11, <1>12, <1>13,
     <1>14, <1>15, <1>16, <1>17 DEF Next, CallStep, vars

-----------------------------------------------------------------------------

(* Lemma: the inductive invariant holds from the start, and every step     *)
(* keeps it.                                                               *)
LEMMA Invariance == Spec => []IInv
<1>1. ASSUME Init PROVE IInv
  <2> USE <1>1, ToolCallsAssumption, ConfigAssumption DEF Init
  <2>1. ConfigTypeOK /\ ConfigInv /\ CommandKeepsConfig
    <3>1. clobbered \in BOOLEAN
      BY DEF ConfigInit
    <3>2. /\ command = {} /\ changes = 0
          /\ \/ config = NoConfig /\ saved = 0
             \/ saved = 1 /\ \E mode \in Modes : config = [mode |-> mode, rest |-> 1]
      BY DEF ConfigInit, ConfigNew, ConfigSaved
    <3>3. saved \in 0 .. MaxChanges + 1 /\ config \in ConfigRow
      BY <3>2 DEF ConfigRow
    <3>4. IF config = NoConfig THEN saved = 0 ELSE config.rest = saved
      BY <3>2
    <3>. QED
      BY <3>1, <3>2, <3>3, <3>4 DEF ConfigTypeOK, ConfigInv, ConfigRow, CommandKeepsConfig
  <2>2. again \in [Caller -> [session : BOOLEAN, token : BOOLEAN]]
    BY DEF NotAgain
  <2>3. client \in [session : 0 .. sessions.issued, initialized : BOOLEAN, attempted : BOOLEAN]
    OBVIOUS
  <2>4. TypeOK
    <3>1. offered \in [Caller -> BOOLEAN] /\ discovered \in BOOLEAN /\ grantLost \in BOOLEAN
      OBVIOUS
    <3>2. sessions \in Ids /\ tokens \in Ids /\ bearer \in 1 .. tokens.issued
      BY DEF Ids
    <3>3. request \in [Caller -> [session : Nat, token : Nat]]
      BY DEF NoRequest
    <3>. QED
      BY <2>1, <2>2, <2>3, <3>1, <3>2, <3>3 DEF TypeOK
  <2>5. AgainInv /\ BlocksInv /\ MutexInv /\ IdsInv /\ EffectInv
    BY DEF AgainInv, BlocksInv, MutexInv, IdsInv, EffectInv
  <2>6. SessionInv /\ TokenInv /\ GrantInv
    BY DEF SessionInv, TokenInv, GrantInv, Calling
  <2>7. CallsRecover
    BY DEF CallsRecover, SessionErrorExplained, TokenErrorExplained, EffectOnce
  <2>. QED
    BY <2>1, <2>4, <2>5, <2>6, <2>7 DEF IInv, CallInv
<1>2. IInv /\ [Next]_vars => IInv'
  <2> SUFFICES ASSUME IInv, [Next]_vars PROVE IInv'
    OBVIOUS
  <2>1. TypeOK /\ CallInv
    BY DEF IInv
  <2>2. ConfigInv' /\ CommandKeepsConfig'
    <3>1. CASE ConfigStep
      BY <3>1, StepConfig, StepCommandKeeps DEF IInv, TypeOK
    <3>2. CASE EndCommand
      BY <3>2 DEF EndCommand, IInv, ConfigInv, CommandKeepsConfig
    <3>3. CASE UNCHANGED settings
      BY <3>3 DEF settings, IInv, ConfigInv, CommandKeepsConfig
    <3>. QED
      BY <3>1, <3>2, <3>3 DEF Next, vars, CallStep, Start, ModelCalls, ModelEnds,
         RequestFails,
         CallOwn, CallRemote, EnsureInitialized, Send, Answered, Return, Reset, Refresh,
         StoreTokens, ServerRestarts, TokenExpires, Restart
  <2>3. CallInv'
    BY <2>1, StepAgainInv, StepBlocksInv, StepMutexInv, StepIdsInv, StepEffectInv,
       StepSessionInv, StepTokenInv, StepGrantInv DEF CallInv
  <2>4. SessionErrorExplained' /\ TokenErrorExplained'
    BY <2>1, StepSessionErrorExplained, StepTokenErrorExplained DEF IInv, CallsRecover
  <2>5. EffectOnce'
    BY <2>3 DEF CallInv, EffectInv, EffectOnce
  <2>. QED
    BY <2>2, <2>3, <2>4, <2>5, StepTypeOK DEF IInv, CallsRecover
<1>. QED
  BY <1>1, <1>2, PTL DEF Spec

(* Type correctness, for any number of jobs and any bounds: the loop asks  *)
(* the model maxToolUseIterations times at most, whatever becomes of the   *)
(* calls, and no call is ended that the model did not make.                *)
THEOREM TypeCorrect == Spec => []TypeOK
<1>1. IInv => TypeOK
  BY DEF IInv
<1>. QED
  BY <1>1, Invariance, PTL

(* CallsRecover, for any number of jobs that share the client, any number  *)
(* of restarts of the server, expired tokens and lost answers: a call      *)
(* fails of its session or its token only where that was disturbed, and no *)
(* call is carried out twice.                                              *)
THEOREM ExpiredSessionsAndTokensCostNoCall == Spec => []CallsRecover
<1>1. IInv => CallsRecover
  BY DEF IInv
<1>. QED
  BY <1>1, Invariance, PTL

(* CommandKeepsConfig, for any number of commands and saves: a slash       *)
(* command keeps what the UI saved, unless the UI saved while it was at    *)
(* work.                                                                   *)
THEOREM CommandsKeepTheRest == Spec => []CommandKeepsConfig
<1>1. IInv => CommandKeepsConfig
  BY DEF IInv
<1>. QED
  BY <1>1, Invariance, PTL

=============================================================================
