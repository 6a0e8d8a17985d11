------------------------------- MODULE Inbox -------------------------------
(***************************************************************************)
(* What reaches the bot: the events of Slack (api/slack.go), which Slack   *)
(* may deliver again, the messages of the API (api/server.go, recipes.go), *)
(* and the channel's configuration (channel/config.go), changed by a slash *)
(* command (api/slack.go) and in the web UI (api/config.go).  The handler  *)
(* answers Slack at once; a goroutine creates the workflow, its            *)
(* conversation and turn (saga/conversation.go), and inserts the job that  *)
(* Replies goes on from.  What Replies saves in a thread decides which     *)
(* later messages are heeded (conversation/thread.go).                     *)
(*                                                                         *)
(* One channel is modelled.  Signatures, reactions, the greeting that an   *)
(* empty message gets, and a statement that one of its three tries carries *)
(* out are left out.                                                       *)
(***************************************************************************)
EXTENDS Replies, ChannelConfig

CONSTANTS
  Event,         (* Slack's event ids                                      *)
  Envelope,      (* of an event: what it is about                          *)
  AddTurnTries,  (* maxRetries of AddTurn: 3                               *)
  MaxRepeats,    (* bound: events delivered again                          *)
  MaxWaits,      (* bound: how often time passes                           *)
  MaxApi         (* bound: workflows that the API starts                   *)

(* kind: a mention, a message, or a message that is never heeded (the      *)
(* bot's own, an edit); threaded: it has a thread_ts of its own.           *)
ASSUME InboxAssumption ==
  /\ Envelope \in [Event -> [kind : {"app_mention", "message", "other"},
                             thread : Thread, threaded : BOOLEAN]]
  /\ AddTurnTries \in Nat \ {0} /\ MaxRepeats \in Nat /\ MaxWaits \in Nat
  /\ MaxApi \in Nat

VARIABLES
  delivered, (* Slack: events delivered so far                             *)
  repeats,
  seen,      (* seenEvents: no, or the age of the entry                    *)
  run,       (* the goroutine of a workflow: where it is                   *)
  cause,     (* the event that a workflow was started for                  *)
  turn,      (* AddTurn: the index read, tries made, turns when it began   *)
  turns,     (* conversation_turns: the workflows, by turn_index           *)
  leaving,   (* sign-offs about to be posted                               *)
  renewed,   (* history: events whose entry was forgotten after handling   *)
  invited,   (* history: threads of a mention, or heeded while the channel *)
             (* was set to all_messages                                    *)
  away,      (* history: threads signed off and not mentioned in since     *)
  unasked,   (* history: workflows of a message without a mention, heeded  *)
             (* in a thread that was away                                  *)
  waits, started

goroutines == <<run, cause, turn, turns, leaving>>
manners    == <<invited, away, unasked>>
slackVars  == <<delivered, repeats, seen, renewed, waits, started>>
vars == <<replyVars, slackVars, goroutines, settings, manners>>

NoTurn == [next |-> 0, tries |-> 0, began |-> 0]

Init ==
  /\ RepliesInit
  /\ delivered = {} /\ repeats = 0
  /\ seen = [e \in Event |-> "no"]
  /\ run = [f \in Flow |-> "idle"]
  /\ cause = [f \in Flow |-> {}]
  /\ turn = [f \in Flow |-> NoTurn]
  /\ turns = [t \in Thread |-> <<>>]
  /\ leaving = {}
  /\ ConfigInit /\ ConfigNew
  /\ renewed = {} /\ invited = {} /\ away = {} /\ unasked = {}
  /\ waits = 0 /\ started = 0

ThreadOf(e) == Envelope[e].thread
Busy == {"create", "converse", "turn", "enqueue"}

-----------------------------------------------------------------------------
(* The events handler.  Operators named Slip... are wrong variants of the  *)
(* definition that follows them.                                           *)

(* Wrong: every other entry is taken for old (the cutoff lies ahead).      *)
SlipRemember(e) == seen' = [x \in Event |-> IF x = e THEN "new" ELSE "no"]

(* LoadOrStore and the eviction of entries older than seenEventsTTL.       *)
Remember(e) ==
  seen' = [x \in Event |-> IF x = e THEN "new" ELSE IF seen[x] = "old" THEN "no" ELSE seen[x]]

(* CheckParticipation: whether the bot ever spoke in a thread.             *)
Participated(t) == history[t] # {} \/ t \in signedOff

(* Wrong: every thread in which the bot did not speak lately is signed off.*)
SlipSignsOff(t) == t \notin recent
SignsOff(t) == Participated(t) /\ t \notin recent

(* What the handler does with an event that it sees for the first time;    *)
(* known: the participation could be read.                                 *)
Verdict(e, mode, known) ==
  LET t == ThreadOf(e)
      threaded == Envelope[e].threaded
  IN  CASE Envelope[e].kind = "app_mention" -> "heed"
        [] Envelope[e].kind = "other"       -> "ignore"
        [] Envelope[e].kind = "message" /\ ~(threaded /\ known) ->
             IF mode = "all_messages" THEN "heed" ELSE "ignore"
        [] Envelope[e].kind = "message" /\ threaded /\ known ->
             CASE SignsOff(t) -> "sign_off"
               [] ~SignsOff(t) /\ mode = "mention_only" /\ t \notin recent -> "ignore"
               [] OTHER -> "heed"

(* A goroutine is started for the message.                                 *)
Heed(e, mode) ==
  LET t == ThreadOf(e)
      mention == Envelope[e].kind = "app_mention"
  IN  \E f \in Flow :
        /\ run[f] = "idle"
        /\ run' = [run EXCEPT ![f] = "create"]
        /\ cause' = [cause EXCEPT ![f] = {e}]
        /\ home' = [home EXCEPT ![f] = t]
        /\ invited' = IF mention \/ mode = "all_messages" THEN invited \cup {t} ELSE invited
        /\ away' = IF mention THEN away \ {t} ELSE away
        /\ unasked' = IF ~mention /\ t \in away THEN unasked \cup {f} ELSE unasked
        /\ UNCHANGED <<turn, turns, leaving, status, linked, outputs>>

Deliver(e) ==
  /\ delivered' = delivered \cup {e}
  /\ repeats' = IF e \in delivered THEN repeats + 1 ELSE repeats
  /\ repeats' <= MaxRepeats
  /\ UNCHANGED <<messages, job, replies, asked, lost, dropped, settings, waits, started>>
  /\ \/ seen[e] # "no" /\ UNCHANGED <<seen, renewed, tables, goroutines, manners, faults>>
     \/ /\ seen[e] = "no"
        /\ Remember(e)
        /\ renewed' = renewed \cup {x \in Event : seen[x] = "old"}
        /\ \E read, known \in BOOLEAN :
             /\ IF read /\ known THEN UNCHANGED faults ELSE Fault
             /\ LET mode == IF read THEN RespondMode(config) ELSE "mention_only"
                IN  CASE Verdict(e, mode, known) = "heed" -> Heed(e, mode)
                      [] Verdict(e, mode, known) = "sign_off" ->
                           /\ leaving' = leaving \cup {ThreadOf(e)}
                           /\ UNCHANGED <<run, cause, turn, turns, tables, manners>>
                      [] OTHER -> UNCHANGED <<tables, goroutines, manners>>

(* postSignOff: nothing is saved when the post fails.                      *)
PostSignOff(t) ==
  /\ t \in leaving
  /\ leaving' = leaving \ {t}
  /\ \/ /\ signedOff' = signedOff \cup {t}
        /\ recent' = recent \cup {t}
        /\ away' = away \cup {t}
        /\ UNCHANGED faults
     \/ /\ Fault
        /\ UNCHANGED <<signedOff, recent, away>>
     \/ /\ Fault
        /\ away' = away \cup {t}
        /\ UNCHANGED <<signedOff, recent>>
  /\ UNCHANGED <<tables, history, job, replies, asked, lost, dropped, slackVars,
                 run, cause, turn, turns, settings, invited, unasked>>

-----------------------------------------------------------------------------
(* The goroutine of a message.                                             *)
Step(f, from, to) == run[f] = from /\ run' = [run EXCEPT ![f] = to]

(* A statement that fails three times, the delays in between, is given up, *)
(* and the user is told (notifySlackError).                                *)
CreateWorkflow(f) ==
  /\ \/ Step(f, "create", "converse") /\ status' = [status EXCEPT ![f] = "running"] /\ UNCHANGED faults
     \/ Step(f, "create", "told") /\ UNCHANGED status /\ Fault
  /\ UNCHANGED <<home, linked, outputs, messages, job, replies, asked, lost, dropped,
                 slackVars, cause, turn, turns, leaving, settings, manners>>

(* Wrong: the goroutine ends without the conversation.                     *)
SlipWithoutConversation(f) == Step(f, "converse", "over")

(* A conversation that cannot be had is done without.                      *)
WithoutConversation(f) == Step(f, "converse", "enqueue")

(* Its failure is only logged, and the reply will be posted.               *)
SetConversationID(f) ==
  \/ linked' = linked \cup {f} /\ UNCHANGED faults
  \/ UNCHANGED linked /\ Fault

(* FindOrCreateConversation, SetConversationID; then AddTurn's statement   *)
(* reads the highest index of a turn.                                      *)
Converse(f) ==
  /\ \/ WithoutConversation(f) /\ UNCHANGED <<linked, turn>> /\ Fault
     \/ /\ Step(f, "converse", "turn")
        /\ turn' = [turn EXCEPT ![f] = [next |-> Len(turns[home[f]]), tries |-> 1,
                                        began |-> Len(turns[home[f]])]]
        /\ SetConversationID(f)
  /\ UNCHANGED <<status, home, outputs, messages, job, replies, asked, lost, dropped,
                 slackVars, cause, turns, leaving, settings, manners>>

(* Wrong: the index is read once, before the tries.                        *)
SlipNextIndex(f) == turn[f].next
NextIndex(f) == Len(turns[home[f]])

(* The statement inserts the turn, or another turn has the index and it is *)
(* tried again, AddTurnTries times, or it fails.                           *)
AddTurn(f) ==
  /\ \/ /\ Step(f, "turn", "enqueue")
        /\ turn[f].next = Len(turns[home[f]])
        /\ turns' = [turns EXCEPT ![home[f]] = Append(@, f)]
        /\ turn' = [turn EXCEPT ![f] = NoTurn]
        /\ UNCHANGED faults
     \/ /\ Step(f, "turn", IF turn[f].tries < AddTurnTries THEN "turn" ELSE "enqueue")
        /\ turn[f].next < Len(turns[home[f]])
        /\ turn' = [turn EXCEPT ![f].next = NextIndex(f), ![f].tries = @ + 1]
        /\ UNCHANGED <<turns, faults>>
     \/ Step(f, "turn", "enqueue") /\ Fault /\ UNCHANGED <<turn, turns>>
  /\ UNCHANGED <<tables, messages, job, replies, asked, lost, dropped,
                 slackVars, cause, leaving, settings, manners>>

(* The receive job is inserted; or it is, and the statement, whose answer  *)
(* was lost, is tried again; or it is given up and the user is told.       *)
InsertReceive(f) ==
  /\ \/ /\ Step(f, "enqueue", "over")
        /\ InsertRow(NewRow("receive", f, 0))
        /\ UNCHANGED <<lost, faults>>
     \/ /\ run[f] = "enqueue" /\ UNCHANGED run
        /\ InsertRow(NewRow("receive", f, 0))
        /\ Fault
        /\ lost' = [lost EXCEPT ![f] = @ + 1]
     \/ Step(f, "enqueue", "told") /\ Fault /\ UNCHANGED <<job, lost>>
  /\ UNCHANGED <<tables, messages, replies, asked, dropped,
                 slackVars, cause, turn, turns, leaving, settings, manners>>

(* The API starts a workflow, within the request; it has no thread.        *)
FromApi(f) ==
  /\ run[f] = "idle" /\ started < MaxApi
  /\ started' = started + 1
  /\ UpdateWorkflowStatus(f, "running")
  /\ UNCHANGED <<home, linked, outputs, messages, replies, asked, lost, dropped,
                 delivered, repeats, seen, renewed, waits, cause, turn, turns, leaving, settings, manners>>

(* The caller learns of a failure.                                         *)
Received(f) ==
  \/ /\ run' = [run EXCEPT ![f] = "over"]
     /\ InsertRow(NewRow("receive", f, 0))
     /\ UNCHANGED faults
  \/ /\ run' = [run EXCEPT ![f] = "told"]
     /\ Fault
     /\ UNCHANGED job

RunRecipe(f) == FromApi(f) /\ Received(f)

(* A workflow of another type than echo has no jobs, one whose payload is  *)
(* not understood neither; its row stays.                                  *)
StartWorkflow(f) ==
  /\ FromApi(f)
  /\ \/ Received(f)
     \/ run' = [run EXCEPT ![f] = "no_jobs"] /\ UNCHANGED <<job, faults>>

-----------------------------------------------------------------------------
(* Time passes, and the program stops and starts again.                    *)
Aged == [e \in Event |-> IF seen[e] = "new" THEN "old" ELSE seen[e]]

TenMinutes ==
  /\ waits < MaxWaits /\ waits' = waits + 1
  /\ seen # Aged /\ seen' = Aged
  /\ UNCHANGED <<replyVars, delivered, repeats, renewed, started, goroutines, settings, manners>>

ThreeDays ==
  /\ waits < MaxWaits /\ waits' = waits + 1
  /\ seen' = Aged
  /\ recent # {} /\ recent' = {}
  /\ UNCHANGED <<tables, history, signedOff, job, replies, asked, lost, dropped, faults,
                 delivered, repeats, renewed, started, goroutines, settings, manners>>

(* seenEvents and the goroutines are gone, attempts under way are lost.    *)
Crash ==
  LET working == {j \in Live : job[j].pc # "waiting"} IN
  /\ Fault
  /\ seen' = [e \in Event |-> "no"]
  /\ renewed' = renewed \cup {e \in Event : seen[e] # "no"}
  /\ run' = [f \in Flow |-> IF run[f] \in Busy THEN "gone" ELSE run[f]]
  /\ leaving' = {}
  /\ EndCommand
  /\ Lose(working)
  /\ job' = [j \in Job |-> IF j \in working THEN Retried(j) ELSE job[j]]
  /\ UNCHANGED <<tables, messages, replies, asked, delivered, repeats, waits, started,
                 cause, turn, turns, manners>>

Chain == \E j \in Job : ChainStep(j) /\ UNCHANGED <<slackVars, goroutines, settings, manners>>

Next ==
  \/ \E e \in Event : Deliver(e)
  \/ \E t \in Thread : PostSignOff(t)
  \/ \E f \in Flow :
       \/ CreateWorkflow(f) \/ Converse(f) \/ AddTurn(f) \/ InsertReceive(f)
       \/ StartWorkflow(f) \/ RunRecipe(f)
  \/ ConfigStep /\ UNCHANGED <<replyVars, slackVars, goroutines, manners>>
  \/ TenMinutes \/ ThreeDays \/ Crash
  \/ Chain

Spec == Init /\ [][Next]_vars

-----------------------------------------------------------------------------
TypeOK ==
  /\ RepliesTypeOK
  /\ delivered \subseteq Event /\ repeats \in 0 .. MaxRepeats
  /\ seen \in [Event -> {"no", "new", "old"}]
  /\ run \in [Flow -> Busy \cup {"idle", "over", "told", "no_jobs", "gone"}]
  /\ cause \in [Flow -> SUBSET Event]
  /\ turn \in [Flow -> [next : Nat, tries : 0 .. AddTurnTries + 1, began : Nat]]
  /\ turns \in [Thread -> Seq(Flow)]
  /\ leaving \subseteq Thread
  /\ ConfigTypeOK
  /\ renewed \subseteq Event /\ invited \subseteq Thread /\ away \subseteq Thread
  /\ unasked \subseteq Flow
  /\ waits \in 0 .. MaxWaits /\ started \in 0 .. MaxApi

(* One event starts two workflows, and gets two answers, only when its     *)
(* entry was forgotten in between: by age, or with the process.            *)
OneFlowPerEvent ==
  \A f, g \in Flow : f # g /\ cause[f] \cap cause[g] # {} => cause[f] \subseteq renewed

(* A message that was heeded is never dropped in silence: its goroutine is *)
(* at work, or the user was told, or a job of it is in the queue, or it    *)
(* was answered; unless the process died with the goroutine, or a job was  *)
(* discarded.                                                              *)
NoMessageDropped ==
  \A f \in Flow : run[f] = "over" => LiveOf(f) # {} \/ replies[f] # <<>> \/ f \in dropped

(* The bot speaks only in threads where somebody mentioned it, or in which *)
(* it heeded a message while its channel was set to all_messages: the      *)
(* participation that later messages are heeded by always goes back to     *)
(* that.                                                                   *)
SpeaksWhereInvited ==
  /\ \A t \in Thread : Participated(t) => t \in invited
  /\ \A f \in Flow : cause[f] # {} => home[f] \in invited

(* A conversation has each workflow's turn once, and misses it only when   *)
(* the statement failed or as many others as there are tries got theirs    *)
(* since it began.                                                         *)
TurnsAreKept ==
  /\ \A t \in Thread : IsInjective(turns[t])
  /\ \A f \in linked : run[f] \in {"enqueue", "over"} =>
       \/ \E k \in DOMAIN turns[home[f]] : turns[home[f]][k] = f
       \/ faults > 0
       \/ Len(turns[home[f]]) >= turn[f].began + AddTurnTries

(* "I'm signing off.  Mention me with @bot if you'd like to bring me back  *)
(* into the conversation!" (slack.go:62): until somebody does, no message  *)
(* of the thread is heeded.                                                *)
AwayUntilMentioned == unasked = {}
=============================================================================
