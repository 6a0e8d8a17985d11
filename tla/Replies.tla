------------------------------ MODULE Replies ------------------------------
(***************************************************************************)
(* The jobs that answer a message (jobs/receive.go, plan.go, process.go,   *)
(* respond.go, slack_reply.go) over the tables workflows, workflow_outputs *)
(* and thread_messages.  Each job inserts the next one as its last step,   *)
(* outside a transaction, and River repeats a job whose attempt is lost.   *)
(*                                                                         *)
(* The plan is the one without tasks; FanOut models the other.  A row of   *)
(* workflow_steps only records progress and is left out; the status of the *)
(* conversation is in Approval.  A reply that goes to the outbox ends      *)
(* here: Outbox models its delivery.                                       *)
(***************************************************************************)
EXTENDS Naturals, Sequences, FiniteSets, Functions, SequencesExt

CONSTANTS
  Flow,          (* bound: workflows                                       *)
  Thread,        (* threads of Slack: a channel and a timestamp            *)
  NoThread,      (* where a workflow of the API belongs                    *)
  Job,           (* bound: rows of river_job not finalized at once         *)
  JobMaxAttempts,(* River's default: 25                                    *)
  MaxFaults      (* bound: attempts lost, statements failed, crashes       *)

ASSUME RepliesAssumption ==
  /\ NoThread \notin Thread
  /\ JobMaxAttempts \in Nat \ {0} /\ MaxFaults \in Nat
  /\ IsFiniteSet(Job)

VARIABLES
  status,    (* workflows.status, none before the row exists               *)
  home,      (* the thread that a workflow's message belongs to            *)
  linked,    (* workflows with a conversation_id                           *)
  job,       (* the rows of river_job that are not finalized               *)
  outputs,   (* a workflow's outputs of the step process: answers          *)
  history,   (* thread_messages: the exchanges saved of a thread           *)
  signedOff, (* thread_messages: threads with a sign-off saved             *)
  recent,    (* threads where the bot said something in the last 3 days    *)
  replies,   (* a workflow's replies: rows of the outbox, or posts         *)
  asked,     (* history: answers the model gave for a workflow             *)
  lost,      (* history: how often a job of a workflow was repeated        *)
  dropped,   (* history: workflows a job of which was discarded, or whose  *)
             (* reply Slack refused                                        *)
  faults

messages == <<history, signedOff, recent>>
tables   == <<status, home, linked, outputs>>
replyVars == <<tables, messages, job, replies, asked, lost, dropped, faults>>

Free == [pc |-> "free"]
NewRow(kind, f, a) == [kind |-> kind, flow |-> f, attempt |-> 1, pc |-> "waiting", answer |-> a]

RepliesInit ==
  /\ status = [f \in Flow |-> "none"]
  /\ home = [f \in Flow |-> NoThread]
  /\ linked = {} /\ dropped = {} /\ faults = 0
  /\ job = [j \in Job |-> Free]
  /\ outputs = [f \in Flow |-> {}]
  /\ history = [t \in Thread |-> {}]
  /\ signedOff = {} /\ recent = {}
  /\ replies = [f \in Flow |-> <<>>]
  /\ asked = [f \in Flow |-> 0]
  /\ lost = [f \in Flow |-> 0]

Fault == faults < MaxFaults /\ faults' = faults + 1

Live == {j \in Job : job[j] # Free}
LiveOf(f) == {j \in Live : job[j].flow = f}
InsertRow(row) == \E slot \in Job \ Live : job' = [job EXCEPT ![slot] = row]

At(j, kind, pc) == j \in Live /\ job[j].kind = kind /\ job[j].pc = pc

(* Wrong: a message without a thread is taken for one of a thread.         *)
SlipThreaded(j) == j \in Live

Threaded(j) == home[job[j].flow] # NoThread

-----------------------------------------------------------------------------
(* River: an attempt that is lost is tried again from its start, or the    *)
(* job is discarded.  Only the answer of a slack_reply is in its arguments.*)
Exhausted(j) == job[j].attempt >= JobMaxAttempts
Retried(j) ==
  IF Exhausted(j) THEN Free
  ELSE [job[j] EXCEPT !.pc = "waiting", !.attempt = @ + 1,
                      !.answer = IF job[j].kind = "slack_reply" THEN @ ELSE 0]
Lose(js) ==
  /\ lost' = [f \in Flow |-> lost[f] + Cardinality(js \cap LiveOf(f))]
  /\ dropped' = dropped \cup {job[j].flow : j \in {k \in js : Exhausted(k)}}

LostAttempt(j) == Fault /\ Lose({j}) /\ job' = [job EXCEPT ![j] = Retried(j)]
AttemptFails(j) == j \in Live /\ LostAttempt(j) /\ UNCHANGED <<tables, messages, replies, asked>>

(* The last step of an attempt inserts a row, or none (Free), and the job  *)
(* is complete; or the attempt is lost after it did so.                    *)
Finish(j, row) ==
  \/ job' = [job EXCEPT ![j] = row] /\ UNCHANGED <<lost, dropped, faults>>
  \/ /\ Fault
     /\ Lose({j})
     /\ \E slot \in Job \ Live : job' = [job EXCEPT ![slot] = row, ![j] = Retried(j)]

-----------------------------------------------------------------------------
(* ReceiveWorker.Work: the payload becomes the output of the step receive, *)
(* which the later jobs read.                                              *)
Receive(j) ==
  /\ At(j, "receive", "waiting")
  /\ Finish(j, NewRow("plan", job[j].flow, 0))
  /\ UNCHANGED <<tables, messages, replies, asked>>

(* PlanWorker.Work, the bypass.                                            *)
Plan(j) ==
  /\ At(j, "plan", "waiting")
  /\ Finish(j, NewRow("process", job[j].flow, 0))
  /\ UNCHANGED <<tables, messages, replies, asked>>

(* Wrong: the job goes on when its exchange could not be saved.            *)
SlipSaveThreadMessages(t, entry) ==
  \/ history' = [history EXCEPT ![t] = @ \cup {entry}] /\ recent' = recent \cup {t}
  \/ UNCHANGED <<history, recent>>

(* The message and its answer, in one statement.                           *)
SaveThreadMessages(t, entry) ==
  history' = [history EXCEPT ![t] = @ \cup {entry}] /\ recent' = recent \cup {t}

(* ProcessWorker.Work, processMessage: the model answers, and the exchange *)
(* is saved.  Without a thread the message is given back in capitals, and  *)
(* nothing is saved of it.                                                 *)
ProcessMessage(j) ==
  LET f == job[j].flow
      a == asked[f] + 1
  IN  /\ At(j, "process", "waiting")
      /\ asked' = [asked EXCEPT ![f] = a]
      /\ IF Threaded(j) THEN SaveThreadMessages(home[f], <<f, a>>) ELSE UNCHANGED <<history, recent>>
      /\ job' = [job EXCEPT ![j].pc = "answered", ![j].answer = a]
      /\ UNCHANGED <<tables, signedOff, replies, lost, dropped, faults>>

SaveOutput(f, a) == outputs' = [outputs EXCEPT ![f] = @ \cup {a}]
GetOutput(f)     == outputs[f]
UpdateWorkflowStatus(f, s) == status' = [status EXCEPT ![f] = s]

(* ... the rest of Work: the output, and then the next job, which an       *)
(* attempt lost in between does not insert.                                *)
RecordAnswer(j) ==
  /\ At(j, "process", "answered")
  /\ SaveOutput(job[j].flow, job[j].answer)
  /\ Finish(j, NewRow("respond", job[j].flow, 0)) \/ LostAttempt(j)
  /\ UNCHANGED <<status, home, linked, messages, replies, asked>>

Reply(j, a, via) ==
  replies' = [replies EXCEPT ![job[j].flow] = Append(@, [answer |-> a, via |-> via])]

(* GetConversationID.                                                      *)
HasConversation(f) == f \in linked

(* Wrong: a reply that is in the outbox is sent to the thread as well.     *)
SlipHandOver(j, a) ==
  /\ IF HasConversation(job[j].flow) THEN Reply(j, a, "outbox") ELSE UNCHANGED replies
  /\ Finish(j, NewRow("slack_reply", job[j].flow, a))

(* A workflow with a conversation replies through the outbox (Enqueue).    *)
HandOver(j, a) ==
  IF HasConversation(job[j].flow)
  THEN Reply(j, a, "outbox") /\ Finish(j, Free)
  ELSE UNCHANGED replies /\ Finish(j, NewRow("slack_reply", job[j].flow, a))

(* RespondWorker.Work.  GetOutput reads one of a step's outputs, in no     *)
(* order; the workflow is completed before its reply is handed over.       *)
Respond(j) ==
  /\ At(j, "respond", "waiting")
  /\ UpdateWorkflowStatus(job[j].flow, "completed")
  /\ \/ \E a \in GetOutput(job[j].flow) : HandOver(j, a)
     \/ LostAttempt(j) /\ UNCHANGED replies
  /\ UNCHANGED <<home, linked, outputs, messages, asked>>

(* SlackReplyWorker.Work: posted, or refused for good (a workflow of the   *)
(* API has no channel), and then the job is complete all the same.         *)
Post(j) ==
  /\ At(j, "slack_reply", "waiting")
  /\ Threaded(j)
  /\ Reply(j, job[j].answer, "post")
  /\ Finish(j, Free)
  /\ UNCHANGED <<tables, messages, asked>>

PostRefused(j) ==
  /\ At(j, "slack_reply", "waiting")
  /\ IF Threaded(j) THEN Fault ELSE UNCHANGED faults
  /\ dropped' = dropped \cup {job[j].flow}
  /\ job' = [job EXCEPT ![j] = Free]
  /\ UNCHANGED <<tables, messages, replies, asked, lost>>

ChainStep(j) ==
  \/ Receive(j) \/ Plan(j) \/ ProcessMessage(j) \/ RecordAnswer(j) \/ Respond(j)
  \/ Post(j) \/ PostRefused(j)
  \/ AttemptFails(j)

-----------------------------------------------------------------------------
Answers == Nat \ {0}

Row == [kind : {"receive", "plan", "process", "respond", "slack_reply"}, flow : Flow,
        attempt : 1 .. JobMaxAttempts,
        pc : {"waiting", "answered"}, answer : Nat]

RepliesTypeOK ==
  /\ status \in [Flow -> {"none", "running", "completed"}]
  /\ home \in [Flow -> Thread \cup {NoThread}]
  /\ linked \subseteq Flow /\ dropped \subseteq Flow
  /\ job \in [Job -> {Free} \cup Row]
  /\ outputs \in [Flow -> SUBSET Answers]
  /\ history \in [Thread -> SUBSET (Flow \X Answers)]
  /\ signedOff \subseteq Thread /\ recent \subseteq Thread
  /\ replies \in [Flow -> Seq([answer : Answers, via : {"outbox", "post"}])]
  /\ asked \in [Flow -> Nat]
  /\ lost \in [Flow -> Nat]
  /\ faults \in 0 .. MaxFaults

(* What the bot says in a thread it remembers there: an answer on its way  *)
(* to Slack, or in the outbox, is in the history that the next answer is   *)
(* made from (process.go:292 before :195, whatever is repeated).           *)
SaidIsRemembered ==
  \A f \in Flow : home[f] \in Thread =>
    \A k \in DOMAIN replies[f] : <<f, replies[f][k].answer>> \in history[home[f]]

(* A message is answered again, or will be, only for an attempt of one of  *)
(* its jobs that was lost; and whether the answers go through the outbox   *)
(* or are posted is settled once, when the workflow gets a conversation.   *)
RepeatsAreExplained ==
  \A f \in Flow :
    /\ Cardinality(LiveOf(f)) + Len(replies[f]) <= 1 + lost[f]
    /\ \A k \in DOMAIN replies[f] : (replies[f][k].via = "outbox") <=> (f \in linked)
=============================================================================
