------------------------------ MODULE Approval ------------------------------
(***************************************************************************)
(* Several workflows of one Slack thread in a channel whose plans need     *)
(* approval: the conversations row they share (saga/conversation.go), the  *)
(* plan job that pauses (pauseForApproval, jobs/plan.go), the approve and  *)
(* reject buttons (api/interactions.go), the execute jobs an approval      *)
(* starts, and the respond job that completes the conversation             *)
(* (jobs/respond.go).                                                      *)
(*                                                                         *)
(* Every SQL statement and every insertion of a job is a step of its own.  *)
(* TransitionStatus is a compare-and-set on conversations.status; it is    *)
(* all that keeps the workflows, the retries and the clicks apart.         *)
(***************************************************************************)
EXTENDS Naturals, FiniteSets

CONSTANTS
  Workflow,        (* the messages sent to the thread                      *)
  Click,           (* bound: numbers of the button clicks, in their order  *)
  NoWorkflow,      (* what a click that is not being handled is on         *)
  PlanSizes,       (* bound: numbers of tasks of a plan, 0 for no plan     *)
  JobMaxAttempts,  (* attempts of a plan or respond job (River: 25)        *)
  MaxFaults        (* bound: lost attempts, handlers and failed reads      *)

ASSUME ApprovalAssumption ==
  /\ Click \subseteq Nat
  /\ NoWorkflow \notin Workflow
  /\ PlanSizes \subseteq Nat
  /\ JobMaxAttempts \in Nat \ {0}
  /\ MaxFaults \in Nat

VARIABLES
  conv,         (* conversations.status                                    *)
  linked,       (* the workflows with a conversation_id                    *)
  planState, planAttempt, planPc, tasks,   (* the plan jobs                *)
  planRows,     (* task counts of the workflow_outputs rows "plan"         *)
  total,        (* workflows.total_tasks                                   *)
  started, completed,  (* execute jobs inserted, and those that have ended *)
  buttons,      (* "blocks" rows in the outbox, with the two buttons       *)
  clickPc, clickOn, clickLeft, (* a handler: where it is, its workflow and *)
                               (* the execute jobs it has yet to insert    *)
  respondState, respondAttempt, respondPc, (* the respond jobs             *)
  replies,      (* answers enqueued in the outbox, or as slack_reply jobs  *)
  asked,        (* history: times a plan paused the thread                 *)
  asker,        (* history: the workflow whose approval the thread awaits  *)
  answered,     (* history: clicks that won their compare-and-set          *)
  approved,     (* history: workflows with an approve click that won       *)
  unasked,      (* history: workflows whose channel config was not read    *)
  abandoned,    (* history: workflows an approve handler of which was lost *)
  faults        (* faults so far                                           *)

planVars    == <<planState, planAttempt, planPc, tasks>>
clickVars   == <<clickPc, clickOn, clickLeft>>
respondVars == <<respondState, respondAttempt, respondPc>>
jobVars     == <<started, completed>>
history     == <<asked, asker, answered, approved, unasked, abandoned>>
vars == <<conv, linked, planState, planAttempt, planPc, tasks, planRows, total,
          started, completed, buttons, clickPc, clickOn, clickLeft,
          respondState, respondAttempt, respondPc, replies, asked, asker,
          answered, approved, unasked, abandoned, faults>>

(* The slack handler creates the workflow and the conversation; a failure  *)
(* to store conversation_id is only logged, and the plan job is enqueued.  *)
Init ==
  /\ conv = "active"
  /\ linked \in SUBSET Workflow
  /\ planState   = [w \in Workflow |-> "available"]
  /\ planAttempt = [w \in Workflow |-> 0]
  /\ planPc      = [w \in Workflow |-> "idle"]
  /\ tasks       = [w \in Workflow |-> 0]
  /\ planRows    = [w \in Workflow |-> {}]
  /\ total       = [w \in Workflow |-> 0]
  /\ started     = [w \in Workflow |-> 0]
  /\ completed   = [w \in Workflow |-> 0]
  /\ buttons     = [w \in Workflow |-> 0]
  /\ clickPc     = [c \in Click |-> "unused"]
  /\ clickOn     = [c \in Click |-> NoWorkflow]
  /\ clickLeft   = [c \in Click |-> 0]
  /\ respondState   = [w \in Workflow |-> "none"]
  /\ respondAttempt = [w \in Workflow |-> 0]
  /\ respondPc      = [w \in Workflow |-> "idle"]
  /\ replies     = [w \in Workflow |-> 0]
  /\ asked       = 0
  /\ asker       = {}
  /\ answered    = 0
  /\ approved    = {}
  /\ unasked     = {}
  /\ abandoned   = {}
  /\ faults      = 0

(* Operators named Slip... are wrong variants of the definition that       *)
(* follows them: a run with one in its place must break a property.        *)

(* River's verdict on an attempt that ended without success.               *)
AfterError(attempt) == IF attempt < JobMaxAttempts THEN "available" ELSE "discarded"

SlipUnconditional(from, to) == conv' = to

(* saga.TransitionStatus: UPDATE ... WHERE status = from; no row is an     *)
(* error.                                                                  *)
TransitionStatus(from, to) == conv = from /\ conv' = to

-----------------------------------------------------------------------------
(* PlanWorker.Work.                                                        *)

(* The attempt starts and decompose asks the model: no plan (nil), or a    *)
(* list of tasks.                                                          *)
PlanStart(w) ==
  /\ planState[w] = "available"
  /\ planState' = [planState EXCEPT ![w] = "running"]
  /\ planAttempt' = [planAttempt EXCEPT ![w] = @ + 1]
  /\ \E n \in PlanSizes :
       /\ tasks' = [tasks EXCEPT ![w] = n]
       /\ planPc' = [planPc EXCEPT ![w] = IF n = 0 THEN "process" ELSE "save"]
  /\ UNCHANGED <<conv, linked, planRows, total, jobVars, buttons, clickVars,
                 respondVars, replies, history, faults>>

PlanEnds(w, state) ==
  /\ planState' = [planState EXCEPT ![w] = state]
  /\ planPc' = [planPc EXCEPT ![w] = "idle"]
  /\ tasks'  = [tasks EXCEPT ![w] = 0]
  /\ UNCHANGED planAttempt

PlanGoesTo(w, pc) ==
  /\ planPc' = [planPc EXCEPT ![w] = pc]
  /\ UNCHANGED <<planState, planAttempt, tasks>>

(* The bypass: the process job answers, and its respond job follows.       *)
InsertProcess(w) ==
  /\ planPc[w] = "process"
  /\ respondState' = [respondState EXCEPT ![w] = IF @ = "none" THEN "available" ELSE @]
  /\ PlanEnds(w, "completed")
  /\ UNCHANGED <<conv, linked, planRows, total, jobVars, buttons, clickVars,
                 respondAttempt, respondPc, replies, history, faults>>

(* SaveOutput "plan": a row more for every attempt that comes here.        *)
SavePlan(w) ==
  /\ planPc[w] = "save"
  /\ planRows' = [planRows EXCEPT ![w] = @ \cup {tasks[w]}]
  /\ PlanGoesTo(w, "total")
  /\ UNCHANGED <<conv, linked, total, jobVars, buttons, clickVars, respondVars,
                 replies, history, faults>>

(* Wrong: a workflow without a conversation is not asked for.              *)
SlipUnlinkedUnasked(w) ==
  /\ planPc[w] = "total"
  /\ total' = [total EXCEPT ![w] = tasks[w]]
  /\ PlanGoesTo(w, IF w \in linked THEN "pause" ELSE "insert")
  /\ UNCHANGED <<conv, linked, planRows, jobVars, buttons, clickVars,
                 respondVars, replies, history, faults>>

(* SetTotalTasks; shouldRequireApproval reads the config and finds yes.    *)
SetTotalTasks(w) ==
  /\ planPc[w] = "total"
  /\ total' = [total EXCEPT ![w] = tasks[w]]
  /\ PlanGoesTo(w, "pause")
  /\ UNCHANGED <<conv, linked, planRows, jobVars, buttons, clickVars,
                 respondVars, replies, history, faults>>

(* channel.GetConfig fails: a warning, and the plan runs unasked.          *)
SetTotalTasksConfigUnread(w) ==
  /\ faults < MaxFaults
  /\ planPc[w] = "total"
  /\ total' = [total EXCEPT ![w] = tasks[w]]
  /\ PlanGoesTo(w, "insert")
  /\ faults' = faults + 1
  /\ unasked' = unasked \cup {w}
  /\ UNCHANGED <<conv, linked, planRows, jobVars, buttons, clickVars,
                 respondVars, replies, asked, asker, answered, approved,
                 abandoned>>

(* The insertion loop of Work (see FanOut for its single turns).           *)
InsertUnasked(w) ==
  /\ planPc[w] = "insert"
  /\ started' = [started EXCEPT ![w] = @ + tasks[w]]
  /\ PlanEnds(w, "completed")
  /\ UNCHANGED <<conv, linked, planRows, total, completed, buttons, clickVars,
                 respondVars, replies, history, faults>>

(* pauseForApproval: FindOrCreateConversation gives this thread's row.     *)
LinkConversation(w) ==
  /\ planPc[w] = "pause"
  /\ w \notin linked
  /\ linked' = linked \cup {w}
  /\ UNCHANGED <<conv, planVars, planRows, total, jobVars, buttons, clickVars,
                 respondVars, replies, history, faults>>

Pause(w) ==
  /\ planPc[w] = "pause"
  /\ w \in linked
  /\ TransitionStatus("active", "awaiting_approval")
  /\ asked' = asked + 1
  /\ asker' = {w}
  /\ PlanGoesTo(w, "blocks")
  /\ UNCHANGED <<linked, planRows, total, jobVars, buttons, clickVars,
                 respondVars, replies, answered, approved, unasked, abandoned,
                 faults>>

(* Wrong: the job waits for its turn without giving up.                    *)
SlipRefusedForEver(w) ==
  /\ planPc[w] = "pause"
  /\ w \in linked
  /\ conv # "active"
  /\ PlanEnds(w, "available")
  /\ UNCHANGED <<conv, linked, planRows, total, jobVars, buttons, clickVars,
                 respondVars, replies, history, faults>>

(* The thread awaits another approval, or is completed: the attempt fails. *)
PauseRefused(w) ==
  /\ planPc[w] = "pause"
  /\ w \in linked
  /\ conv # "active"
  /\ PlanEnds(w, AfterError(planAttempt[w]))
  /\ UNCHANGED <<conv, linked, planRows, total, jobVars, buttons, clickVars,
                 respondVars, replies, history, faults>>

(* saga.Enqueue of the blocks; then Work returns.                          *)
EnqueueBlocks(w) ==
  /\ planPc[w] = "blocks"
  /\ buttons' = [buttons EXCEPT ![w] = @ + 1]
  /\ PlanGoesTo(w, "finish")
  /\ UNCHANGED <<conv, linked, planRows, total, jobVars, clickVars, respondVars,
                 replies, history, faults>>

PlanFinish(w) ==
  /\ planPc[w] = "finish"
  /\ PlanEnds(w, "completed")
  /\ UNCHANGED <<conv, linked, planRows, total, jobVars, buttons, clickVars,
                 respondVars, replies, history, faults>>

(* A statement fails, the attempt times out or the process dies.           *)
PlanFault(w) ==
  /\ faults < MaxFaults
  /\ planState[w] = "running"
  /\ faults' = faults + 1
  /\ PlanEnds(w, AfterError(planAttempt[w]))
  /\ UNCHANGED <<conv, linked, planRows, total, jobVars, buttons, clickVars,
                 respondVars, replies, history>>

-----------------------------------------------------------------------------
(* handleApprove and handleReject.  A message keeps its buttons until      *)
(* UpdateMessage takes them away, the last and only logged call of a       *)
(* handler: clicks that are already made, or a call that fails, leave more *)
(* than one handler for a message.                                         *)

(* A click on a button of w.                                               *)
Press(c, w) ==
  /\ clickPc[c] = "unused"
  /\ \A d \in Click : d < c => clickPc[d] # "unused"
  /\ buttons[w] > 0

ClickGoesTo(c, pc, w, left) ==
  /\ clickPc'   = [clickPc EXCEPT ![c] = pc]
  /\ clickOn'   = [clickOn EXCEPT ![c] = w]
  /\ clickLeft' = [clickLeft EXCEPT ![c] = left]

ClickEnds(c) == ClickGoesTo(c, "done", NoWorkflow, 0)

(* GetOutput "plan" has no ORDER BY: it gives any of the workflow's rows.  *)
(* It comes before the compare-and-set; rows are only added, so a row that *)
(* it gives is still one of them when the compare-and-set is made.         *)
Approve(c, w) ==
  /\ Press(c, w)
  /\ TransitionStatus("awaiting_approval", "active")
  /\ answered' = answered + 1
  /\ asker' = {}
  /\ approved' = approved \cup {w}
  /\ \E n \in planRows[w] : ClickGoesTo(c, "turn", w, n)
  /\ UNCHANGED <<linked, planVars, planRows, total, jobVars, buttons,
                 respondVars, replies, asked, unasked, abandoned, faults>>

Reject(c, w) ==
  /\ Press(c, w)
  /\ TransitionStatus("awaiting_approval", "completed")
  /\ answered' = answered + 1
  /\ asker' = {}
  /\ ClickGoesTo(c, "message", w, 0)
  /\ UNCHANGED <<linked, planVars, planRows, total, jobVars, buttons,
                 respondVars, replies, asked, approved, unasked, abandoned, faults>>

(* The compare-and-set of a click fails: logged, and Slack is told 200.    *)
ClickRefused(c, w) ==
  /\ Press(c, w)
  /\ conv # "awaiting_approval"
  /\ ClickEnds(c)
  /\ UNCHANGED <<conv, linked, planVars, planRows, total, jobVars, buttons,
                 respondVars, replies, history, faults>>

(* AddTurn; it gives up after three collisions of turn_index (ClickFault). *)
AddTurn(c) ==
  /\ clickPc[c] = "turn"
  /\ ClickGoesTo(c, "insert", clickOn[c], clickLeft[c])
  /\ UNCHANGED <<conv, linked, planVars, planRows, total, jobVars, buttons,
                 respondVars, replies, history, faults>>

(* Wrong: the loop stops before the last task.                             *)
SlipInsertOneLess(c) ==
  /\ clickPc[c] = "insert"
  /\ IF clickLeft[c] = 1
     THEN ClickEnds(c) /\ UNCHANGED started
     ELSE /\ started' = [started EXCEPT ![clickOn[c]] = @ + 1]
          /\ ClickGoesTo(c, "insert", clickOn[c], clickLeft[c] - 1)
  /\ UNCHANGED <<conv, linked, planVars, planRows, total, completed, buttons,
                 respondVars, replies, history, faults>>

(* One turn of the loop that inserts the execute jobs.                     *)
InsertApproved(c) ==
  /\ clickPc[c] = "insert"
  /\ started' = [started EXCEPT ![clickOn[c]] = @ + 1]
  /\ IF clickLeft[c] = 1
     THEN ClickEnds(c)
     ELSE ClickGoesTo(c, "insert", clickOn[c], clickLeft[c] - 1)
  /\ UNCHANGED <<conv, linked, planVars, planRows, total, completed, buttons,
                 respondVars, replies, history, faults>>

(* saga.Enqueue of the rejection message.                                  *)
EnqueueRejection(c) ==
  /\ clickPc[c] = "message"
  /\ ClickEnds(c)
  /\ UNCHANGED <<conv, linked, planVars, planRows, total, jobVars, buttons,
                 respondVars, replies, history, faults>>

(* A call of the handler fails or the process dies: nobody retries it.     *)
ClickFault(c) ==
  /\ faults < MaxFaults
  /\ clickPc[c] \in {"turn", "insert", "message"}
  /\ faults' = faults + 1
  /\ abandoned' = IF clickPc[c] = "message" THEN abandoned
                  ELSE abandoned \cup {clickOn[c]}
  /\ ClickEnds(c)
  /\ UNCHANGED <<conv, linked, planVars, planRows, total, jobVars, buttons,
                 respondVars, replies, asked, asker, answered, approved, unasked>>

-----------------------------------------------------------------------------
(* An execute job ends and counts itself; the one that reaches total_tasks *)
(* starts the synthesize job, and that the respond job.  That there may be *)
(* a second respond job of a workflow is left to FanOut.                   *)
ExecuteDone(w) ==
  /\ completed[w] < started[w]
  /\ completed' = [completed EXCEPT ![w] = @ + 1]
  /\ respondState' = [respondState EXCEPT ![w] =
       IF completed[w] + 1 = total[w] /\ @ = "none" THEN "available" ELSE @]
  /\ UNCHANGED <<conv, linked, planVars, planRows, total, started, buttons,
                 clickVars, respondAttempt, respondPc, replies, history, faults>>

(* RespondWorker.Work: with a conversation, the answer goes to the outbox  *)
(* and then the conversation is completed if it is active; without one the *)
(* answer goes to a slack_reply job.                                       *)
RespondStart(w) ==
  /\ respondState[w] = "available"
  /\ respondState' = [respondState EXCEPT ![w] = "running"]
  /\ respondAttempt' = [respondAttempt EXCEPT ![w] = @ + 1]
  /\ replies' = [replies EXCEPT ![w] = @ + 1]
  /\ respondPc' = [respondPc EXCEPT ![w] = IF w \in linked THEN "complete" ELSE "finish"]
  /\ UNCHANGED <<conv, linked, planVars, planRows, total, jobVars, buttons,
                 clickVars, history, faults>>

SlipCompleteAlways(w) ==
  /\ respondPc[w] = "complete"
  /\ conv' = "completed"
  /\ respondPc' = [respondPc EXCEPT ![w] = "finish"]
  /\ UNCHANGED <<linked, planVars, planRows, total, jobVars, buttons, clickVars,
                 respondState, respondAttempt, replies, history, faults>>

(* TransitionStatus(active, completed); its error is only logged.          *)
CompleteConversation(w) ==
  /\ respondPc[w] = "complete"
  /\ \/ TransitionStatus("active", "completed")
     \/ conv # "active" /\ UNCHANGED conv
  /\ respondPc' = [respondPc EXCEPT ![w] = "finish"]
  /\ UNCHANGED <<linked, planVars, planRows, total, jobVars, buttons, clickVars,
                 respondState, respondAttempt, replies, history, faults>>

RespondEnds(w, attempt, state) ==
  /\ respondPc' = [respondPc EXCEPT ![w] = "idle"]
  /\ respondState' = [respondState EXCEPT ![w] = state]
  /\ respondAttempt' = [respondAttempt EXCEPT ![w] = attempt]
  /\ UNCHANGED <<conv, linked, planVars, planRows, total, jobVars, buttons,
                 clickVars, replies, history>>

RespondFinish(w) ==
  /\ respondPc[w] = "finish"
  /\ RespondEnds(w, respondAttempt[w], "completed")
  /\ UNCHANGED faults

(* The attempt is lost before the answer is enqueued, or after it.         *)
RespondFault(w) ==
  /\ faults < MaxFaults
  /\ faults' = faults + 1
  /\ \/ /\ respondState[w] = "available"
        /\ RespondEnds(w, respondAttempt[w] + 1, AfterError(respondAttempt[w] + 1))
     \/ /\ respondState[w] = "running"
        /\ RespondEnds(w, respondAttempt[w], AfterError(respondAttempt[w]))

-----------------------------------------------------------------------------
PlanWork(w) ==
  \/ PlanStart(w) \/ InsertProcess(w) \/ SavePlan(w) \/ SetTotalTasks(w)
  \/ InsertUnasked(w) \/ LinkConversation(w)
  \/ Pause(w) \/ PauseRefused(w) \/ EnqueueBlocks(w) \/ PlanFinish(w)

RespondWork(w) == RespondStart(w) \/ CompleteConversation(w) \/ RespondFinish(w)

(* What the user does, and what the handler of a click then does.          *)
Clicked(c, w) == Approve(c, w) \/ Reject(c, w) \/ ClickRefused(c, w)
Handle(c)  == AddTurn(c) \/ InsertApproved(c) \/ EnqueueRejection(c)

Next ==
  \/ \E w \in Workflow : \/ PlanWork(w) \/ ExecuteDone(w) \/ RespondWork(w)
                         \/ SetTotalTasksConfigUnread(w) \/ PlanFault(w) \/ RespondFault(w)
  \/ \E c \in Click : Handle(c) \/ ClickFault(c)
  \/ \E c \in Click, w \in Workflow : Clicked(c, w)

(* River runs its jobs, and a handler that has begun goes on.  Nothing     *)
(* makes the user click.                                                   *)
Fairness ==
  /\ \A w \in Workflow : /\ WF_vars(PlanWork(w))
                         /\ WF_vars(ExecuteDone(w))
                         /\ WF_vars(RespondWork(w))
  /\ \A c \in Click : WF_vars(Handle(c))

Spec == Init /\ [][Next]_vars /\ Fairness

-----------------------------------------------------------------------------
JobStates  == {"none", "available", "running", "completed", "discarded"}
PlanPcs    == {"idle", "process", "save", "total", "insert", "pause",
               "blocks", "finish"}
ClickPcs   == {"unused", "turn", "insert", "message", "done"}
RespondPcs == {"idle", "complete", "finish"}

TypeOK ==
  /\ conv \in {"active", "awaiting_approval", "completed"}
  /\ linked \subseteq Workflow
  /\ planState \in [Workflow -> JobStates]
  /\ planAttempt \in [Workflow -> 0 .. JobMaxAttempts]
  /\ planPc \in [Workflow -> PlanPcs]
  /\ tasks \in [Workflow -> PlanSizes \cup {0}]
  /\ planRows \in [Workflow -> SUBSET (PlanSizes \ {0})]
  /\ total \in [Workflow -> PlanSizes \cup {0}]
  /\ started \in [Workflow -> Nat]
  /\ completed \in [Workflow -> Nat]
  /\ buttons \in [Workflow -> Nat]
  /\ clickPc \in [Click -> ClickPcs]
  /\ clickOn \in [Click -> Workflow \cup {NoWorkflow}]
  /\ clickLeft \in [Click -> Nat]
  /\ respondState \in [Workflow -> JobStates]
  /\ respondAttempt \in [Workflow -> 0 .. JobMaxAttempts]
  /\ respondPc \in [Workflow -> RespondPcs]
  /\ replies \in [Workflow -> Nat]
  /\ asked \in Nat /\ answered \in Nat
  /\ asker \in {{}} \cup {{w} : w \in Workflow}
  /\ approved \subseteq Workflow
  /\ unasked \subseteq Workflow
  /\ abandoned \subseteq Workflow
  /\ faults \in 0 .. MaxFaults

(* However plans, retries, clicks and replies race for the conversation:   *)
(* the thread awaits an approval exactly when one pause has not been       *)
(* decided by a click, and every pause is decided once at most.            *)
OneQuestionAtATime ==
  asked = answered + (IF conv = "awaiting_approval" THEN 1 ELSE 0)

(* A conversation that is rejected or answered stays completed, and no     *)
(* click is honoured after that: an approval cannot follow a rejection.    *)
KeepsCompleted ==
  conv = "completed" => conv' = "completed" /\ answered' = answered
CompletedIsFinal == [][KeepsCompleted]_vars

(* No task of a channel that asks for approval runs before its own plan    *)
(* was approved, unless the channel's config could not be read.            *)
RunsOnlyWhenApproved ==
  \A w \in Workflow : started[w] > 0 => w \in approved \cup unasked

(* An approved plan is carried out and answered, however it interleaves    *)
(* with the other workflows of its thread, and whatever else fails.  Three *)
(* things of its own can take the answer from it: the handler of one of    *)
(* its approvals was lost after the compare-and-set, and nobody repeats it *)
(* (api/interactions.go); its plan was made anew with another number of    *)
(* tasks, so that the row the handler read and total_tasks may differ; or  *)
(* its respond job used up its attempts.                                   *)
ApprovedIsAnswered ==
  \A w \in Workflow :
    w \in approved ~> \/ replies[w] > 0
                      \/ w \in abandoned
                      \/ Cardinality(planRows[w]) > 1
                      \/ respondState[w] = "discarded"

(* What docs/design-patterns.md:110 says of a transition that is followed  *)
(* by an outbox entry: if the entry fails, a retry is safe.  Of a plan     *)
(* that has paused the thread: its blocks are enqueued in the end.         *)
RetryIsSafe ==
  \A w \in Workflow : planPc[w] = "blocks" ~> buttons[w] > 0

=============================================================================
