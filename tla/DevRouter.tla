----------------------------- MODULE DevRouter -----------------------------
(***************************************************************************)
(* The dev router of the runner: `ponko-runner dev-router` turns issues    *)
(* that carry the intake label into pipelines (devrouter/intake.go) and    *)
(* advances each pipeline by one stage (runner.go, ingress.go, planning.go,*)
(* fanout.go, story.go, validation.go) on the rows of                      *)
(* sqlite/pipeline_store.go.                                               *)
(*                                                                         *)
(* An invocation reads a pipeline once and acts on that snapshot; every    *)
(* statement is a step of its own, and nothing locks the pipeline.  An     *)
(* invocation may end anywhere, and a later one resumes from the row.      *)
(* Nothing keeps two invocations from running at once, on two issues or on *)
(* one: contended remembers the issues on which two of them have met.      *)
(* Track, rationale, prompts, costs and comments are data left out.        *)
(***************************************************************************)
EXTENDS Naturals, FiniteSets

CONSTANTS
  Issue,        (* GitHub issues                                           *)
  Runner,       (* invocations of dev-router that may run at once          *)
  MaxPipelines, (* bound: pipelines made of one issue                      *)
  NoPipeline,   (* what an invocation between two pipelines is on          *)
  MaxStories,   (* bound: stories of a plan (its prompt asks for 10)       *)
  MaxFaults,    (* bound: turns that end in an error, a crash or a refusal *)
                (* by the budget                                           *)
  MaxCounted    (* bound: where the model stops counting stories_completed *)

ASSUME DevRouterAssumption ==
  /\ MaxPipelines \in Nat \ {0}
  /\ NoPipeline \notin Issue \X (1 .. MaxPipelines)
  /\ MaxStories \in Nat \ {0}
  /\ MaxFaults \in Nat
  /\ MaxCounted \in Nat /\ MaxCounted > MaxStories + MaxFaults

Pipeline == Issue \X (1 .. MaxPipelines)   (* those of an issue in order   *)

VARIABLES
  label,        (* the issues with the intake label                        *)
  rows,         (* the pipelines there are                                 *)
  stage,        (* their columns: stage,                                   *)
  plan,         (* the number of stories in plan_output, 0 for none,       *)
  story_count, stories_completed, current_story_index,
  pc, on, snap, (* an invocation: where it is, its pipeline, what Get read *)
  planned,      (* and the number of stories it has just planned           *)
  done,         (* history: the stories the agent carried out for a plan   *)
  green,        (* history: pipelines whose CI was asked for after their   *)
                (* last story, and was green (CheckCI: the latest run of   *)
                (* the repository, of whatever branch)                     *)
  contended,    (* history: issues on which two invocations were at work   *)
                (* at once                                                 *)
  faults        (* faults so far                                           *)

columns == <<stage, plan, story_count, stories_completed, current_story_index>>
turn    == <<pc, on, snap, planned, contended>>
vars == <<label, rows, stage, plan, story_count, stories_completed,
          current_story_index, pc, on, snap, planned, done, green, contended,
          faults>>

Stage == {"pending", "classifying", "planning", "fanout", "executing",
          "validating", "awaiting_approval", "completed", "failed"}
terminalStages == {"completed", "failed"}

(* validStageTransitions.                                                  *)
ValidTransition(from, to) ==
  \/ from = "pending" /\ to = "classifying"
  \/ from = "classifying" /\ to = "planning"
  \/ from = "planning" /\ to = "fanout"
  \/ from = "fanout" /\ to = "executing"
  \/ from = "executing" /\ to \in {"validating", "failed"}
  \/ from = "validating" /\ to \in {"awaiting_approval", "failed"}
  \/ from = "awaiting_approval" /\ to \in terminalStages

Blank == [stage |-> "pending", plan |-> 0, count |-> 0, index |-> 0]

Init ==
  /\ label = Issue
  /\ rows = {}
  /\ stage = [p \in Pipeline |-> "pending"]
  /\ plan = [p \in Pipeline |-> 0]
  /\ story_count = [p \in Pipeline |-> 0]
  /\ stories_completed = [p \in Pipeline |-> 0]
  /\ current_story_index = [p \in Pipeline |-> 0]
  /\ pc = [r \in Runner |-> "idle"]
  /\ on = [r \in Runner |-> NoPipeline]
  /\ snap = [r \in Runner |-> Blank]
  /\ planned = [r \in Runner |-> 0]
  /\ done = [p \in Pipeline |-> {}]
  /\ green = {}
  /\ contended = {}
  /\ faults = 0

-----------------------------------------------------------------------------
(* An invocation's turn on a pipeline.                                     *)

BeginTurn(r, at, p, read) ==
  /\ pc' = [pc EXCEPT ![r] = at]
  /\ on' = [on EXCEPT ![r] = p]
  /\ snap' = [snap EXCEPT ![r] = read]
  /\ contended' = IF \E q \in Runner : pc[q] # "idle" /\ on[q][1] = p[1]
                  THEN contended \cup {p[1]} ELSE contended
  /\ UNCHANGED planned

GoesTo(r, at) ==
  /\ pc' = [pc EXCEPT ![r] = at]
  /\ UNCHANGED <<on, snap, planned, contended>>

EndTurn(r) ==
  /\ pc' = [pc EXCEPT ![r] = "idle"]
  /\ on' = [on EXCEPT ![r] = NoPipeline]
  /\ snap' = [snap EXCEPT ![r] = Blank]
  /\ planned' = [planned EXCEPT ![r] = 0]
  /\ UNCHANGED contended

(* The invocation is at "at", or dispatches a pipeline it read in stage s. *)
At(r, at) == pc[r] = at
Dispatched(r, s) == pc[r] = "dispatch" /\ snap[r].stage = s

(* Operators named Slip... are wrong variants of the definition that       *)
(* follows them: a run with one in its place must break a property.        *)

(* UpdateStage checks the edge it is asked for, and not the row's stage:   *)
(* UPDATE ... WHERE id = ?.                                                *)
UpdateStage(p, from, to) ==
  /\ ValidTransition(from, to)
  /\ stage' = [stage EXCEPT ![p] = to]

-----------------------------------------------------------------------------
(* PollNewIssues.                                                          *)

(* Somebody puts the intake label on an issue, perhaps not for the first   *)
(* time.                                                                   *)
LabelIssue(i) ==
  /\ label' = label \cup {i}
  /\ UNCHANGED <<rows, columns, turn, done, green, faults>>

(* Wrong: the store is not asked whether the issue is tracked.             *)
SlipPollUnchecked(r, i) ==
  /\ pc[r] = "idle"
  /\ i \in label
  /\ BeginTurn(r, "create", <<i, 1>>, Blank)
  /\ UNCHANGED <<label, rows, columns, done, green, faults>>

(* A labelled issue without a pipeline (GetByIssueURL).                    *)
PollIssue(r, i) ==
  /\ pc[r] = "idle"
  /\ i \in label
  /\ \A p \in rows : p[1] # i
  /\ BeginTurn(r, "create", <<i, 1>>, Blank)
  /\ UNCHANGED <<label, rows, columns, done, green, faults>>

(* Create inserts a row; issue_url is not unique.                          *)
CreatePipeline(r) ==
  /\ At(r, "create")
  /\ \E p \in Pipeline \ rows :
       /\ p[1] = on[r][1]
       /\ \A n \in 1 .. p[2] - 1 : <<p[1], n>> \in rows
       /\ rows' = rows \cup {p}
  /\ GoesTo(r, "unlabel")
  /\ UNCHANGED <<label, columns, done, green, faults>>

(* The label is taken off; that this fails is only logged (TurnFails).     *)
RemoveLabel(r) ==
  /\ At(r, "unlabel")
  /\ label' = label \ {on[r][1]}
  /\ EndTurn(r)
  /\ UNCHANGED <<rows, columns, done, green, faults>>

-----------------------------------------------------------------------------
(* RunOnce, and the jobs it dispatches to.                                 *)

RunOnce(r, p) ==
  /\ pc[r] = "idle"
  /\ p \in rows
  /\ stage[p] \notin terminalStages
  /\ BeginTurn(r, "dispatch", p,
       [stage |-> stage[p], plan |-> plan[p], count |-> story_count[p],
        index |-> current_story_index[p]])
  /\ UNCHANGED <<label, rows, columns, done, green, faults>>

(* CanAffordRun or CanAffordDay says no: the pipeline waits.               *)
BudgetExceeded(r) ==
  /\ faults < MaxFaults
  /\ pc[r] = "dispatch"
  /\ snap[r].stage \in {"pending", "planning", "executing"}
  /\ faults' = faults + 1
  /\ EndTurn(r)
  /\ UNCHANGED <<label, rows, columns, done, green>>

ToClassifying(r) ==
  /\ Dispatched(r, "pending")
  /\ UpdateStage(on[r], "pending", "classifying")
  /\ GoesTo(r, "ingress")
  /\ UNCHANGED <<label, rows, plan, story_count, stories_completed,
                 current_story_index, done, green, faults>>

(* Wrong: a pipeline left in "classifying" is not taken up again.          *)
SlipNoResume(r) ==
  /\ At(r, "ingress")
  /\ UpdateStage(on[r], "classifying", "planning")
  /\ EndTurn(r)
  /\ UNCHANGED <<label, rows, plan, story_count, stories_completed,
                 current_story_index, done, green, faults>>

(* IngressJob: the agent classifies the issue, the track is stored.        *)
ToPlanning(r) ==
  /\ At(r, "ingress") \/ Dispatched(r, "classifying")
  /\ UpdateStage(on[r], "classifying", "planning")
  /\ EndTurn(r)
  /\ UNCHANGED <<label, rows, plan, story_count, stories_completed,
                 current_story_index, done, green, faults>>

(* PlanningJob: the agent's stories, or one that wraps the whole issue.    *)
SetPlanOutput(r) ==
  /\ Dispatched(r, "planning")
  /\ \E n \in 1 .. MaxStories :
       /\ plan' = [plan EXCEPT ![on[r]] = n]
       /\ planned' = [planned EXCEPT ![r] = n]
  /\ pc' = [pc EXCEPT ![r] = "count"]
  /\ done' = [done EXCEPT ![on[r]] = {}]
  /\ UNCHANGED <<label, rows, stage, story_count, stories_completed,
                 current_story_index, on, snap, green, contended, faults>>

SetStoryCount(r) ==
  /\ At(r, "count")
  /\ story_count' = [story_count EXCEPT ![on[r]] = planned[r]]
  /\ GoesTo(r, "planned")
  /\ UNCHANGED <<label, rows, stage, plan, stories_completed,
                 current_story_index, done, green, faults>>

ToFanout(r) ==
  /\ At(r, "planned")
  /\ UpdateStage(on[r], "planning", "fanout")
  /\ EndTurn(r)
  /\ UNCHANGED <<label, rows, plan, story_count, stories_completed,
                 current_story_index, done, green, faults>>

(* FanOutJob: a plan without stories is an error.                          *)
ResetStoryIndex(r) ==
  /\ Dispatched(r, "fanout")
  /\ snap[r].plan > 0
  /\ current_story_index' = [current_story_index EXCEPT ![on[r]] = 0]
  /\ GoesTo(r, "indexed")
  /\ UNCHANGED <<label, rows, stage, plan, story_count, stories_completed,
                 done, green, faults>>

ToExecuting(r) ==
  /\ At(r, "indexed")
  /\ UpdateStage(on[r], "fanout", "executing")
  /\ EndTurn(r)
  /\ UNCHANGED <<label, rows, plan, story_count, stories_completed,
                 current_story_index, done, green, faults>>

-----------------------------------------------------------------------------
(* StoryJob: one story, up to MaxRetries times.  An index past the plan is *)
(* an error (TurnFails).                                                   *)

StoryFails(r) ==
  /\ Dispatched(r, "executing")
  /\ snap[r].index < snap[r].plan
  /\ UpdateStage(on[r], "executing", "failed")
  /\ EndTurn(r)
  /\ UNCHANGED <<label, rows, plan, story_count, stories_completed,
                 current_story_index, done, green, faults>>

StorySucceeds(r) ==
  /\ Dispatched(r, "executing")
  /\ snap[r].index < snap[r].plan
  /\ done' = [done EXCEPT ![on[r]] = @ \cup {snap[r].index}]
  /\ green' = green \ {on[r]}
  /\ GoesTo(r, "incr")
  /\ UNCHANGED <<label, rows, columns, faults>>

IncrStoriesCompleted(r) ==
  /\ At(r, "incr")
  /\ stories_completed' = [stories_completed EXCEPT ![on[r]] =
       IF @ < MaxCounted THEN @ + 1 ELSE @]
  /\ GoesTo(r, "advance")
  /\ UNCHANGED <<label, rows, stage, plan, story_count, current_story_index,
                 done, green, faults>>

(* Wrong: where to go on is told by the counter, not by the story's index. *)
SlipAdvanceByCount(r) ==
  /\ At(r, "advance")
  /\ IF stories_completed[on[r]] >= snap[r].count
     THEN UpdateStage(on[r], "executing", "validating") /\ UNCHANGED current_story_index
     ELSE /\ current_story_index' =
               [current_story_index EXCEPT ![on[r]] = stories_completed[on[r]]]
          /\ UNCHANGED stage
  /\ EndTurn(r)
  /\ UNCHANGED <<label, rows, plan, story_count, stories_completed, done, green, faults>>

(* Wrong: the last story is not recognised.                                *)
SlipNeverLast(r) ==
  /\ At(r, "advance")
  /\ IF snap[r].index = snap[r].count
     THEN UpdateStage(on[r], "executing", "validating") /\ UNCHANGED current_story_index
     ELSE /\ current_story_index' = [current_story_index EXCEPT ![on[r]] = snap[r].index + 1]
          /\ UNCHANGED stage
  /\ EndTurn(r)
  /\ UNCHANGED <<label, rows, plan, story_count, stories_completed, done, green, faults>>

(* After the last story (by the count that was read), on to validation.    *)
Advance(r) ==
  /\ At(r, "advance")
  /\ IF snap[r].index + 1 = snap[r].count
     THEN UpdateStage(on[r], "executing", "validating") /\ UNCHANGED current_story_index
     ELSE /\ current_story_index' = [current_story_index EXCEPT ![on[r]] = snap[r].index + 1]
          /\ UNCHANGED stage
  /\ EndTurn(r)
  /\ UNCHANGED <<label, rows, plan, story_count, stories_completed, done, green, faults>>

-----------------------------------------------------------------------------
(* ValidationJob.                                                          *)

(* CI has not ended, or nobody has answered: the next turn asks again.     *)
StillPending(r) ==
  /\ Dispatched(r, "validating") \/ Dispatched(r, "awaiting_approval")
  /\ EndTurn(r)
  /\ UNCHANGED <<label, rows, columns, done, green, faults>>

(* The summary is commented on the issue, then the stage changes.          *)
CIGreen(r) ==
  /\ Dispatched(r, "validating")
  /\ green' = green \cup {on[r]}
  /\ GoesTo(r, "commented")
  /\ UNCHANGED <<label, rows, columns, done, faults>>

ToAwaitingApproval(r) ==
  /\ At(r, "commented")
  /\ UpdateStage(on[r], "validating", "awaiting_approval")
  /\ EndTurn(r)
  /\ UNCHANGED <<label, rows, plan, story_count, stories_completed,
                 current_story_index, done, green, faults>>

CIFailed(r) ==
  /\ Dispatched(r, "validating")
  /\ UpdateStage(on[r], "validating", "failed")
  /\ EndTurn(r)
  /\ UNCHANGED <<label, rows, plan, story_count, stories_completed,
                 current_story_index, done, green, faults>>

Decided(r) ==
  /\ Dispatched(r, "awaiting_approval")
  /\ \E verdict \in terminalStages : UpdateStage(on[r], "awaiting_approval", verdict)
  /\ EndTurn(r)
  /\ UNCHANGED <<label, rows, plan, story_count, stories_completed,
                 current_story_index, done, green, faults>>

(* The agent, gh or a statement fails, what was read is refused, or the    *)
(* process dies.                                                           *)
TurnFails(r) ==
  /\ faults < MaxFaults
  /\ pc[r] # "idle"
  /\ faults' = faults + 1
  /\ EndTurn(r)
  /\ UNCHANGED <<label, rows, columns, done, green>>

-----------------------------------------------------------------------------
(* What a turn does once it has begun.                                     *)
Work(r) ==
  \/ CreatePipeline(r) \/ RemoveLabel(r)
  \/ ToClassifying(r) \/ ToPlanning(r)
  \/ SetPlanOutput(r) \/ SetStoryCount(r) \/ ToFanout(r)
  \/ ResetStoryIndex(r) \/ ToExecuting(r)
  \/ StoryFails(r) \/ StorySucceeds(r)
  \/ IncrStoriesCompleted(r) \/ Advance(r)
  \/ StillPending(r) \/ CIGreen(r) \/ ToAwaitingApproval(r) \/ CIFailed(r)
  \/ Decided(r)

Next ==
  \/ \E i \in Issue : LabelIssue(i)
  \/ \E r \in Runner :
       \/ Work(r) \/ BudgetExceeded(r) \/ TurnFails(r)
       \/ \E i \in Issue : PollIssue(r, i)
       \/ \E p \in Pipeline : RunOnce(r, p)

(* dev-router is invoked again and again (without a pipeline id: it polls  *)
(* every issue and advances every pipeline), and a turn that begins ends.  *)
Fairness ==
  \A r \in Runner :
    /\ WF_vars(Work(r))
    /\ \A i \in Issue : SF_vars(PollIssue(r, i))
    /\ \A p \in Pipeline : SF_vars(RunOnce(r, p))

Spec == Init /\ [][Next]_vars /\ Fairness

-----------------------------------------------------------------------------
PCs == {"idle", "create", "unlabel", "dispatch", "ingress", "count", "planned",
        "indexed", "incr", "advance", "commented"}
Count == 0 .. MaxStories
Row == [stage : Stage, plan : Count, count : Count, index : Nat]

Types ==
  /\ label \subseteq Issue
  /\ rows \subseteq Pipeline
  /\ stage \in [Pipeline -> Stage]
  /\ plan \in [Pipeline -> Count]
  /\ story_count \in [Pipeline -> Count]
  /\ stories_completed \in [Pipeline -> 0 .. MaxCounted]
  /\ current_story_index \in [Pipeline -> Nat]
  /\ pc \in [Runner -> PCs]
  /\ on \in [Runner -> Pipeline \cup {NoPipeline}]
  /\ snap \in [Runner -> Row]
  /\ planned \in [Runner -> Count]
  /\ done \in [Pipeline -> SUBSET (0 .. MaxStories - 1)]
  /\ green \subseteq Pipeline
  /\ contended \subseteq Issue
  /\ faults \in 0 .. MaxFaults

(* A pipeline that executes is at a story of its plan: the index, counted  *)
(* from 0, never runs past it (story.go:114), unless two invocations were  *)
(* at work on its issue at once.                                           *)
StoryOfPlan ==
  \A p \in Pipeline :
    p[1] \notin contended /\ stage[p] = "executing" => current_story_index[p] < plan[p]

TypeOK == Types /\ StoryOfPlan

(* PollNewIssues is idempotent: an issue has one pipeline, whatever fails  *)
(* between its creation and the removal of its label, and however often    *)
(* the label comes back, unless two invocations were at work on it at once *)
(* and both found it without a pipeline.                                   *)
OnePipelinePerIssue ==
  \A p, q \in rows : p[1] = q[1] => p = q \/ p[1] \in contended

(* A pipeline comes to validation with every story of its plan carried     *)
(* out, none skipped, wherever turns were lost and repeated; and to its    *)
(* approval with a CI that was asked for after the last of them, and was   *)
(* green.  The "Stories completed" that the approval is asked with misses  *)
(* none, and every turn that was lost adds one at most.  Only two          *)
(* invocations at work on its issue at once can break this: UpdateStage    *)
(* overwrites a stage they have not read.                                  *)
ApprovedIsChecked ==
  \A p \in rows :
    p[1] \notin contended =>
      /\ stage[p] \in {"validating", "awaiting_approval", "completed"} =>
           plan[p] = story_count[p] /\ done[p] = 0 .. plan[p] - 1
      /\ stage[p] \in {"awaiting_approval", "completed"} => p \in green
      /\ stage[p] = "awaiting_approval" =>
           stories_completed[p] \in story_count[p] .. story_count[p] + faults

(* An issue that carried the label comes to the point where CI or a person *)
(* decides, or fails: no turn, lost or repeated, leaves it stuck before,   *)
(* unless two invocations were at work on it at once.                      *)
IssueComesToDecision ==
  \A i \in Issue :
    <>(\/ i \in contended
       \/ \E p \in rows : p[1] = i /\ stage[p] \in
            {"validating", "awaiting_approval", "completed", "failed"})

=============================================================================
