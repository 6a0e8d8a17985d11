------------------------------ MODULE Runner ------------------------------
(***************************************************************************)
(* ponko-runner run (cmd/cli/run.go): a pass takes in the issues that are  *)
(* labelled for it (intake/github.go, routing/router.go), lets River work  *)
(* the phases of their workflows (worker/task.go) and the pollers that     *)
(* wait for an approval (worker/approval.go), within a budget              *)
(* (budget/budget.go), and ends when nothing is left to run                *)
(* (sqlite/drain.go).  Passes may overlap; each has one worker, and all    *)
(* share the SQLite file and the issues at GitHub.                         *)
(*                                                                         *)
(* Money is counted in the estimate of a phase, 1.0.  Events, prompts, and *)
(* the mistakes a configuration can hold (an unknown workflow, phase or    *)
(* gate: an attempt that fails) are left out.  The rows of the queue that  *)
(* are not finalized are in the slots of Job.                              *)
(***************************************************************************)
EXTENDS Naturals, Sequences, FiniteSets, FiniteSetsExt, Functions

CONSTANTS
  Issue,
  Label,            (* the labels that rules look at                       *)
  Tags,             (* the labels an issue has of them                     *)
  Rules,            (* the routing rules: labels and a workflow, in order  *)
  Phases,           (* a workflow's phases: does one wait for approval, is *)
                    (* it behind the gate                                  *)
  NoWorkflow,
  Pass,             (* processes that may run at once                      *)
  Job,              (* bound: rows of the queue at once                    *)
  NoJob,            (* an idle worker                                      *)
  MaxActiveTasks,   (* the limit on active tasks (3)                       *)
  MaxAttempts,      (* attempts of a job (3 of a phase, 25 of a poller)    *)
  PerRun, PerDay, PerTask, (* the limits of the budget                     *)
  Cost,             (* what a phase may cost, 0 when that cannot be read   *)
  MaxPasses,        (* bound: passes that start                            *)
  Watched,          (* bound: issues that people label and answer          *)
  MaxHuman,         (* bound: how often they do                            *)
  MaxFaults         (* bound: failures and crashes                         *)

ASSUME RunnerAssumption ==
  /\ Issue # {} /\ IsFiniteSet(Job)
  /\ Tags \in [Issue -> SUBSET Label]
  /\ Rules \in Seq([labels : SUBSET Label, workflow : DOMAIN Phases])
  /\ \A w \in DOMAIN Phases :
       Phases[w] \in Seq([approval : BOOLEAN, gate : BOOLEAN]) /\ Phases[w] # <<>>
  /\ NoJob \notin Job
  /\ MaxActiveTasks \in Nat \ {0} /\ MaxAttempts \in Nat \ {0}
  /\ PerRun \in Nat \ {0} /\ PerDay \in Nat \ {0} /\ PerTask \in Nat \ {0}
  /\ Cost \in SUBSET Nat /\ Cost # {} /\ IsFiniteSet(Cost) /\ IsFiniteSet(Pass)
  /\ Watched \subseteq Issue
  /\ MaxPasses \in Nat /\ MaxHuman \in Nat /\ MaxFaults \in Nat

(* The labels a person or a pass changes: the intake label, the label of   *)
(* the gate, the label of the approval gate.                               *)
StateLabel == {"ready", "gate", "approved"}

Running  == {"executing", "done"}
Runnable == Running \cup {"available", "retryable"}

VARIABLES
  labels,     (* GitHub: of StateLabel, those an issue has                 *)
  lastWord,   (* GitHub: the last /approve or /reject of an issue          *)
  job,        (* the rows of river_job that are not finalized              *)
  completed,  (* issues with a unique row that is completed                *)
  pc,         (* a pass: off, on, or stopping after a failed intake        *)
  room,       (* a pass: how many it may still insert, when it counted     *)
  todo,       (* a pass: issues polled and not yet looked at               *)
  working,    (* a pass: the job of its worker                             *)
  taskSpent, daySpent, (* the sums of budget_usage, daySpent of the day    *)
  saidYes,    (* history: issues approved some time, by label or comment   *)
  gateSeen,   (* history: issues whose gate label was set some time        *)
  overlapped, (* history: a pass inserted after another began to take in   *)
  forgotten,  (* history: issues whose unique row was cleaned up while     *)
              (* they were still being worked                              *)
  repeated,   (* history: issues of an attempt lost after it inserted      *)
  owed,       (* history: issues taken in and not finished, rejected or    *)
              (* given up since                                            *)
  starts, human, faults

github  == <<labels, lastWord, saidYes, gateSeen, human>>
queue   == <<job, completed>>
passes  == <<starts, pc, room, todo, working>>
budget  == <<taskSpent, daySpent>>
history == <<overlapped, forgotten, repeated, owed>>
vars    == <<github, queue, passes, budget, history, faults>>

AnyIssue == CHOOSE i \in Issue : TRUE
Free == [state |-> "free", kind |-> "task_phase", issue |-> AnyIssue, phase |-> 1,
         attempt |-> 0, unique |-> FALSE, spent |-> 0]

(* Issues are labelled when they are written, some for the gate already.   *)
Init ==
  /\ gateSeen \in SUBSET Watched
  /\ labels = [i \in Issue |-> {"ready"} \cup IF i \in gateSeen THEN {"gate"} ELSE {}]
  /\ lastWord = [i \in Issue |-> "none"]
  /\ saidYes = {} /\ human = 0
  /\ job = [j \in Job |-> Free] /\ completed = {}
  /\ pc = [p \in Pass |-> "off"] /\ starts = 0
  /\ room = [p \in Pass |-> 0]
  /\ todo = [p \in Pass |-> {}]
  /\ working = [p \in Pass |-> NoJob]
  /\ taskSpent = [i \in Issue |-> 0] /\ daySpent = 0
  /\ overlapped = FALSE /\ forgotten = {} /\ repeated = {} /\ owed = {}
  /\ faults = 0

Fault == faults < MaxFaults /\ faults' = faults + 1

Live == {j \in Job : job[j].state # "free"}
LiveOf(i) == {j \in Live : job[j].issue = i}

(* Router.Match: the first rule whose labels the issue all has.            *)
Match(i) ==
  LET hits == {n \in DOMAIN Rules : Rules[n].labels \subseteq Tags[i]}
  IN  IF hits = {} THEN NoWorkflow ELSE Rules[Min(hits)].workflow

Last(i) == Len(Phases[Match(i)])
PhaseOf(j) == Phases[Match(job[j].issue)][job[j].phase]

(* Insert: a new row, in a free slot.                                      *)
NewRow(kind, i, n, unique) ==
  [Free EXCEPT !.state = "available", !.kind = kind, !.issue = i, !.phase = n, !.unique = unique]
Slots == Job \ Live

-----------------------------------------------------------------------------
(* The intake of a pass.  Operators named Slip... are wrong variants of    *)
(* the definition that follows them.                                       *)

(* Wrong: a job that waits for a person, or for money, does not count.     *)
SlipCountRunnable == Cardinality({j \in Job : job[j].state \in Runnable})

(* countActiveRiverTasks: phases and pollers, the scheduled ones too.      *)
CountActive == Cardinality(Live)

(* What intake still has to look at, and how many of them it may insert.   *)
Intakes(p, issues, n) ==
  /\ todo' = [todo EXCEPT ![p] = IF n = 0 THEN {} ELSE issues]
  /\ room' = [room EXCEPT ![p] = IF issues = {} THEN 0 ELSE n]
TakingIn(p) == pc[p] = "on" /\ todo[p] # {}

(* What gh lists: the open issues with the intake label.                   *)
PollRaw == {i \in Issue : "ready" \in labels[i]}

(* The client is started; the count, and PollRaw.                          *)
StartPass(p) ==
  /\ pc[p] = "off" /\ starts < MaxPasses
  /\ starts' = starts + 1
  /\ pc' = [pc EXCEPT ![p] = "on"]
  /\ Intakes(p, PollRaw, IF CountActive < MaxActiveTasks THEN MaxActiveTasks - CountActive ELSE 0)
  /\ UNCHANGED <<github, queue, working, budget, history, faults>>

(* Wrong: a row that is completed does not keep an issue from coming again.*)
SlipUniqueLive(i) == \E j \in LiveOf(i) : job[j].unique

(* UniqueOpts{ByArgs}: River's default states, so neither cancelled nor    *)
(* discarded rows; of the arguments only the issue's URL counts.           *)
IsDuplicate(i) == i \in completed \/ \E j \in LiveOf(i) : job[j].unique

SkipIssue(p, i) ==
  /\ TakingIn(p) /\ i \in todo[p]
  /\ Match(i) = NoWorkflow \/ IsDuplicate(i)
  /\ Intakes(p, todo[p] \ {i}, room[p])
  /\ UNCHANGED <<github, queue, starts, pc, working, budget, history, faults>>

(* The label makes way, unless no other is configured or gh fails, which   *)
(* is only logged.                                                         *)
MarkInProgress(i) == labels' \in {[labels EXCEPT ![i] = @ \ {"ready"}], labels}

(* The row, and then the label.                                            *)
TakeIn(p, i) ==
  /\ TakingIn(p) /\ i \in todo[p]
  /\ Match(i) # NoWorkflow /\ ~IsDuplicate(i)
  /\ \E n \in Slots : job' = [job EXCEPT ![n] = NewRow("task_phase", i, 1, TRUE)]
  /\ Intakes(p, todo[p] \ {i}, room[p] - 1)
  /\ overlapped' = (overlapped \/ \E q \in Pass \ {p} : TakingIn(q))
  /\ owed' = owed \cup {i}
  /\ MarkInProgress(i)
  /\ UNCHANGED <<lastWord, saidYes, gateSeen, human, completed, starts, pc, working,
                 budget, forgotten, repeated, faults>>

(* gh, JobList or Insert fails: the pass stops its client and is over.     *)
IntakeFails(p) ==
  /\ TakingIn(p)
  /\ Fault
  /\ pc' = [pc EXCEPT ![p] = "stopping"]
  /\ Intakes(p, {}, 0)
  /\ UNCHANGED <<github, queue, starts, working, budget, history>>

(* DrainRiverQueue: whoever works them, no job is left but scheduled ones. *)
Drained == \A j \in Job : job[j].state \notin Runnable

(* The drain, or after a failed intake client.Stop, which lets the job of  *)
(* the worker end.                                                         *)
PassIsOver(p) ==
  /\ \/ pc[p] = "on" /\ todo[p] = {} /\ Drained
     \/ pc[p] = "stopping" /\ working[p] = NoJob
  /\ pc' = [pc EXCEPT ![p] = "off"]
  /\ UNCHANGED <<github, queue, starts, room, todo, working, budget, history, faults>>

-----------------------------------------------------------------------------
(* The worker of a pass, while its client is started.                      *)

Takes(p, j, kind) ==
  /\ pc[p] = "on" /\ working[p] = NoJob
  /\ job[j].state = "available" /\ job[j].kind = kind
  /\ working' = [working EXCEPT ![p] = j]
  /\ UNCHANGED <<github, completed, starts, pc, room, todo, budget, overlapped, forgotten, repeated>>

(* JobSnooze.                                                              *)
Snoozes(p, j, kind) ==
  /\ pc[p] = "on" /\ working[p] = NoJob
  /\ job[j].state = "available" /\ job[j].kind = kind
  /\ job' = [job EXCEPT ![j].state = "scheduled"]
  /\ UNCHANGED <<github, completed, passes, budget, history>>

(* Wrong: what is spent already may be all of the limit.                   *)
SlipCanAfford(j) ==
  /\ job[j].spent <= PerRun /\ daySpent <= PerDay /\ taskSpent[job[j].issue] <= PerTask

(* CanAffordRun, CanAffordDay, CanAffordTask with an estimate of 1.        *)
CanAfford(j) ==
  /\ job[j].spent + 1 <= PerRun
  /\ daySpent + 1 <= PerDay
  /\ taskSpent[job[j].issue] + 1 <= PerTask

GateOpen(j) == PhaseOf(j).gate => "gate" \in labels[job[j].issue]

(* TaskPhaseWorker up to the runtime's Execute.                            *)
StartPhase(p, j) ==
  /\ Takes(p, j, "task_phase")
  /\ CanAfford(j) /\ GateOpen(j)
  /\ job' = [job EXCEPT ![j].state = "executing"]
  /\ UNCHANGED <<owed, faults>>

(* Too dear, behind the gate, or gh did not answer: later.                 *)
SnoozePhase(p, j) ==
  /\ Snoozes(p, j, "task_phase")
  /\ \/ ~(CanAfford(j) /\ GateOpen(j)) /\ UNCHANGED faults
     \/ CanAfford(j) /\ PhaseOf(j).gate /\ Fault

(* The row of a failed attempt; the last one is discarded, and no one is   *)
(* told.                                                                   *)
AfterError(j, spent) ==
  LET last == job[j].attempt + 1 = MaxAttempts IN
  /\ job' = [job EXCEPT ![j] =
       IF last THEN Free
       ELSE [@ EXCEPT !.state = "retryable", !.attempt = job[j].attempt + 1,
                      !.spent = job[j].spent + spent]]
  /\ owed' = IF last THEN owed \ {job[j].issue} ELSE owed
  /\ repeated' = IF job[j].state = "done" THEN repeated \cup {job[j].issue} ELSE repeated

(* Record adds the cost to what others have added since CanAfford.         *)
Record(j, c) ==
  /\ taskSpent' = [taskSpent EXCEPT ![job[j].issue] = @ + c]
  /\ daySpent' = daySpent + c

(* What follows a phase that is not the last: a poller, or the next phase, *)
(* inserted without UniqueOpts.                                            *)
Following(j) ==
  NewRow(IF PhaseOf(j).approval THEN "approval_poller" ELSE "task_phase",
         job[j].issue, job[j].phase + 1, FALSE)

Done(j, c) == [job[j] EXCEPT !.state = "done", !.spent = job[j].spent + c]

(* Execute succeeds; the cost is recorded, for the run too, or that fails  *)
(* and is logged; the last phase ends the task.                            *)
PhaseDone(p) ==
  LET j == working[p] IN
  /\ j # NoJob /\ job[j].state = "executing"
  /\ \E c \in Cost \cup {0} :
       /\ \/ c \in Cost /\ Record(j, c) /\ UNCHANGED faults
          \/ c = 0 /\ Fault /\ UNCHANGED budget
       /\ IF job[j].phase = Last(job[j].issue)
          THEN /\ job' = [job EXCEPT ![j] = Done(j, c)]
               /\ owed' = owed \ {job[j].issue}
          ELSE /\ \E n \in Slots : job' = [job EXCEPT ![j] = Done(j, c), ![n] = Following(j)]
               /\ UNCHANGED owed
  /\ UNCHANGED <<github, completed, passes, overlapped, forgotten, repeated>>

(* Execute succeeds and the insertion fails, or the minute is over.        *)
PhaseNotFollowed(p) ==
  LET j == working[p] IN
  /\ j # NoJob /\ job[j].state = "executing"
  /\ Fault
  /\ \E c \in Cost \ {0} : Record(j, c) /\ AfterError(j, c)
  /\ working' = [working EXCEPT ![p] = NoJob]
  /\ UNCHANGED <<github, completed, starts, pc, room, todo, overlapped, forgotten>>

(* CheckApproval: the label, and then the last of all the comments.        *)
ApprovalStatus(i) ==
  IF "approved" \in labels[i] THEN "approve" ELSE lastWord[i]

(* Wrong: only a rejection keeps the task waiting.                         *)
SlipPollerApproved(p, j) ==
  /\ Takes(p, j, "approval_poller")
  /\ ApprovalStatus(job[j].issue) # "reject"
  /\ \E n \in Slots :
       job' = [job EXCEPT ![j].state = "done",
                 ![n] = NewRow("task_phase", job[j].issue, job[j].phase, FALSE)]
  /\ UNCHANGED <<owed, faults>>

PollerApproved(p, j) ==
  /\ Takes(p, j, "approval_poller")
  /\ ApprovalStatus(job[j].issue) = "approve"
  /\ \E n \in Slots :
       job' = [job EXCEPT ![j].state = "done",
                 ![n] = NewRow("task_phase", job[j].issue, job[j].phase, FALSE)]
  /\ UNCHANGED <<owed, faults>>

(* The insertion fails, or the minute is over before it.                   *)
PollerNotFollowed(p, j) ==
  /\ pc[p] = "on" /\ working[p] = NoJob
  /\ job[j].state = "available" /\ job[j].kind = "approval_poller"
  /\ ApprovalStatus(job[j].issue) = "approve"
  /\ Fault
  /\ AfterError(j, 0)
  /\ UNCHANGED <<github, completed, passes, budget, overlapped, forgotten>>

PollerRejected(p, j) ==
  /\ Takes(p, j, "approval_poller")
  /\ ApprovalStatus(job[j].issue) = "reject"
  /\ job' = [job EXCEPT ![j].state = "done"]
  /\ owed' = owed \ {job[j].issue}
  /\ UNCHANGED faults

(* Wrong: a poller that finds no answer is done.                           *)
SlipPollerSnoozes(p, j) ==
  /\ Takes(p, j, "approval_poller")
  /\ ApprovalStatus(job[j].issue) = "none"
  /\ job' = [job EXCEPT ![j].state = "done"]
  /\ UNCHANGED <<owed, faults>>

(* No answer yet, or gh did not give one.                                  *)
PollerSnoozes(p, j) ==
  /\ Snoozes(p, j, "approval_poller")
  /\ \/ ApprovalStatus(job[j].issue) = "none" /\ UNCHANGED faults
     \/ ApprovalStatus(job[j].issue) # "none" /\ Fault

CompleteJob(p) ==
  LET j == working[p] IN
  /\ j # NoJob /\ job[j].state = "done"
  /\ job' = [job EXCEPT ![j] = Free]
  /\ completed' = IF job[j].unique THEN completed \cup {job[j].issue} ELSE completed
  /\ working' = [working EXCEPT ![p] = NoJob]
  /\ UNCHANGED <<github, starts, pc, room, todo, budget, history, faults>>

-----------------------------------------------------------------------------
(* River and failures.                                                     *)

(* Execute fails, or the job's minute is over: what the phase has cost is  *)
(* not known.                                                              *)
AttemptFails(p) ==
  LET j == working[p] IN
  /\ j # NoJob
  /\ Fault
  /\ AfterError(j, 0)
  /\ working' = [working EXCEPT ![p] = NoJob]
  /\ UNCHANGED <<github, completed, starts, pc, room, todo, budget, overlapped, forgotten>>

(* The process dies; the row of its job stays running.                     *)
Crash(p) ==
  /\ pc[p] # "off"
  /\ Fault
  /\ pc' = [pc EXCEPT ![p] = "off"]
  /\ Intakes(p, {}, 0)
  /\ working' = [working EXCEPT ![p] = NoJob]
  /\ UNCHANGED <<github, queue, starts, budget, history>>

Started == {p \in Pass : pc[p] # "off"}

(* Wrong: the rescuer does not know which jobs are being worked.           *)
SlipRescue(j) ==
  /\ Started # {}
  /\ job[j].state \in Running
  /\ AfterError(j, 0)
  /\ UNCHANGED <<github, completed, passes, budget, overlapped, forgotten, faults>>

(* The rescuer of a pass, after an hour: no attempt may last that long.    *)
Rescue(j) ==
  /\ Started # {}
  /\ job[j].state \in Running /\ \A p \in Pass : working[p] # j
  /\ AfterError(j, 0)
  /\ UNCHANGED <<github, completed, passes, budget, overlapped, forgotten, faults>>

(* The backoff of an attempt, or five minutes of snoozing, are over.       *)
Promote(j, s) ==
  /\ Started # {}
  /\ job[j].state = s
  /\ job' = [job EXCEPT ![j].state = "available"]
  /\ UNCHANGED <<github, completed, passes, budget, history, faults>>

(* A completed row is deleted after a day.                                 *)
CleanCompleted(i) ==
  /\ Started # {}
  /\ i \in completed
  /\ completed' = completed \ {i}
  /\ forgotten' = IF LiveOf(i) # {} THEN forgotten \cup {i} ELSE forgotten
  /\ UNCHANGED <<github, job, passes, budget, overlapped, repeated, owed, faults>>

NewDay ==
  /\ daySpent > 0
  /\ daySpent' = 0
  /\ UNCHANGED <<github, queue, passes, taskSpent, history, faults>>

(* People answer and label.                                                *)
ByHand == human < MaxHuman /\ human' = human + 1
           /\ UNCHANGED <<queue, passes, budget, history, faults>>

Answer(i) ==
  /\ ByHand
  /\ \E word \in {"approve", "reject"} \ {lastWord[i]} :
       /\ lastWord' = [lastWord EXCEPT ![i] = word]
       /\ saidYes' = IF word = "approve" THEN saidYes \cup {i} ELSE saidYes
  /\ UNCHANGED <<labels, gateSeen>>

ChangeLabel(i) ==
  /\ ByHand
  /\ \E l \in StateLabel :
       /\ labels' = [labels EXCEPT ![i] = SymDiff(@, {l})]
       /\ saidYes' = IF l = "approved" THEN saidYes \cup {i} ELSE saidYes
       /\ gateSeen' = IF l = "gate" THEN gateSeen \cup {i} ELSE gateSeen
  /\ UNCHANGED lastWord

-----------------------------------------------------------------------------
Intake(p) == IntakeFails(p) \/ \E i \in Issue : SkipIssue(p, i) \/ TakeIn(p, i)
Work(p) == \/ PhaseDone(p) \/ CompleteJob(p)
           \/ \E j \in Job : \/ StartPhase(p, j) \/ SnoozePhase(p, j)
                            \/ PollerApproved(p, j) \/ PollerRejected(p, j)
                            \/ PollerSnoozes(p, j)

Next ==
  \/ \E p \in Pass : \/ StartPass(p) \/ Intake(p) \/ PassIsOver(p)
                     \/ Work(p) \/ PhaseNotFollowed(p) \/ AttemptFails(p) \/ Crash(p)
  \/ \E j \in Job : \/ Rescue(j) \/ Promote(j, "retryable") \/ Promote(j, "scheduled")
                    \/ \E p \in Pass : PollerNotFollowed(p, j)
  \/ \E i \in Issue : CleanCompleted(i)
  \/ \E i \in Watched : Answer(i) \/ ChangeLabel(i)
  \/ NewDay

Spec == Init /\ [][Next]_vars

-----------------------------------------------------------------------------
JobRow == [state : Runnable \cup {"free", "scheduled"},
           kind : {"task_phase", "approval_poller"}, issue : Issue,
           phase : Nat, attempt : 0 .. MaxAttempts - 1, unique : BOOLEAN, spent : Nat]

(* Types; a worker's job is its own and running, a phase one of the        *)
(* workflow.                                                               *)
TypeOK ==
  /\ labels \in [Issue -> SUBSET StateLabel]
  /\ lastWord \in [Issue -> {"none", "approve", "reject"}]
  /\ job \in [Job -> JobRow]
  /\ \A j \in Live : job[j].phase \in 1 .. Last(job[j].issue)
  /\ pc \in [Pass -> {"off", "on", "stopping"}]
  /\ room \in [Pass -> 0 .. MaxActiveTasks]
  /\ todo \in [Pass -> SUBSET Issue]
  /\ working \in [Pass -> Job \cup {NoJob}]
  /\ \A p \in Pass : working[p] # NoJob =>
       job[working[p]].state \in Running /\ \A q \in Pass \ {p} : working[q] # working[p]
  /\ taskSpent \in [Issue -> Nat] /\ daySpent \in Nat
  /\ completed \cup saidYes \cup gateSeen \cup forgotten \cup repeated \cup owed \subseteq Issue
  /\ overlapped \in BOOLEAN
  /\ starts \in 0 .. MaxPasses /\ human \in 0 .. MaxHuman /\ faults \in 0 .. MaxFaults

(* doIntake keeps max_active_tasks: no more issues have jobs, those that   *)
(* wait for people or for money included, unless passes took in at the     *)
(* same time.                                                              *)
ActiveTasksBounded ==
  ~overlapped => Cardinality({job[j].issue : j \in Live}) <= MaxActiveTasks

(* An issue is worked by one job at a time, be it a phase or a poller.     *)
(* Two chains have one of two causes: an attempt was lost after it had     *)
(* inserted its follower, or the completed row that made the issue unique  *)
(* was deleted while the issue was still worked (MarkInProgress had left   *)
(* the label, or it came back).                                            *)
OneChainPerIssue ==
  \A i \in Issue \ (repeated \cup forgotten) :
    Cardinality({j \in LiveOf(i) : job[j].state # "done"}) <= 1

(* An issue that was taken in has a job until its workflow is over, it is  *)
(* rejected, or the attempts of a job are used up, whatever fails in       *)
(* between.                                                                *)
NoTaskLost == \A i \in owed : LiveOf(i) # {}

(* Nothing behind an approval phase runs for an issue that nobody approved *)
(* at any time, and nothing behind the gate for one that never had its     *)
(* label.                                                                  *)
PeopleDecide ==
  \A j \in Live : job[j].kind = "task_phase" =>
    /\ (\E n \in 1 .. job[j].phase - 1 : Phases[Match(job[j].issue)][n].approval)
         => job[j].issue \in saidYes
    /\ PhaseOf(j).gate /\ job[j].state \in Running => job[j].issue \in gateSeen

(* CanAfford is asked before a phase and Record told after it: with one    *)
(* worker to a pass, a day is overspent by a phase of each pass at most,   *)
(* and a job, which a lost attempt makes spend again, by its last attempt. *)
SpendingBounded ==
  /\ daySpent <= PerDay - 1 + Cardinality(Pass) * Max(Cost)
  /\ \A j \in Live : job[j].spent <= PerRun - 1 + Max(Cost)

=============================================================================
