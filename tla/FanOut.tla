------------------------------- MODULE FanOut -------------------------------
(***************************************************************************)
(* One workflow from its plan job to its respond or process job:           *)
(* PlanWorker.Work (jobs/plan.go, the branch that needs no approval),      *)
(* ExecuteWorker.Work (jobs/execute.go) and SynthesizeWorker.Work          *)
(* (jobs/synthesize.go), on the workflows, workflow_steps and              *)
(* workflow_outputs rows of workflow/workflow.go.                          *)
(*                                                                         *)
(* Nothing runs in a transaction: every SQL statement, and every insertion *)
(* of a River job, commits by itself and is one step.  River runs a job at *)
(* least once: an attempt that returns an error, runs into its timeout or  *)
(* dies with the process is followed by another one, from the top, until   *)
(* the job's attempts are used up.                                         *)
(***************************************************************************)
EXTENDS Naturals, FiniteSets

CONSTANTS
  MaxTasks,            (* bound: tasks the model plans for one message     *)
  JobMaxAttempts,      (* attempts of a plan or synthesize job (River: 25) *)
  ExecuteMaxAttempts,  (* the const of execute.go (3 in the code)          *)
  MaxFaults            (* bound: attempts lost to crashes, timeouts or the *)
                       (* failure of a statement                           *)

ASSUME FanOutAssumption ==
  /\ MaxTasks \in Nat \ {0}
  /\ JobMaxAttempts \in Nat \ {0}
  /\ ExecuteMaxAttempts \in Nat \ {0}
  /\ MaxFaults \in Nat

Task    == 1 .. MaxTasks             (* TaskIndex + 1                      *)
Attempt == 1 .. JobMaxAttempts
Job     == Attempt \X Task           (* the execute job that plan attempt  *)
                                     (* j[1] inserts for task j[2]         *)
Synth   == 1 .. JobMaxAttempts       (* synthesize jobs                    *)

VARIABLES
  planState, planAttempt, planPc,    (* the plan job                       *)
  tasks,                             (* number of tasks of this attempt    *)
  next,                              (* index of its insertion loop        *)
  total_tasks, completed_tasks,      (* columns of the workflows row       *)
  steps,        (* statuses of the workflow_steps rows "execute-<index>"   *)
  outputs,      (* workflow_outputs rows "execute-<index>" and their kind  *)
  jobState, jobAttempt, jobPc,       (* the execute jobs                   *)
  failed,       (* the attempt of the job goes through handleExecuteFailure*)
  synthCount,                        (* synthesize jobs inserted so far    *)
  synthState, synthAttempt, synthPc, (* the synthesize jobs                *)
  seen,         (* the tasks whose outputs the synthesize job read         *)
  threadRows,   (* SaveThreadMessages calls that went through              *)
  processJobs, respondJobs,          (* jobs inserted for the next stage   *)
  totalSets,    (* history: times SetTotalTasks went through               *)
  faults,       (* attempts lost so far                                    *)
  lateFaults    (* history: those lost after the attempt's last write      *)

planVars  == <<planState, planAttempt, planPc, tasks, next>>
jobVars   == <<jobState, jobAttempt, jobPc, failed>>
synthVars == <<synthCount, synthState, synthAttempt, synthPc, seen>>
rowVars   == <<total_tasks, completed_tasks, steps, outputs>>
outVars   == <<threadRows, processJobs, respondJobs>>
faultVars == <<faults, lateFaults>>
vars == <<planState, planAttempt, planPc, tasks, next, total_tasks,
          completed_tasks, steps, outputs, jobState, jobAttempt, jobPc, failed,
          synthCount, synthState, synthAttempt, synthPc, seen,
          threadRows, processJobs, respondJobs, totalSets, faults, lateFaults>>

JobStates == {"none", "available", "running", "completed", "discarded"}

Init ==
  /\ planState = "available" /\ planAttempt = 0 /\ planPc = "idle"
  /\ tasks = 0 /\ next = 1
  /\ total_tasks = 0 /\ completed_tasks = 0
  /\ steps = [t \in Task |-> {}]
  /\ outputs = {}
  /\ jobState   = [j \in Job |-> "none"]
  /\ jobAttempt = [j \in Job |-> 0]
  /\ jobPc      = [j \in Job |-> "idle"]
  /\ failed     = [j \in Job |-> FALSE]
  /\ synthCount = 0
  /\ synthState   = [s \in Synth |-> "none"]
  /\ synthAttempt = [s \in Synth |-> 0]
  /\ synthPc      = [s \in Synth |-> "idle"]
  /\ seen         = [s \in Synth |-> {}]
  /\ threadRows = 0 /\ processJobs = 0 /\ respondJobs = 0
  /\ totalSets = 0
  /\ faults = 0 /\ lateFaults = 0

(* Operators named Slip... are wrong variants of the definition that       *)
(* follows them: a run with one in its place must break a property.        *)

(* River's verdict on an attempt that ended without success.               *)
AfterError(attempt, max) == IF attempt < max THEN "available" ELSE "discarded"

-----------------------------------------------------------------------------
(* PlanWorker.Work.                                                        *)

PlanStart ==
  /\ planState = "available"
  /\ planState' = "running"
  /\ planAttempt' = planAttempt + 1
  /\ planPc' = "decompose"
  /\ UNCHANGED <<tasks, next, jobVars, synthVars, rowVars, outVars, totalSets, faultVars>>

(* decompose: nil, "direct", invalid JSON and every error that is not      *)
(* permanent mean bypass; otherwise the model gives a non-empty task list. *)
Decompose ==
  /\ planPc = "decompose"
  /\ \/ /\ planPc' = "bypass"
        /\ tasks' = 0
     \/ /\ tasks' \in Task
        /\ planPc' = "set_total"
  /\ next' = 1
  /\ UNCHANGED <<planState, planAttempt, jobVars, synthVars, rowVars, outVars, totalSets, faultVars>>

(* A permanent LLM error makes the attempt return an error.                *)
DecomposeFails ==
  /\ planPc = "decompose"
  /\ planPc' = "idle" /\ tasks' = 0 /\ next' = 1
  /\ planState' = AfterError(planAttempt, JobMaxAttempts)
  /\ UNCHANGED <<planAttempt, jobVars, synthVars, rowVars, outVars, totalSets, faultVars>>

InsertProcess ==
  /\ planPc = "bypass"
  /\ processJobs' = processJobs + 1
  /\ planPc' = "finish"
  /\ UNCHANGED <<planState, planAttempt, tasks, next, jobVars, synthVars, rowVars,
                 threadRows, respondJobs, totalSets, faultVars>>

SetTotalTasks ==
  /\ planPc = "set_total"
  /\ total_tasks' = tasks
  /\ totalSets' = totalSets + 1
  /\ planPc' = "insert"
  /\ UNCHANGED <<planState, planAttempt, tasks, next, jobVars, synthVars,
                 completed_tasks, steps, outputs, outVars, faultVars>>

(* One turn of the loop over the tasks.                                    *)
InsertExecute ==
  /\ planPc = "insert"
  /\ jobState' = [jobState EXCEPT ![<<planAttempt, next>>] = "available"]
  /\ next' = next + 1
  /\ planPc' = IF next = tasks THEN "finish" ELSE "insert"
  /\ UNCHANGED <<planState, planAttempt, tasks, jobAttempt, jobPc, failed,
                 synthVars, rowVars, outVars, totalSets, faultVars>>

(* Work returns nil and River records it.                                  *)
PlanFinish ==
  /\ planPc = "finish"
  /\ planPc' = "idle" /\ tasks' = 0 /\ next' = 1
  /\ planState' = "completed"
  /\ UNCHANGED <<planAttempt, jobVars, synthVars, rowVars, outVars, totalSets, faultVars>>

(* The attempt is lost.  It is lost late when it has inserted a job.       *)
PlanFault ==
  /\ faults < MaxFaults
  /\ planState = "running"
  /\ faults' = faults + 1
  /\ lateFaults' = lateFaults +
       (IF planPc = "finish" \/ (planPc = "insert" /\ next > 1) THEN 1 ELSE 0)
  /\ planPc' = "idle" /\ tasks' = 0 /\ next' = 1
  /\ planState' = AfterError(planAttempt, JobMaxAttempts)
  /\ UNCHANGED <<planAttempt, jobVars, synthVars, rowVars, outVars, totalSets>>

-----------------------------------------------------------------------------
(* ExecuteWorker.Work.                                                     *)

(* River starts an attempt; its first write creates the step row, on the   *)
(* first attempt only, and then the model is called (executeTask).         *)
ExecuteStart(j) ==
  /\ jobState[j] = "available"
  /\ jobState' = [jobState EXCEPT ![j] = "running"]
  /\ jobAttempt' = [jobAttempt EXCEPT ![j] = @ + 1]
  /\ steps' = IF jobAttempt[j] = 0
              THEN [steps EXCEPT ![j[2]] = @ \cup {"pending"}]
              ELSE steps
  /\ jobPc' = [jobPc EXCEPT ![j] = "llm"]
  /\ UNCHANGED <<planVars, failed, synthVars, total_tasks, completed_tasks,
                 outputs, outVars, totalSets, faultVars>>

(* The attempt is lost before CreateStep went through.                     *)
StartFault(j) ==
  /\ faults < MaxFaults
  /\ jobState[j] = "available"
  /\ faults' = faults + 1
  /\ jobAttempt' = [jobAttempt EXCEPT ![j] = @ + 1]
  /\ jobState' = [jobState EXCEPT ![j] = AfterError(jobAttempt[j] + 1, ExecuteMaxAttempts)]
  /\ UNCHANGED <<planVars, jobPc, failed, synthVars, rowVars, outVars, totalSets, lateFaults>>

SlipCountEveryFailure(j) ==
  /\ jobPc[j] = "llm"
  /\ jobAttempt[j] < ExecuteMaxAttempts
  /\ completed_tasks' = completed_tasks + 1
  /\ jobPc' = [jobPc EXCEPT ![j] = "idle"]
  /\ jobState' = [jobState EXCEPT ![j] = "available"]
  /\ UNCHANGED <<planVars, jobAttempt, failed, synthVars, total_tasks,
                 steps, outputs, outVars, totalSets, faultVars>>

(* Wrong: the error is returned on the final attempt as well, to a queue   *)
(* that does not know ExecuteMaxAttempts.                                  *)
SlipRetryAlways(j) ==
  /\ jobPc[j] = "llm"
  /\ jobPc' = [jobPc EXCEPT ![j] = "idle"]
  /\ jobState' = [jobState EXCEPT ![j] = "available"]
  /\ UNCHANGED <<planVars, jobAttempt, failed, synthVars, rowVars, outVars, totalSets, faultVars>>

(* executeTask fails and an attempt is left.                               *)
TaskRetries(j) ==
  /\ jobPc[j] = "llm"
  /\ jobAttempt[j] < ExecuteMaxAttempts
  /\ jobPc' = [jobPc EXCEPT ![j] = "idle"]
  /\ jobState' = [jobState EXCEPT ![j] = "available"]
  /\ UNCHANGED <<planVars, jobAttempt, failed, synthVars, rowVars, outVars, totalSets, faultVars>>

(* executeTask succeeds, or fails on the final attempt; then               *)
(* UpdateStepStatusByName updates every row of that name, if there is one. *)
UpdateStep(j) ==
  /\ jobPc[j] = "llm"
  /\ \E isErr \in BOOLEAN :
       /\ isErr => jobAttempt[j] >= ExecuteMaxAttempts
       /\ failed' = [failed EXCEPT ![j] = isErr]
       /\ steps' = [steps EXCEPT ![j[2]] =
            IF @ = {} THEN {} ELSE {IF isErr THEN "failed" ELSE "complete"}]
  /\ jobPc' = [jobPc EXCEPT ![j] = "save"]
  /\ UNCHANGED <<planVars, jobState, jobAttempt, synthVars,
                 total_tasks, completed_tasks, outputs, outVars, totalSets, faultVars>>

SaveOutput(j) ==
  /\ jobPc[j] = "save"
  /\ outputs' = outputs \cup {<<j[2], IF failed[j] THEN "error" ELSE "result">>}
  /\ jobPc' = [jobPc EXCEPT ![j] = "increment"]
  /\ UNCHANGED <<planVars, jobState, jobAttempt, failed, synthVars,
                 total_tasks, completed_tasks, steps, outVars, totalSets, faultVars>>

SlipCountBefore(j) ==
  /\ jobPc[j] = "increment"
  /\ completed_tasks' = completed_tasks + 1
  /\ jobPc' = [jobPc EXCEPT ![j] =
       IF completed_tasks = total_tasks THEN "join" ELSE "finish"]
  /\ UNCHANGED <<planVars, jobState, jobAttempt, failed, synthVars, total_tasks,
                 steps, outputs, outVars, totalSets, faultVars>>

SlipAlwaysJoin(j) ==
  /\ jobPc[j] = "increment"
  /\ completed_tasks' = completed_tasks + 1
  /\ jobPc' = [jobPc EXCEPT ![j] =
       IF synthCount < JobMaxAttempts THEN "join" ELSE "finish"]
  /\ UNCHANGED <<planVars, jobState, jobAttempt, failed, synthVars, total_tasks,
                 steps, outputs, outVars, totalSets, faultVars>>

(* UPDATE ... RETURNING: the increment and both values are one statement,  *)
(* and maybeTriggerSynthesize compares the values it returned.             *)
IncrementCompletedTasks(j) ==
  /\ jobPc[j] = "increment"
  /\ completed_tasks' = completed_tasks + 1
  /\ jobPc' = [jobPc EXCEPT ![j] =
       IF completed_tasks + 1 = total_tasks THEN "join" ELSE "finish"]
  /\ UNCHANGED <<planVars, jobState, jobAttempt, failed, synthVars, total_tasks,
                 steps, outputs, outVars, totalSets, faultVars>>

(* maybeTriggerSynthesize inserts the job.  UniqueOpts{ByArgs} compares    *)
(* the whole of SynthesizeArgs, the trace context of the inserting job     *)
(* included: an insertion finds an earlier job equal when tracing is off,  *)
(* and not when it is on.                                                  *)
InsertSynthesize(j) ==
  /\ jobPc[j] = "join"
  /\ synthCount' = synthCount + 1
  /\ synthState' = [synthState EXCEPT ![synthCount + 1] = "available"]
  /\ jobPc' = [jobPc EXCEPT ![j] = "finish"]
  /\ UNCHANGED <<planVars, jobState, jobAttempt, failed, synthAttempt,
                 synthPc, seen, rowVars, outVars, totalSets, faultVars>>

SkipAsDuplicate(j) ==
  /\ jobPc[j] = "join"
  /\ \E s \in Synth : synthState[s] \in {"available", "running", "completed"}
  /\ jobPc' = [jobPc EXCEPT ![j] = "finish"]
  /\ UNCHANGED <<planVars, jobState, jobAttempt, failed, synthVars, rowVars,
                 outVars, totalSets, faultVars>>

ExecuteFinish(j) ==
  /\ jobPc[j] = "finish"
  /\ jobPc' = [jobPc EXCEPT ![j] = "idle"]
  /\ jobState' = [jobState EXCEPT ![j] = "completed"]
  /\ UNCHANGED <<planVars, jobAttempt, failed, synthVars, rowVars, outVars, totalSets, faultVars>>

(* The attempt is lost: late when it has incremented completed_tasks.      *)
ExecuteFault(j) ==
  /\ faults < MaxFaults
  /\ jobState[j] = "running"
  /\ faults' = faults + 1
  /\ lateFaults' = lateFaults + (IF jobPc[j] \in {"join", "finish"} THEN 1 ELSE 0)
  /\ jobPc' = [jobPc EXCEPT ![j] = "idle"]
  /\ jobState' = [jobState EXCEPT ![j] = AfterError(jobAttempt[j], ExecuteMaxAttempts)]
  /\ UNCHANGED <<planVars, jobAttempt, failed, synthVars, rowVars, outVars, totalSets>>

(* handleDiscardJob (api/jobs.go): an operator discards a waiting job.     *)
DiscardExecute(j) ==
  /\ faults < MaxFaults
  /\ jobState[j] = "available"
  /\ faults' = faults + 1
  /\ jobState' = [jobState EXCEPT ![j] = "discarded"]
  /\ UNCHANGED <<planVars, jobAttempt, jobPc, failed, synthVars, rowVars,
                 outVars, totalSets, lateFaults>>

-----------------------------------------------------------------------------
(* SynthesizeWorker.Work.                                                  *)

SynthStart(s) ==
  /\ synthState[s] = "available"
  /\ synthState' = [synthState EXCEPT ![s] = "running"]
  /\ synthAttempt' = [synthAttempt EXCEPT ![s] = @ + 1]
  /\ synthPc' = [synthPc EXCEPT ![s] = "read"]
  /\ UNCHANGED <<planVars, jobVars, synthCount, seen, rowVars, outVars, totalSets, faultVars>>

(* GetOutputsByPrefix, then the call to the model.                         *)
SynthRead(s) ==
  /\ synthPc[s] = "read"
  /\ outputs # {}
  /\ seen' = [seen EXCEPT ![s] = {o[1] : o \in outputs}]
  /\ synthPc' = [synthPc EXCEPT ![s] = "thread"]
  /\ UNCHANGED <<planVars, jobVars, synthCount, synthState, synthAttempt, rowVars,
                 outVars, totalSets, faultVars>>

(* No outputs at all, or the call to the model fails.                      *)
SynthFails(s) ==
  /\ synthPc[s] = "read"
  /\ synthPc' = [synthPc EXCEPT ![s] = "idle"]
  /\ synthState' = [synthState EXCEPT ![s] = AfterError(synthAttempt[s], JobMaxAttempts)]
  /\ UNCHANGED <<planVars, jobVars, synthCount, synthAttempt, seen, rowVars, outVars,
                 totalSets, faultVars>>

(* The step and output rows "synthesize", then SaveThreadMessages.         *)
SynthSave(s) ==
  /\ synthPc[s] = "thread"
  /\ threadRows' = threadRows + 1
  /\ synthPc' = [synthPc EXCEPT ![s] = "respond"]
  /\ UNCHANGED <<planVars, jobVars, synthCount, synthState, synthAttempt, seen,
                 rowVars, processJobs, respondJobs, totalSets, faultVars>>

SlipRespondThenRetry(s) ==
  /\ synthPc[s] = "respond"
  /\ respondJobs' = respondJobs + 1
  /\ synthPc' = [synthPc EXCEPT ![s] = "idle"]
  /\ synthState' = [synthState EXCEPT ![s] = AfterError(synthAttempt[s], JobMaxAttempts)]
  /\ UNCHANGED <<planVars, jobVars, synthCount, synthAttempt, seen,
                 rowVars, threadRows, processJobs, totalSets, faultVars>>

InsertRespond(s) ==
  /\ synthPc[s] = "respond"
  /\ respondJobs' = respondJobs + 1
  /\ synthPc' = [synthPc EXCEPT ![s] = "finish"]
  /\ UNCHANGED <<planVars, jobVars, synthCount, synthState, synthAttempt, seen,
                 rowVars, threadRows, processJobs, totalSets, faultVars>>

SynthFinish(s) ==
  /\ synthPc[s] = "finish"
  /\ synthPc' = [synthPc EXCEPT ![s] = "idle"]
  /\ synthState' = [synthState EXCEPT ![s] = "completed"]
  /\ UNCHANGED <<planVars, jobVars, synthCount, synthAttempt, seen, rowVars, outVars,
                 totalSets, faultVars>>

(* The attempt is lost: late when it has inserted the respond job.         *)
SynthFault(s) ==
  /\ faults < MaxFaults
  /\ synthState[s] = "running"
  /\ faults' = faults + 1
  /\ lateFaults' = lateFaults + (IF synthPc[s] = "finish" THEN 1 ELSE 0)
  /\ synthPc' = [synthPc EXCEPT ![s] = "idle"]
  /\ synthState' = [synthState EXCEPT ![s] = AfterError(synthAttempt[s], JobMaxAttempts)]
  /\ UNCHANGED <<planVars, jobVars, synthCount, synthAttempt, seen, rowVars, outVars, totalSets>>

-----------------------------------------------------------------------------
PlanWork == PlanStart \/ Decompose \/ DecomposeFails \/ InsertProcess
            \/ SetTotalTasks \/ InsertExecute \/ PlanFinish

ExecuteWork(j) ==
  \/ ExecuteStart(j) \/ TaskRetries(j) \/ UpdateStep(j) \/ SaveOutput(j)
  \/ IncrementCompletedTasks(j) \/ InsertSynthesize(j) \/ SkipAsDuplicate(j)
  \/ ExecuteFinish(j)

SynthWork(s) ==
  \/ SynthStart(s) \/ SynthRead(s) \/ SynthFails(s)
  \/ SynthSave(s) \/ InsertRespond(s) \/ SynthFinish(s)

Next ==
  \/ PlanWork
  \/ PlanFault
  \/ \E j \in Job : ExecuteWork(j) \/ StartFault(j) \/ ExecuteFault(j) \/ DiscardExecute(j)
  \/ \E s \in Synth : SynthWork(s) \/ SynthFault(s)

(* River fetches every available job and a running attempt goes on.        *)
Fairness ==
  /\ WF_vars(PlanWork)
  /\ \A j \in Job : WF_vars(ExecuteWork(j))
  /\ \A s \in Synth : WF_vars(SynthWork(s))

Spec == Init /\ [][Next]_vars /\ Fairness

-----------------------------------------------------------------------------
Inserted    == {j \in Job : jobState[j] # "none"}
(* The jobs whose present or last attempt has incremented completed_tasks. *)
Counted     == {j \in Job : jobPc[j] \in {"join", "finish"} \/ jobState[j] = "completed"}
CountedTask == {j[2] : j \in Counted}
Answers     == processJobs + respondJobs
Discarded   == \/ planState = "discarded"
               \/ \E j \in Job : jobState[j] = "discarded"
               \/ \E s \in Synth : synthState[s] = "discarded"

PlanPcs  == {"idle", "decompose", "bypass", "set_total", "insert", "finish"}
JobPcs   == {"idle", "llm", "save", "increment", "join", "finish"}
SynthPcs == {"idle", "read", "thread", "respond", "finish"}

(* Types; River's attempt counters stay within the attempts a job has.     *)
TypeOK ==
  /\ planState \in JobStates \ {"none"}
  /\ planAttempt \in 0 .. JobMaxAttempts
  /\ planPc \in PlanPcs
  /\ tasks \in 0 .. MaxTasks
  /\ next \in 1 .. MaxTasks + 1
  /\ total_tasks \in 0 .. MaxTasks
  /\ completed_tasks \in Nat
  /\ steps \in [Task -> SUBSET {"pending", "complete", "failed"}]
  /\ outputs \subseteq Task \X {"result", "error"}
  /\ jobState \in [Job -> JobStates]
  /\ jobAttempt \in [Job -> 0 .. ExecuteMaxAttempts]
  /\ jobPc \in [Job -> JobPcs]
  /\ failed \in [Job -> BOOLEAN]
  /\ synthCount \in 0 .. JobMaxAttempts
  /\ synthState \in [Synth -> JobStates]
  /\ synthAttempt \in [Synth -> 0 .. JobMaxAttempts]
  /\ synthPc \in [Synth -> SynthPcs]
  /\ seen \in [Synth -> SUBSET Task]
  /\ threadRows \in Nat /\ processJobs \in Nat /\ respondJobs \in Nat
  /\ totalSets \in 0 .. JobMaxAttempts
  /\ faults \in 0 .. MaxFaults
  /\ lateFaults \in 0 .. faults

(* The tasks of a message end in any order, some fail and some are tried   *)
(* again; unless an attempt is repeated after its last write,              *)
(*   - completed_tasks counts those that ended, each once: what makes the  *)
(*     comparison with total_tasks in maybeTriggerSynthesize a join;       *)
(*   - the step row of a task that was counted, which a retried attempt    *)
(*     finds there or not, and its output tell how the counted attempt     *)
(*     ended;                                                              *)
(*   - a synthesize job composes the answer from an output of every task.  *)
CountIsExact ==
  /\ completed_tasks = Cardinality(Counted)
  /\ Counted # {} => completed_tasks <= total_tasks

StepsTellOutcome ==
  \A j \in Counted :
    /\ steps[j[2]] \subseteq {IF failed[j] THEN "failed" ELSE "complete"}
    /\ <<j[2], IF failed[j] THEN "error" ELSE "result">> \in outputs

JoinSeesAll == \A s \in Synth : seen[s] # {} => seen[s] = 1 .. total_tasks

JoinIsExact == lateFaults = 0 => CountIsExact /\ StepsTellOutcome /\ JoinSeesAll

(* A user gets one answer; a second one, and a second copy of the exchange *)
(* in the thread history, each take an attempt that was lost.  Even when   *)
(* attempts are repeated after their last write, the counter passes        *)
(* through a value of total_tasks once: one synthesize job at most for     *)
(* each SetTotalTasks.                                                     *)
AnswersExplained ==
  /\ lateFaults = 0 => Answers <= 1
  /\ Answers <= 1 + faults
  /\ threadRows <= 1 + faults
  /\ synthCount <= totalSets

(* A message is answered in the end, unless River gave up on a job or an   *)
(* attempt was repeated after its last write.                              *)
AnsweredUnlessLapsed == <>(Answers > 0 \/ Discarded \/ lateFaults > 0)

(* Parallel coordination does what FanIn promises.                         *)
F == INSTANCE FanIn WITH
       plan     <- IF Inserted = {} THEN {} ELSE 1 .. total_tasks,
       finished <- CountedTask,
       joined   <- synthCount > 0,
       lapsed   <- lateFaults > 0
ImplementsFanIn == F!Spec
=============================================================================
