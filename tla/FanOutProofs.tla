---------------------------- MODULE FanOutProofs ----------------------------
(***************************************************************************)
(* The fan-out of a message, for any number of tasks and attempts: what    *)
(* the counter counts, how many answers there are, and that the jobs do    *)
(* what FanIn promises.                                                    *)
(*                                                                         *)
(* The argument has two layers.  Whatever is repeated, the counter comes   *)
(* to a value of total_tasks once for each SetTotalTasks, and a job's      *)
(* attempt that may still answer is paid for by the message or by a fault. *)
(* While no attempt is lost after its last write, one attempt of the plan  *)
(* owns all execute jobs, and each of them is counted once.                *)
(***************************************************************************)
EXTENDS FanOut, FiniteSetTheorems, TLAPS

One(b) == IF b THEN 1 ELSE 0

(* Jobs on their way to insert a synthesize job, and attempts that may     *)
(* still insert an answer, or save the exchange.                           *)
Joining    == {j \in Job : jobPc[j] = "join"}
MayPlan    == planState = "available" \/ planPc \in {"decompose", "bypass", "set_total"}
MayRespond == {s \in Synth : synthState[s] = "available" \/ synthPc[s] \in {"read", "thread", "respond"}}
MaySave    == {s \in Synth : synthState[s] = "available" \/ synthPc[s] \in {"read", "thread"}}

(* Where an attempt of each job is.                                        *)
PlanInv ==
  /\ planState = "running" <=> planPc # "idle"
  /\ planState = "available" => planAttempt < JobMaxAttempts
  /\ planPc # "idle" => planAttempt >= 1
  /\ planPc \in {"set_total", "insert"} => tasks \in Task
  /\ planPc = "set_total" => next = 1
  /\ planPc = "insert" => next <= tasks
  /\ totalSets <= planAttempt
  /\ planPc \in {"decompose", "bypass", "set_total"} => totalSets < planAttempt

JobInv ==
  \A j \in Job :
    /\ jobState[j] = "running" <=> jobPc[j] # "idle"
    /\ jobState[j] = "available" => jobAttempt[j] < ExecuteMaxAttempts
    /\ jobState[j] = "none" => jobAttempt[j] = 0
    /\ jobState[j] # "none" =>
         /\ j[1] <= planAttempt
         /\ planPc # "idle" /\ j[1] = planAttempt => planPc \in {"insert", "finish"}
         /\ planPc = "insert" /\ j[1] = planAttempt => j[2] < next

SynthInv ==
  \A s \in Synth :
    /\ synthState[s] = "running" <=> synthPc[s] # "idle"
    /\ synthState[s] = "available" => synthAttempt[s] < JobMaxAttempts
    /\ synthState[s] = "none" => synthAttempt[s] = 0
    /\ synthState[s] = "none" <=> s > synthCount
    /\ seen[s] # {} => s <= synthCount

(* The counter comes to total_tasks once for each SetTotalTasks.           *)
JoinInv ==
  /\ synthCount + Cardinality(Joining) <= totalSets
  /\ completed_tasks < total_tasks => synthCount + Cardinality(Joining) < totalSets

(* An answer that there is, or may be, is the message's first or a fault's.*)
Paid(given, may, plan, lost, joins) == given + may + plan <= 1 + lost + joins

AnswerInv ==
  /\ Paid(processJobs + respondJobs + totalSets, Cardinality(MayRespond), One(MayPlan),
          faults, synthCount)
  /\ Paid(threadRows + totalSets, Cardinality(MaySave), One(MayPlan), faults, synthCount)

(* One attempt of the plan has inserted what there is.                     *)
OnePlan ==
  /\ MayPlan \/ planState = "discarded" => Inserted = {} /\ processJobs = 0
  /\ planPc = "insert" =>
       /\ processJobs = 0 /\ tasks = total_tasks
       /\ \A j \in Job : j \in Inserted <=> j[1] = planAttempt /\ j[2] < next
  /\ planPc = "finish" \/ planState = "completed" =>
       \/ processJobs = 1 /\ Inserted = {}
       \/ /\ processJobs = 0
          /\ \A j \in Job : j \in Inserted <=> j[1] = planAttempt /\ j[2] <= total_tasks

(* Steps and outputs tell how the attempts ended that are about to be      *)
(* counted, or were.                                                       *)
Told ==
  /\ \A j \in Job :
       /\ jobPc[j] \in {"save", "increment"} \/ j \in Counted =>
            steps[j[2]] \subseteq {IF failed[j] THEN "failed" ELSE "complete"}
       /\ jobPc[j] = "increment" \/ j \in Counted =>
            <<j[2], IF failed[j] THEN "error" ELSE "result">> \in outputs
  /\ \A o \in outputs : \E j \in Inserted : o[1] = j[2]

(* The join is there when every task was counted.                          *)
JoinedOnce ==
  /\ completed_tasks = Cardinality(Counted)
  /\ respondJobs + Cardinality(MayRespond) <= synthCount
  /\ synthCount + Cardinality(Joining) <= 1
  /\ synthCount > 0 \/ Joining # {} =>
       Inserted # {} /\ \A t \in 1 .. total_tasks : <<planAttempt, t>> \in Counted

(* What holds until an attempt is lost after its last write.               *)
OnceInv == lateFaults = 0 => OnePlan /\ Told /\ JoinedOnce /\ JoinSeesAll

(* The inductive invariant.                                                *)
IInv == TypeOK /\ PlanInv /\ JobInv /\ SynthInv /\ JoinInv /\ AnswerInv /\ OnceInv
-----------------------------------------------------------------------------
(* Execute jobs are pairs of an attempt and a task, synthesize jobs are    *)
(* numbers, and there are finitely many of both.                           *)
LEMMA JobsAreFinite ==
  /\ IsFiniteSet(Job) /\ IsFiniteSet(Synth) /\ Synth \subseteq Nat
  /\ \A j \in Job : /\ j[1] \in Attempt /\ j[2] \in Task /\ j = <<j[1], j[2]>>
                    /\ j[1] \in Nat /\ j[2] \in Nat
<1> USE FanOutAssumption
<1>1. MaxTasks \in Nat /\ JobMaxAttempts \in Nat
  OBVIOUS
<1>2. 1 \in Int /\ MaxTasks \in Int /\ JobMaxAttempts \in Int
  BY <1>1
<1>3. IsFiniteSet(Task) /\ IsFiniteSet(Attempt) /\ IsFiniteSet(Synth)
  BY <1>2, FS_Interval DEF Task, Attempt, Synth
<1>4. IsFiniteSet(Job)
  BY <1>3, FS_Product DEF Job
<1>5. Synth \subseteq Nat
  BY <1>1 DEF Synth
<1>6. \A j \in Job : j[1] \in Attempt /\ j[2] \in Task /\ j = <<j[1], j[2]>>
  BY DEF Job
<1>7. Attempt \subseteq Nat /\ Task \subseteq Nat
  BY <1>1 DEF Attempt, Task
<1>8. QED
  BY <1>3, <1>4, <1>5, <1>6, <1>7

(* A finite set compared with one that has lost or gained an element.      *)
LEMMA Counting ==
  ASSUME NEW S, IsFiniteSet(S)
  PROVE  \A A, B \in SUBSET S :
           /\ Cardinality(A) \in Nat /\ Cardinality(B) \in Nat
           /\ B \subseteq A => Cardinality(B) <= Cardinality(A)
           /\ \A x \in S : B \subseteq A \cup {x} => Cardinality(B) <= Cardinality(A) + 1
           /\ \A x \in A : B \subseteq A \ {x} => Cardinality(B) + 1 <= Cardinality(A)
           /\ \A x \in S \ A : B = A \cup {x} => Cardinality(B) = Cardinality(A) + 1
<1> SUFFICES ASSUME NEW A \in SUBSET S, NEW B \in SUBSET S
             PROVE  /\ Cardinality(A) \in Nat /\ Cardinality(B) \in Nat
                    /\ B \subseteq A => Cardinality(B) <= Cardinality(A)
                    /\ \A x \in S : B \subseteq A \cup {x} => Cardinality(B) <= Cardinality(A) + 1
                    /\ \A x \in A : B \subseteq A \ {x} => Cardinality(B) + 1 <= Cardinality(A)
                    /\ \A x \in S \ A : B = A \cup {x} => Cardinality(B) = Cardinality(A) + 1
  OBVIOUS
<1>1. IsFiniteSet(A) /\ IsFiniteSet(B)
  BY FS_Subset
<1>2. Cardinality(A) \in Nat /\ Cardinality(B) \in Nat
  BY <1>1, FS_CardinalityType
<1>3. B \subseteq A => Cardinality(B) <= Cardinality(A)
  BY <1>1, FS_Subset
<1>4. ASSUME NEW x \in S, B \subseteq A \cup {x} PROVE Cardinality(B) <= Cardinality(A) + 1
  <2>1. IsFiniteSet(A \cup {x}) /\ Cardinality(A \cup {x}) = IF x \in A THEN Cardinality(A) ELSE Cardinality(A) + 1
    BY <1>1, FS_AddElement
  <2>2. Cardinality(B) <= Cardinality(A \cup {x})
    BY <2>1, <1>4, FS_Subset
  <2>3. QED
    BY <2>1, <2>2, <1>2
<1>5. ASSUME NEW x \in A, B \subseteq A \ {x} PROVE Cardinality(B) + 1 <= Cardinality(A)
  <2>1. IsFiniteSet(A \ {x}) /\ Cardinality(A \ {x}) = Cardinality(A) - 1
    BY <1>1, FS_RemoveElement
  <2>2. Cardinality(B) <= Cardinality(A \ {x})
    BY <2>1, <1>5, FS_Subset
  <2>3. QED
    BY <2>1, <2>2, <1>2
<1>6. ASSUME NEW x \in S \ A, B = A \cup {x} PROVE Cardinality(B) = Cardinality(A) + 1
  BY <1>1, <1>6, FS_AddElement
<1>7. QED
  BY <1>2, <1>3, <1>4, <1>5, <1>6

(* The initial states have the invariant.                                  *)
LEMMA InitIInv == Init => IInv
<1> SUFFICES ASSUME Init PROVE IInv
  OBVIOUS
<1> USE FanOutAssumption DEF Init
<1>1. TypeOK
  BY DEF TypeOK, JobStates, PlanPcs, JobPcs, SynthPcs, Task
<1>2. PlanInv /\ JobInv
  BY DEF PlanInv, JobInv
<1>3. SynthInv
  BY JobsAreFinite DEF SynthInv, Synth
<1>4. Joining = {} /\ MayRespond = {} /\ MaySave = {} /\ Counted = {} /\ Inserted = {}
  BY DEF Joining, MayRespond, MaySave, Counted, Inserted
<1>5. Cardinality({}) = 0
  BY FS_EmptySet
<1>6. JoinInv
  BY <1>4, <1>5 DEF JoinInv
<1>7. AnswerInv
  <2>1. MayPlan
    BY DEF MayPlan
  <2>2. QED
    BY <1>4, <1>5, <2>1 DEF AnswerInv, One, Paid
<1>8. OnePlan
  BY <1>4 DEF OnePlan
<1>9. Told
  BY <1>4 DEF Told
<1>10. JoinedOnce /\ JoinSeesAll
  BY <1>4, <1>5 DEF JoinedOnce, JoinSeesAll
<1>11. QED
  BY <1>1, <1>2, <1>3, <1>6, <1>7, <1>8, <1>9, <1>10 DEF IInv, OnceInv
-----------------------------------------------------------------------------
(* Types, and where an attempt of each job is: the two are inductive with  *)
(* JoinInv, which bounds the number of synthesize jobs.                    *)
Basics == TypeOK /\ PlanInv /\ JobInv /\ SynthInv

(* Lemma: every step keeps the types and the places of the attempts.       *)
LEMMA StepBasics == Basics /\ JoinInv /\ [Next]_vars => Basics'
<1> SUFFICES ASSUME TypeOK, PlanInv, JobInv, SynthInv, JoinInv, [Next]_vars PROVE Basics'
  BY DEF Basics
<1> USE FanOutAssumption DEF Basics, JobStates, PlanPcs, JobPcs, SynthPcs, AfterError,
      planVars, jobVars, synthVars, rowVars, outVars, faultVars
<1>1. ASSUME PlanStart PROVE Basics'
  <2>1. TypeOK'
    BY <1>1 DEF PlanStart, PlanInv, TypeOK
  <2>2. PlanInv'
    BY <1>1 DEF PlanStart, PlanInv, TypeOK
  <2>3. JobInv'
    BY <1>1, JobsAreFinite DEF PlanStart, JobInv, PlanInv, TypeOK
  <2>4. SynthInv'
    BY <1>1 DEF PlanStart, SynthInv
  <2>5. QED
    BY <2>1, <2>2, <2>3, <2>4
<1>2. ASSUME Decompose PROVE Basics'
  <2>1. TypeOK'
    <3>1. planPc' \in PlanPcs /\ tasks' \in 0 .. MaxTasks /\ next' \in 1 .. MaxTasks + 1
      BY <1>2 DEF Decompose, Task
    <3>2. QED
      BY <1>2, <3>1 DEF Decompose, TypeOK
  <2>2. PlanInv'
    BY <1>2 DEF Decompose, PlanInv, TypeOK
  <2>3. JobInv'
    BY <1>2, JobsAreFinite DEF Decompose, JobInv, PlanInv, TypeOK
  <2>4. SynthInv'
    BY <1>2 DEF Decompose, SynthInv
  <2>5. QED
    BY <2>1, <2>2, <2>3, <2>4
<1>3. ASSUME DecomposeFails PROVE Basics'
  <2>1. TypeOK'
    BY <1>3 DEF DecomposeFails, TypeOK
  <2>2. PlanInv'
    BY <1>3 DEF DecomposeFails, PlanInv, TypeOK
  <2>3. JobInv'
    BY <1>3, JobsAreFinite DEF DecomposeFails, JobInv, PlanInv, TypeOK
  <2>4. SynthInv'
    BY <1>3 DEF DecomposeFails, SynthInv
  <2>5. QED
    BY <2>1, <2>2, <2>3, <2>4
<1>4. ASSUME InsertProcess PROVE Basics'
  <2>1. TypeOK'
    BY <1>4 DEF InsertProcess, TypeOK
  <2>2. PlanInv'
    BY <1>4 DEF InsertProcess, PlanInv, TypeOK
  <2>3. JobInv'
    BY <1>4, JobsAreFinite DEF InsertProcess, JobInv, PlanInv, TypeOK
  <2>4. SynthInv'
    BY <1>4 DEF InsertProcess, SynthInv
  <2>5. QED
    BY <2>1, <2>2, <2>3, <2>4
<1>5. ASSUME SetTotalTasks PROVE Basics'
  <2>1. TypeOK'
    <3>1. tasks \in 0 .. MaxTasks /\ totalSets' \in 0 .. JobMaxAttempts
      BY <1>5 DEF SetTotalTasks, PlanInv, TypeOK
    <3>2. QED
      BY <1>5, <3>1 DEF SetTotalTasks, TypeOK
  <2>2. PlanInv'
    <3>1. totalSets \in Nat /\ planAttempt \in Nat /\ tasks \in Nat /\ tasks # 0
      BY <1>5 DEF SetTotalTasks, PlanInv, TypeOK, Task
    <3>2. QED
      BY <1>5, <3>1 DEF SetTotalTasks, PlanInv
  <2>3. JobInv'
    BY <1>5, JobsAreFinite DEF SetTotalTasks, JobInv, PlanInv, TypeOK
  <2>4. SynthInv'
    BY <1>5 DEF SetTotalTasks, SynthInv
  <2>5. QED
    BY <2>1, <2>2, <2>3, <2>4
<1>6. ASSUME InsertExecute PROVE Basics'
  <2>1. TypeOK'
    <3>1. tasks \in Nat /\ next \in Nat /\ next <= tasks /\ tasks <= MaxTasks
      BY <1>6 DEF InsertExecute, PlanInv, TypeOK
    <3>2. next' \in 1 .. MaxTasks + 1
      BY <1>6, <3>1 DEF InsertExecute
    <3>3. jobState' \in [Job -> JobStates]
      BY <1>6 DEF InsertExecute, TypeOK
    <3>4. QED
      BY <1>6, <3>2, <3>3 DEF InsertExecute, TypeOK
  <2>2. PlanInv'
    BY <1>6 DEF InsertExecute, PlanInv, TypeOK
  <2>3. JobInv'
    BY <1>6, JobsAreFinite DEF InsertExecute, JobInv, PlanInv, TypeOK
  <2>4. SynthInv'
    BY <1>6 DEF InsertExecute, SynthInv
  <2>5. QED
    BY <2>1, <2>2, <2>3, <2>4
<1>7. ASSUME PlanFinish PROVE Basics'
  <2>1. TypeOK'
    BY <1>7 DEF PlanFinish, TypeOK
  <2>2. PlanInv'
    BY <1>7 DEF PlanFinish, PlanInv, TypeOK
  <2>3. JobInv'
    BY <1>7, JobsAreFinite DEF PlanFinish, JobInv, PlanInv, TypeOK
  <2>4. SynthInv'
    BY <1>7 DEF PlanFinish, SynthInv
  <2>5. QED
    BY <2>1, <2>2, <2>3, <2>4
<1>8. ASSUME PlanFault PROVE Basics'
  <2>1. TypeOK'
    BY <1>8 DEF PlanFault, TypeOK
  <2>2. PlanInv'
    BY <1>8 DEF PlanFault, PlanInv, TypeOK
  <2>3. JobInv'
    BY <1>8, JobsAreFinite DEF PlanFault, JobInv, PlanInv, TypeOK
  <2>4. SynthInv'
    BY <1>8 DEF PlanFault, SynthInv
  <2>5. QED
    BY <2>1, <2>2, <2>3, <2>4
<1>9. ASSUME NEW j \in Job, ExecuteStart(j) PROVE Basics'
  <2>1. TypeOK'
    <3>1. jobAttempt[j] + 1 \in 0 .. ExecuteMaxAttempts
      BY <1>9 DEF ExecuteStart, JobInv, TypeOK
    <3>2. jobAttempt' \in [Job -> 0 .. ExecuteMaxAttempts]
      BY <1>9, <3>1 DEF ExecuteStart, TypeOK
    <3>3. steps' \in [Task -> SUBSET {"pending", "complete", "failed"}]
      BY <1>9, JobsAreFinite DEF ExecuteStart, TypeOK
    <3>4. QED
      BY <1>9, <3>2, <3>3 DEF ExecuteStart, TypeOK
  <2>2. PlanInv'
    BY <1>9 DEF ExecuteStart, PlanInv
  <2>3. JobInv'
    BY <1>9 DEF ExecuteStart, JobInv, TypeOK
  <2>4. SynthInv'
    BY <1>9 DEF ExecuteStart, SynthInv
  <2>5. QED
    BY <2>1, <2>2, <2>3, <2>4
<1>10. ASSUME NEW j \in Job, StartFault(j) PROVE Basics'
  <2>1. TypeOK'
    <3>1. jobAttempt[j] + 1 \in 0 .. ExecuteMaxAttempts
      BY <1>10 DEF StartFault, JobInv, TypeOK
    <3>2. jobAttempt' \in [Job -> 0 .. ExecuteMaxAttempts]
      BY <1>10, <3>1 DEF StartFault, TypeOK
    <3>3. jobState' \in [Job -> JobStates]
      BY <1>10, <3>1 DEF StartFault, TypeOK
    <3>4. QED
      BY <1>10, <3>2, <3>3 DEF StartFault, TypeOK
  <2>2. PlanInv'
    BY <1>10 DEF StartFault, PlanInv
  <2>3. JobInv'
    BY <1>10 DEF StartFault, JobInv, TypeOK
  <2>4. SynthInv'
    BY <1>10 DEF StartFault, SynthInv
  <2>5. QED
    BY <2>1, <2>2, <2>3, <2>4
<1>11. ASSUME NEW j \in Job, TaskRetries(j) PROVE Basics'
  <2>1. TypeOK'
    BY <1>11 DEF TaskRetries, TypeOK
  <2>2. PlanInv'
    BY <1>11 DEF TaskRetries, PlanInv
  <2>3. JobInv'
    BY <1>11 DEF TaskRetries, JobInv, TypeOK
  <2>4. SynthInv'
    BY <1>11 DEF TaskRetries, SynthInv
  <2>5. QED
    BY <2>1, <2>2, <2>3, <2>4
<1>12. ASSUME NEW j \in Job, UpdateStep(j) PROVE Basics'
  <2>1. TypeOK'
    <3>1. PICK isErr \in BOOLEAN :
            /\ failed' = [failed EXCEPT ![j] = isErr]
            /\ steps' = [steps EXCEPT ![j[2]] =
                 IF @ = {} THEN {} ELSE {IF isErr THEN "failed" ELSE "complete"}]
      BY <1>12 DEF UpdateStep
    <3>2. failed' \in [Job -> BOOLEAN]
      BY <3>1 DEF TypeOK
    <3>3. steps' \in [Task -> SUBSET {"pending", "complete", "failed"}]
      BY <3>1, JobsAreFinite DEF TypeOK
    <3>4. jobPc' \in [Job -> JobPcs]
      BY <1>12 DEF UpdateStep, TypeOK
    <3>5. QED
      BY <1>12, <3>2, <3>3, <3>4 DEF UpdateStep, TypeOK
  <2>2. PlanInv'
    BY <1>12 DEF UpdateStep, PlanInv
  <2>3. JobInv'
    BY <1>12 DEF UpdateStep, JobInv, TypeOK
  <2>4. SynthInv'
    BY <1>12 DEF UpdateStep, SynthInv
  <2>5. QED
    BY <2>1, <2>2, <2>3, <2>4
<1>13. ASSUME NEW j \in Job, SaveOutput(j) PROVE Basics'
  <2>1. TypeOK'
    <3>1. <<j[2], IF failed[j] THEN "error" ELSE "result">> \in Task \X {"result", "error"}
      BY JobsAreFinite
    <3>2. QED
      BY <1>13, <3>1 DEF SaveOutput, TypeOK
  <2>2. PlanInv'
    BY <1>13 DEF SaveOutput, PlanInv
  <2>3. JobInv'
    BY <1>13 DEF SaveOutput, JobInv, TypeOK
  <2>4. SynthInv'
    BY <1>13 DEF SaveOutput, SynthInv
  <2>5. QED
    BY <2>1, <2>2, <2>3, <2>4
<1>14. ASSUME NEW j \in Job, IncrementCompletedTasks(j) PROVE Basics'
  <2>1. TypeOK'
    BY <1>14 DEF IncrementCompletedTasks, TypeOK
  <2>2. PlanInv'
    BY <1>14 DEF IncrementCompletedTasks, PlanInv
  <2>3. JobInv'
    BY <1>14 DEF IncrementCompletedTasks, JobInv, TypeOK
  <2>4. SynthInv'
    BY <1>14 DEF IncrementCompletedTasks, SynthInv
  <2>5. QED
    BY <2>1, <2>2, <2>3, <2>4
<1>15. ASSUME NEW j \in Job, InsertSynthesize(j) PROVE Basics'
  <2>1. TypeOK'
    <3>1. synthCount + 1 \in 0 .. JobMaxAttempts
      <4>1. j \in Joining /\ Joining \in SUBSET Job
        BY <1>15 DEF InsertSynthesize, Joining
      <4>2. Cardinality(Joining) \in Nat /\ Cardinality(Joining) # 0
        BY <4>1, JobsAreFinite, FS_Subset, FS_CardinalityType, FS_EmptySet
      <4>3. synthCount \in Nat /\ totalSets \in Nat /\ planAttempt \in Nat /\ planAttempt <= JobMaxAttempts
        BY DEF TypeOK
      <4>4. synthCount + Cardinality(Joining) <= totalSets /\ totalSets <= planAttempt
        BY DEF JoinInv, PlanInv
      <4>5. QED
        BY <4>2, <4>3, <4>4
    <3>2. QED
      BY <1>15, <3>1 DEF InsertSynthesize, TypeOK
  <2>2. PlanInv'
    BY <1>15 DEF InsertSynthesize, PlanInv
  <2>3. JobInv'
    BY <1>15 DEF InsertSynthesize, JobInv, TypeOK
  <2>4. SynthInv'
    <3>1. synthCount \in Nat
      BY DEF TypeOK
    <3>2. SUFFICES ASSUME NEW s \in Synth PROVE SynthInv!(s)'
      BY DEF SynthInv
    <3>3. s \in Nat /\ JobMaxAttempts > 0
      BY JobsAreFinite
    <3>4. CASE s = synthCount + 1
      <4>1. synthState[s] = "none" /\ synthAttempt[s] = 0 /\ synthPc[s] = "idle" /\ seen[s] = {}
        BY <3>1, <3>3, <3>4 DEF SynthInv, TypeOK
      <4>2. synthState'[s] = "available"
        BY <1>15, <3>4 DEF InsertSynthesize, TypeOK
      <4>3. QED
        BY <1>15, <3>1, <3>3, <3>4, <4>1, <4>2 DEF InsertSynthesize
    <3>5. CASE s # synthCount + 1
      <4>1. synthState'[s] = synthState[s] /\ (s > synthCount' <=> s > synthCount)
        BY <1>15, <3>1, <3>3, <3>5 DEF InsertSynthesize, TypeOK
      <4>2. QED
        BY <1>15, <3>1, <3>3, <4>1 DEF InsertSynthesize, SynthInv
    <3>6. QED
      BY <3>4, <3>5
  <2>5. QED
    BY <2>1, <2>2, <2>3, <2>4
<1>16. ASSUME NEW j \in Job, SkipAsDuplicate(j) PROVE Basics'
  <2>1. TypeOK'
    BY <1>16 DEF SkipAsDuplicate, TypeOK
  <2>2. PlanInv'
    BY <1>16 DEF SkipAsDuplicate, PlanInv
  <2>3. JobInv'
    BY <1>16 DEF SkipAsDuplicate, JobInv, TypeOK
  <2>4. SynthInv'
    BY <1>16 DEF SkipAsDuplicate, SynthInv
  <2>5. QED
    BY <2>1, <2>2, <2>3, <2>4
<1>17. ASSUME NEW j \in Job, ExecuteFinish(j) PROVE Basics'
  <2>1. TypeOK'
    BY <1>17 DEF ExecuteFinish, TypeOK
  <2>2. PlanInv'
    BY <1>17 DEF ExecuteFinish, PlanInv
  <2>3. JobInv'
    BY <1>17 DEF ExecuteFinish, JobInv, TypeOK
  <2>4. SynthInv'
    BY <1>17 DEF ExecuteFinish, SynthInv
  <2>5. QED
    BY <2>1, <2>2, <2>3, <2>4
<1>18. ASSUME NEW j \in Job, ExecuteFault(j) PROVE Basics'
  <2>1. TypeOK'
    BY <1>18 DEF ExecuteFault, TypeOK
  <2>2. PlanInv'
    BY <1>18 DEF ExecuteFault, PlanInv
  <2>3. JobInv'
    BY <1>18 DEF ExecuteFault, JobInv, TypeOK
  <2>4. SynthInv'
    BY <1>18 DEF ExecuteFault, SynthInv
  <2>5. QED
    BY <2>1, <2>2, <2>3, <2>4
<1>19. ASSUME NEW j \in Job, DiscardExecute(j) PROVE Basics'
  <2>1. TypeOK'
    BY <1>19 DEF DiscardExecute, TypeOK
  <2>2. PlanInv'
    BY <1>19 DEF DiscardExecute, PlanInv
  <2>3. JobInv'
    BY <1>19 DEF DiscardExecute, JobInv, TypeOK
  <2>4. SynthInv'
    BY <1>19 DEF DiscardExecute, SynthInv
  <2>5. QED
    BY <2>1, <2>2, <2>3, <2>4
<1>20. ASSUME NEW s \in Synth, SynthStart(s) PROVE Basics'
  <2>1. TypeOK'
    BY <1>20 DEF SynthStart, SynthInv, TypeOK
  <2>2. PlanInv' /\ JobInv'
    BY <1>20 DEF SynthStart, PlanInv, JobInv
  <2>3. SynthInv'
    BY <1>20 DEF SynthStart, SynthInv, TypeOK
  <2>4. QED
    BY <2>1, <2>2, <2>3
<1>21. ASSUME NEW s \in Synth, SynthRead(s) PROVE Basics'
  <2>1. TypeOK'
    BY <1>21 DEF SynthRead, TypeOK
  <2>2. PlanInv' /\ JobInv'
    BY <1>21 DEF SynthRead, PlanInv, JobInv
  <2>3. SynthInv'
    <3>1. synthCount \in Nat
      BY DEF TypeOK
    <3>2. s <= synthCount
      BY <1>21, <3>1, JobsAreFinite DEF SynthRead, SynthInv
    <3>3. QED
      BY <1>21, <3>2 DEF SynthRead, SynthInv, TypeOK
  <2>4. QED
    BY <2>1, <2>2, <2>3
<1>22. ASSUME NEW s \in Synth, SynthFails(s) PROVE Basics'
  <2>1. TypeOK'
    BY <1>22 DEF SynthFails, TypeOK
  <2>2. PlanInv' /\ JobInv'
    BY <1>22 DEF SynthFails, PlanInv, JobInv
  <2>3. SynthInv'
    BY <1>22 DEF SynthFails, SynthInv, TypeOK
  <2>4. QED
    BY <2>1, <2>2, <2>3
<1>23. ASSUME NEW s \in Synth, SynthSave(s) PROVE Basics'
  <2>1. TypeOK'
    BY <1>23 DEF SynthSave, TypeOK
  <2>2. PlanInv' /\ JobInv'
    BY <1>23 DEF SynthSave, PlanInv, JobInv
  <2>3. SynthInv'
    BY <1>23 DEF SynthSave, SynthInv, TypeOK
  <2>4. QED
    BY <2>1, <2>2, <2>3
<1>24. ASSUME NEW s \in Synth, InsertRespond(s) PROVE Basics'
  <2>1. TypeOK'
    BY <1>24 DEF InsertRespond, TypeOK
  <2>2. PlanInv' /\ JobInv'
    BY <1>24 DEF InsertRespond, PlanInv, JobInv
  <2>3. SynthInv'
    BY <1>24 DEF InsertRespond, SynthInv, TypeOK
  <2>4. QED
    BY <2>1, <2>2, <2>3
<1>25. ASSUME NEW s \in Synth, SynthFinish(s) PROVE Basics'
  <2>1. TypeOK'
    BY <1>25 DEF SynthFinish, TypeOK
  <2>2. PlanInv' /\ JobInv'
    BY <1>25 DEF SynthFinish, PlanInv, JobInv
  <2>3. SynthInv'
    BY <1>25 DEF SynthFinish, SynthInv, TypeOK
  <2>4. QED
    BY <2>1, <2>2, <2>3
<1>26. ASSUME NEW s \in Synth, SynthFault(s) PROVE Basics'
  <2>1. TypeOK'
    BY <1>26 DEF SynthFault, TypeOK
  <2>2. PlanInv' /\ JobInv'
    BY <1>26 DEF SynthFault, PlanInv, JobInv
  <2>3. SynthInv'
    BY <1>26 DEF SynthFault, SynthInv, TypeOK
  <2>4. QED
    BY <2>1, <2>2, <2>3
<1>27. CASE UNCHANGED vars
  BY <1>27 DEF vars, TypeOK, PlanInv, JobInv, SynthInv
<1>28. QED
  BY <1>1, <1>2, <1>3, <1>4, <1>5, <1>6, <1>7, <1>8, <1>9, <1>10, <1>11, <1>12, <1>13,
     <1>14, <1>15, <1>16, <1>17, <1>18, <1>19, <1>20, <1>21, <1>22, <1>23, <1>24, <1>25,
     <1>26, <1>27 DEF Next, PlanWork, ExecuteWork, SynthWork
-----------------------------------------------------------------------------
(* The counter comes to total_tasks once for each SetTotalTasks.  The      *)
(* statement that counts also compares, so that only the job whose         *)
(* increment makes the two equal joins; after it they are equal, or the    *)
(* counter is ahead, until the next SetTotalTasks.                         *)
LEMMA StepJoin == Basics /\ JoinInv /\ [Next]_vars => JoinInv'
<1> SUFFICES ASSUME Basics, JoinInv, [Next]_vars PROVE JoinInv'
  OBVIOUS
<1> TypeOK /\ PlanInv /\ JobInv /\ SynthInv
  BY DEF Basics
<1> USE FanOutAssumption DEF planVars, jobVars, synthVars, rowVars, outVars, faultVars
<1>1. Joining \in SUBSET Job /\ Joining' \in SUBSET Job
  BY DEF Joining
<1>2. Cardinality(Joining) \in Nat /\ Cardinality(Joining') \in Nat
  BY <1>1, JobsAreFinite, Counting
<1>3. /\ synthCount \in Nat /\ totalSets \in Nat
      /\ total_tasks \in Nat /\ completed_tasks \in Nat
  BY DEF TypeOK
<1>4. ASSUME Joining' \subseteq Joining,
             UNCHANGED <<synthCount, total_tasks, completed_tasks, totalSets>>
      PROVE  JoinInv'
  <2>1. Cardinality(Joining') <= Cardinality(Joining)
    BY <1>1, <1>4, JobsAreFinite, Counting
  <2>2. QED
    BY <1>2, <1>3, <1>4, <2>1 DEF JoinInv
<1>5. CASE SetTotalTasks
  <2>1. Joining' = Joining
    BY <1>5 DEF SetTotalTasks, Joining
  <2>2. synthCount' = synthCount /\ totalSets' = totalSets + 1
    BY <1>5 DEF SetTotalTasks
  <2>3. QED
    BY <1>2, <1>3, <2>1, <2>2 DEF JoinInv
<1>6. CASE \/ PlanStart \/ Decompose \/ DecomposeFails \/ InsertProcess \/ InsertExecute
           \/ PlanFinish \/ PlanFault
  <2>1. UNCHANGED <<jobPc, synthCount, total_tasks, completed_tasks, totalSets>>
    BY <1>6 DEF PlanStart, Decompose, DecomposeFails, InsertProcess, InsertExecute,
         PlanFinish, PlanFault
  <2>2. QED
    BY <1>4, <2>1 DEF Joining
<1>7. ASSUME NEW j \in Job, IncrementCompletedTasks(j) PROVE JoinInv'
  <2>1. /\ completed_tasks' = completed_tasks + 1
        /\ UNCHANGED <<synthCount, total_tasks, totalSets>>
    BY <1>7 DEF IncrementCompletedTasks
  <2>2. CASE completed_tasks + 1 = total_tasks
    <3>1. Joining' \subseteq Joining \cup {j}
      BY <1>7, <2>2 DEF IncrementCompletedTasks, Joining, TypeOK
    <3>2. Cardinality(Joining') <= Cardinality(Joining) + 1
      BY <1>1, <3>1, JobsAreFinite, Counting
    <3>3. synthCount + Cardinality(Joining) < totalSets
      BY <1>3, <2>2 DEF JoinInv
    <3>4. QED
      BY <1>2, <1>3, <2>1, <2>2, <3>2, <3>3 DEF JoinInv
  <2>3. CASE completed_tasks + 1 # total_tasks
    <3>1. Joining' \subseteq Joining
      BY <1>7, <2>3 DEF IncrementCompletedTasks, Joining, TypeOK
    <3>2. Cardinality(Joining') <= Cardinality(Joining)
      BY <1>1, <3>1, JobsAreFinite, Counting
    <3>3. completed_tasks' < total_tasks' => completed_tasks < total_tasks
      BY <1>3, <2>1, <2>3
    <3>4. QED
      BY <1>2, <1>3, <2>1, <3>2, <3>3 DEF JoinInv
  <2>4. QED
    BY <2>2, <2>3
<1>8. ASSUME NEW j \in Job, InsertSynthesize(j) PROVE JoinInv'
  <2>1. /\ synthCount' = synthCount + 1
        /\ UNCHANGED <<total_tasks, completed_tasks, totalSets>>
    BY <1>8 DEF InsertSynthesize
  <2>2. j \in Joining /\ Joining' \subseteq Joining \ {j}
    BY <1>8 DEF InsertSynthesize, Joining, TypeOK
  <2>3. Cardinality(Joining') + 1 <= Cardinality(Joining)
    BY <1>1, <2>2, JobsAreFinite, Counting
  <2>4. QED
    BY <1>2, <1>3, <2>1, <2>3 DEF JoinInv
<1>9. ASSUME NEW j \in Job,
             \/ ExecuteStart(j) \/ StartFault(j) \/ TaskRetries(j) \/ UpdateStep(j)
             \/ SaveOutput(j) \/ SkipAsDuplicate(j) \/ ExecuteFinish(j) \/ ExecuteFault(j)
             \/ DiscardExecute(j)
      PROVE  JoinInv'
  <2>1. UNCHANGED <<synthCount, total_tasks, completed_tasks, totalSets>>
    BY <1>9 DEF ExecuteStart, StartFault, TaskRetries, UpdateStep, SaveOutput,
         SkipAsDuplicate, ExecuteFinish, ExecuteFault, DiscardExecute
  <2>2. \/ jobPc' = jobPc
        \/ \E pc \in JobPcs \ {"join"} : jobPc' = [jobPc EXCEPT ![j] = pc]
    BY <1>9 DEF ExecuteStart, StartFault, TaskRetries, UpdateStep, SaveOutput,
         SkipAsDuplicate, ExecuteFinish, ExecuteFault, DiscardExecute, JobPcs
  <2>3. Joining' \subseteq Joining
    BY <2>2 DEF Joining, TypeOK
  <2>4. QED
    BY <1>4, <2>1, <2>3
<1>10. ASSUME NEW s \in Synth, SynthWork(s) \/ SynthFault(s) PROVE JoinInv'
  <2>1. UNCHANGED <<jobPc, synthCount, total_tasks, completed_tasks, totalSets>>
    BY <1>10 DEF SynthWork, SynthStart, SynthRead, SynthFails, SynthSave, InsertRespond,
         SynthFinish, SynthFault
  <2>2. QED
    BY <1>4, <2>1 DEF Joining
<1>11. CASE UNCHANGED vars
  BY <1>4, <1>11 DEF vars, Joining
<1>12. QED
  BY <1>5, <1>6, <1>7, <1>8, <1>9, <1>10, <1>11 DEF Next, PlanWork, ExecuteWork
-----------------------------------------------------------------------------
(* Arithmetic the provers need to be reminded of.                          *)
LEMMA Sums ==
  /\ \A x, y \in Nat : x + y \in Nat
  /\ \A x, y \in Nat : x = y \/ x + 1 <= y \/ y = x + 1 => x <= y
OBVIOUS

(* What was paid for still is when fewer attempts may answer.              *)
LEMMA StillPaid ==
  \A a, n, p, f, c, n1, p1, f1 \in Nat :
    Paid(a, n, p, f, c) /\ n1 <= n /\ p1 <= p /\ f <= f1 => Paid(a, n1, p1, f1, c)
BY DEF Paid

(* A fault pays for one more synthesize attempt,                           *)
LEMMA PaidByFault ==
  \A a, n, p, f, c, n1, p1, f1 \in Nat :
    Paid(a, n, p, f, c) /\ n1 <= n + 1 /\ p1 <= p /\ f1 = f + 1 => Paid(a, n1, p1, f1, c)
BY DEF Paid

(* or for one more plan attempt.                                           *)
LEMMA PaidByPlanFault ==
  \A a, n, p, f, c, p1, f1 \in Nat :
    Paid(a, n, p, f, c) /\ p1 <= 1 /\ f1 = f + 1 => Paid(a, n, p1, f1, c)
BY DEF Paid

(* The SetTotalTasks pays for the synthesize job,                          *)
LEMMA PaidByTotal ==
  \A a, n, p, f, c, n1, c1 \in Nat :
    Paid(a, n, p, f, c) /\ n1 <= n + 1 /\ c1 = c + 1 => Paid(a, n1, p, f, c1)
BY DEF Paid

(* the synthesize attempt for what it inserts,                             *)
LEMMA PaidBySynthesize ==
  \A a, n, p, f, c, n1, a1 \in Nat :
    Paid(a, n, p, f, c) /\ n1 + 1 <= n /\ a1 = a + 1 => Paid(a1, n1, p, f, c)
BY DEF Paid

(* and the plan attempt for the process job or the SetTotalTasks.          *)
LEMMA PaidByPlan ==
  \A a, n, f, c, a1 \in Nat :
    Paid(a, n, 1, f, c) /\ a1 = a + 1 => Paid(a1, n, 0, f, c)
BY DEF Paid

-----------------------------------------------------------------------------
(* Answers, and copies of the exchange in the thread, are paid for.  The   *)
(* message pays for one: the plan attempt that may still answer hands it   *)
(* to a process job or to a SetTotalTasks, of which one synthesize job at  *)
(* most is made; a fault pays for the attempt that follows it.             *)
LEMMA StepAnswer == Basics /\ JoinInv /\ AnswerInv /\ [Next]_vars => AnswerInv'
<1> SUFFICES ASSUME Basics, JoinInv, AnswerInv, [Next]_vars PROVE AnswerInv'
  OBVIOUS
<1> TypeOK /\ PlanInv /\ JobInv /\ SynthInv
  BY DEF Basics
<1> USE FanOutAssumption DEF planVars, jobVars, synthVars, rowVars, outVars, faultVars,
      AfterError
<1> DEFINE A  == processJobs + respondJobs + totalSets
           B  == threadRows + totalSets
           R  == Cardinality(MayRespond)
           S  == Cardinality(MaySave)
           P  == One(MayPlan)
<1>1. /\ MayRespond \in SUBSET Synth /\ MayRespond' \in SUBSET Synth
      /\ MaySave \in SUBSET Synth /\ MaySave' \in SUBSET Synth
  BY DEF MayRespond, MaySave
<1>2. R \in Nat /\ R' \in Nat /\ S \in Nat /\ S' \in Nat
  BY <1>1, JobsAreFinite, Counting
<1>n. P \in Nat /\ P' \in Nat
  BY DEF One
<1>3. /\ P' <= 1
      /\ MayPlan => P = 1
      /\ ~ MayPlan' => P' = 0
  BY DEF One
<1>4. /\ synthCount \in Nat /\ totalSets \in Nat /\ faults \in Nat
      /\ processJobs \in Nat /\ respondJobs \in Nat /\ threadRows \in Nat
      /\ synthCount' \in Nat /\ faults' \in Nat
      /\ A \in Nat /\ B \in Nat /\ A' \in Nat /\ B' \in Nat
  <2>1. TypeOK'
    BY StepBasics DEF Basics
  <2>2. /\ synthCount \in Nat /\ totalSets \in Nat /\ faults \in Nat
        /\ processJobs \in Nat /\ respondJobs \in Nat /\ threadRows \in Nat
    BY DEF TypeOK
  <2>3. /\ synthCount' \in Nat /\ totalSets' \in Nat /\ faults' \in Nat
        /\ processJobs' \in Nat /\ respondJobs' \in Nat /\ threadRows' \in Nat
    BY <2>1 DEF TypeOK
  <2>4. A \in Nat /\ B \in Nat
    BY <2>2
  <2>5. A' \in Nat /\ B' \in Nat
    BY <2>3, Sums
  <2>6. QED
    BY <2>2, <2>3, <2>4, <2>5
<1>5. Paid(A, R, P, faults, synthCount) /\ Paid(B, S, P, faults, synthCount)
  BY DEF AnswerInv
<1>6. /\ Paid(A', R', P', faults', synthCount')
      /\ Paid(B', S', P', faults', synthCount')
      => AnswerInv'
  BY DEF AnswerInv
<1> HIDE DEF A, B, R, S, P
(* Nobody may answer who could not before.                                 *)
<1>7. ASSUME MayRespond' \subseteq MayRespond, MaySave' \subseteq MaySave,
             MayPlan' => MayPlan, UNCHANGED <<A, B, synthCount>>,
             faults' = faults \/ faults' = faults + 1
      PROVE  AnswerInv'
  <2>1. R' <= R /\ S' <= S
    BY <1>1, <1>7, JobsAreFinite, Counting DEF R, S
  <2>2. P' <= P /\ faults <= faults'
    BY <1>n, <1>3, <1>4, <1>7
  <2>3. Paid(A', R', P', faults', synthCount')
    BY <1>2, <1>n, <1>4, <1>5, <1>7, <2>1, <2>2, StillPaid
  <2>4. Paid(B', S', P', faults', synthCount')
    BY <1>2, <1>n, <1>4, <1>5, <1>7, <2>1, <2>2, StillPaid
  <2>5. QED
    BY <2>3, <2>4, <1>6
(* A fault lets one attempt start again.                                   *)
<1>8. ASSUME NEW x \in Synth, MayRespond' \subseteq MayRespond \cup {x},
             MaySave' \subseteq MaySave \cup {x}, UNCHANGED MayPlan,
             UNCHANGED <<A, B, synthCount>>, faults' = faults + 1
      PROVE  AnswerInv'
  <2>1. R' <= R + 1 /\ S' <= S + 1
    BY <1>1, <1>8, JobsAreFinite, Counting DEF R, S
  <2>2. P' <= P
    BY <1>n, <1>3, <1>8
  <2>3. Paid(A', R', P', faults', synthCount')
    BY <1>2, <1>n, <1>4, <1>5, <1>8, <2>1, <2>2, PaidByFault
  <2>4. Paid(B', S', P', faults', synthCount')
    BY <1>2, <1>n, <1>4, <1>5, <1>8, <2>1, <2>2, PaidByFault
  <2>5. QED
    BY <2>3, <2>4, <1>6
<1>9. CASE PlanFault
  <2>1. MayRespond' = MayRespond /\ MaySave' = MaySave
    BY <1>9 DEF PlanFault, MayRespond, MaySave
  <2>2. R' = R /\ S' = S
    BY <2>1 DEF R, S
  <2>3. UNCHANGED <<A, B, synthCount>> /\ faults' = faults + 1
    BY <1>9 DEF PlanFault, A, B
  <2>4. Paid(A', R', P', faults', synthCount')
    BY <1>2, <1>n, <1>3, <1>4, <1>5, <2>2, <2>3, PaidByPlanFault
  <2>5. Paid(B', S', P', faults', synthCount')
    BY <1>2, <1>n, <1>3, <1>4, <1>5, <2>2, <2>3, PaidByPlanFault
  <2>6. QED
    BY <2>4, <2>5, <1>6
<1>10. CASE InsertProcess
  <2>1. MayRespond' = MayRespond /\ MaySave' = MaySave
    BY <1>10 DEF InsertProcess, MayRespond, MaySave
  <2>2. R' = R /\ S' = S
    BY <2>1 DEF R, S
  <2>3. A' = A + 1 /\ UNCHANGED <<B, synthCount, faults>>
    BY <1>4, <1>10 DEF InsertProcess, A, B
  <2>4. MayPlan /\ ~ MayPlan'
    BY <1>10 DEF InsertProcess, MayPlan, PlanInv
  <2>0. P' <= P /\ faults <= faults' /\ R' <= R /\ S' <= S
    BY <1>2, <1>n, <1>3, <1>4, <2>2, <2>3, <2>4
  <2>5. Paid(A', R', P', faults', synthCount')
    BY <1>2, <1>n, <1>3, <1>4, <1>5, <2>2, <2>3, <2>4, PaidByPlan
  <2>6. Paid(B', S', P', faults', synthCount')
    BY <1>2, <1>n, <1>4, <1>5, <2>0, <2>3, StillPaid
  <2>7. QED
    BY <2>5, <2>6, <1>6
<1>11. CASE SetTotalTasks
  <2>1. MayRespond' = MayRespond /\ MaySave' = MaySave
    BY <1>11 DEF SetTotalTasks, MayRespond, MaySave
  <2>2. R' = R /\ S' = S
    BY <2>1 DEF R, S
  <2>3. A' = A + 1 /\ B' = B + 1 /\ UNCHANGED <<synthCount, faults>>
    BY <1>4, <1>11 DEF SetTotalTasks, A, B
  <2>4. MayPlan /\ ~ MayPlan'
    BY <1>11 DEF SetTotalTasks, MayPlan, PlanInv
  <2>5. Paid(A', R', P', faults', synthCount')
    BY <1>2, <1>n, <1>3, <1>4, <1>5, <2>2, <2>3, <2>4, PaidByPlan
  <2>6. Paid(B', S', P', faults', synthCount')
    BY <1>2, <1>n, <1>3, <1>4, <1>5, <2>2, <2>3, <2>4, PaidByPlan
  <2>7. QED
    BY <2>5, <2>6, <1>6
<1>12. CASE PlanStart \/ Decompose \/ DecomposeFails \/ InsertExecute \/ PlanFinish
  <2>1. UNCHANGED <<synthState, synthPc, A, B, synthCount, faults>>
    BY <1>12 DEF PlanStart, Decompose, DecomposeFails, InsertExecute, PlanFinish, A, B
  <2>2. MayPlan' => MayPlan
    BY <1>12 DEF PlanStart, Decompose, DecomposeFails, InsertExecute, PlanFinish,
         MayPlan, PlanInv
  <2>3. MayRespond' = MayRespond /\ MaySave' = MaySave
    BY <2>1 DEF MayRespond, MaySave
  <2>4. QED
    BY <1>7, <2>1, <2>2, <2>3
<1>13. ASSUME NEW j \in Job, InsertSynthesize(j) PROVE AnswerInv'
  <2>1. /\ synthCount' = synthCount + 1
        /\ UNCHANGED <<planState, planPc, A, B, faults>>
    BY <1>13 DEF InsertSynthesize, A, B
  <2>2. TypeOK'
    BY StepBasics DEF Basics
  <2>3. synthCount + 1 \in Synth
    BY <1>4, <2>1, <2>2 DEF TypeOK, Synth
  <2>4. /\ MayRespond' \subseteq MayRespond \cup {synthCount + 1}
        /\ MaySave' \subseteq MaySave \cup {synthCount + 1}
    BY <1>13, <2>3 DEF InsertSynthesize, MayRespond, MaySave, TypeOK
  <2>5. R' <= R + 1 /\ S' <= S + 1
    BY <1>1, <2>3, <2>4, JobsAreFinite, Counting DEF R, S
  <2>6. P' = P
    BY <2>1 DEF P, MayPlan
  <2>7. Paid(A', R', P', faults', synthCount')
    BY <1>2, <1>n, <1>3, <1>4, <1>5, <2>1, <2>5, <2>6, PaidByTotal
  <2>8. Paid(B', S', P', faults', synthCount')
    BY <1>2, <1>n, <1>3, <1>4, <1>5, <2>1, <2>5, <2>6, PaidByTotal
  <2>9. QED
    BY <2>7, <2>8, <1>6
<1>14. ASSUME NEW j \in Job,
             \/ ExecuteStart(j) \/ StartFault(j) \/ TaskRetries(j) \/ UpdateStep(j)
             \/ SaveOutput(j) \/ IncrementCompletedTasks(j) \/ SkipAsDuplicate(j)
             \/ ExecuteFinish(j) \/ ExecuteFault(j) \/ DiscardExecute(j)
      PROVE  AnswerInv'
  <2>1. UNCHANGED <<planState, planPc, synthState, synthPc, A, B, synthCount>>
    BY <1>14 DEF A, B, ExecuteStart, StartFault, TaskRetries, UpdateStep, SaveOutput,
         IncrementCompletedTasks, SkipAsDuplicate, ExecuteFinish, ExecuteFault,
         DiscardExecute
  <2>2. faults' = faults \/ faults' = faults + 1
    BY <1>14 DEF ExecuteStart, StartFault, TaskRetries, UpdateStep, SaveOutput,
         IncrementCompletedTasks, SkipAsDuplicate, ExecuteFinish, ExecuteFault,
         DiscardExecute
  <2>3. MayRespond' = MayRespond /\ MaySave' = MaySave /\ (MayPlan' => MayPlan)
    BY <2>1 DEF MayRespond, MaySave, MayPlan
  <2>4. QED
    BY <1>7, <2>1, <2>2, <2>3
<1>15. ASSUME NEW s \in Synth, SynthStart(s) \/ SynthRead(s) \/ SynthFails(s) \/ SynthFinish(s)
       PROVE  AnswerInv'
  <2>1. UNCHANGED <<planState, planPc, A, B, synthCount, faults>>
    BY <1>15 DEF A, B, SynthStart, SynthRead, SynthFails, SynthFinish
  <2>2. MayRespond' \subseteq MayRespond /\ MaySave' \subseteq MaySave
    BY <1>15 DEF SynthStart, SynthRead, SynthFails, SynthFinish, MayRespond, MaySave,
         TypeOK, SynthInv
  <2>3. MayPlan' => MayPlan
    BY <2>1 DEF MayPlan
  <2>4. QED
    BY <1>7, <2>1, <2>2, <2>3
<1>16. ASSUME NEW s \in Synth, SynthSave(s) PROVE AnswerInv'
  <2>1. B' = B + 1 /\ UNCHANGED <<planState, planPc, A, synthCount, faults>>
    BY <1>4, <1>16 DEF SynthSave, A, B
  <2>2. MayRespond' \subseteq MayRespond /\ s \in MaySave /\ MaySave' \subseteq MaySave \ {s}
    BY <1>16 DEF SynthSave, MayRespond, MaySave, TypeOK, SynthInv
  <2>3. R' <= R /\ S' + 1 <= S
    BY <1>1, <2>2, JobsAreFinite, Counting DEF R, S
  <2>4. P' = P
    BY <2>1 DEF P, MayPlan
  <2>0. P' <= P /\ faults <= faults' /\ R' <= R /\ S' <= S
    BY <1>2, <1>n, <1>3, <1>4, <2>1, <2>3, <2>4, Sums
  <2>5. Paid(A', R', P', faults', synthCount')
    BY <1>2, <1>n, <1>4, <1>5, <2>0, <2>1, StillPaid
  <2>6. Paid(B', S', P', faults', synthCount')
    BY <1>2, <1>n, <1>4, <1>5, <2>1, <2>3, <2>4, PaidBySynthesize
  <2>7. QED
    BY <2>5, <2>6, <1>6
<1>17. ASSUME NEW s \in Synth, InsertRespond(s) PROVE AnswerInv'
  <2>1. A' = A + 1 /\ UNCHANGED <<planState, planPc, B, synthCount, faults>>
    BY <1>4, <1>17 DEF InsertRespond, A, B
  <2>2. MaySave' \subseteq MaySave /\ s \in MayRespond /\ MayRespond' \subseteq MayRespond \ {s}
    BY <1>17 DEF InsertRespond, MayRespond, MaySave, TypeOK, SynthInv
  <2>3. S' <= S /\ R' + 1 <= R
    BY <1>1, <2>2, JobsAreFinite, Counting DEF R, S
  <2>4. P' = P
    BY <2>1 DEF P, MayPlan
  <2>0. P' <= P /\ faults <= faults' /\ R' <= R /\ S' <= S
    BY <1>2, <1>n, <1>3, <1>4, <2>1, <2>3, <2>4, Sums
  <2>5. Paid(A', R', P', faults', synthCount')
    BY <1>2, <1>n, <1>4, <1>5, <2>1, <2>3, <2>4, PaidBySynthesize
  <2>6. Paid(B', S', P', faults', synthCount')
    BY <1>2, <1>n, <1>4, <1>5, <2>0, <2>1, StillPaid
  <2>7. QED
    BY <2>5, <2>6, <1>6
<1>18. ASSUME NEW s \in Synth, SynthFault(s) PROVE AnswerInv'
  <2>1. UNCHANGED <<planState, planPc, A, B, synthCount>> /\ faults' = faults + 1
    BY <1>18 DEF A, B, SynthFault
  <2>2. MayRespond' \subseteq MayRespond \cup {s} /\ MaySave' \subseteq MaySave \cup {s}
    BY <1>18 DEF SynthFault, MayRespond, MaySave, TypeOK
  <2>3. UNCHANGED MayPlan
    BY <2>1 DEF MayPlan
  <2>4. QED
    BY <1>8, <2>1, <2>2, <2>3
<1>19. CASE UNCHANGED vars
  <2>1. UNCHANGED <<MayRespond, MaySave, MayPlan, A, B, synthCount, faults>>
    BY <1>19 DEF A, B, vars, MayRespond, MaySave, MayPlan
  <2>2. QED
    BY <1>7, <2>1
<1>20. QED
  BY <1>9, <1>10, <1>11, <1>12, <1>13, <1>14, <1>15, <1>16, <1>17, <1>18, <1>19
     DEF Next, PlanWork, ExecuteWork, SynthWork
-----------------------------------------------------------------------------
(* Jobs of one attempt, counted by their tasks.                            *)
LEMMA TasksOfAttempt ==
  ASSUME NEW a, NEW n \in Nat, NEW C, \A i \in C : i[2] \in 1 .. n /\ i = <<a, i[2]>>
  PROVE  /\ IsFiniteSet(C) /\ Cardinality(C) \in Nat /\ Cardinality(C) <= n
         /\ Cardinality(C) = n <=> \A t \in 1 .. n : <<a, t>> \in C
<1> DEFINE f == [i \in C |-> i[2]]
<1>1. IsFiniteSet(1 .. n) /\ Cardinality(1 .. n) = n
  BY FS_Interval
<1>2. f \in Injection(C, 1 .. n)
  BY DEF Injection, IsInjective
<1>3. /\ IsFiniteSet(C) /\ Cardinality(C) <= Cardinality(1 .. n)
      /\ Cardinality(C) = Cardinality(1 .. n) <=> f \in Surjection(C, 1 .. n)
  BY <1>1, <1>2, FS_Injection
<1>4. f \in Surjection(C, 1 .. n) => \A t \in 1 .. n : <<a, t>> \in C
  BY DEF Surjection
<1>5. (\A t \in 1 .. n : <<a, t>> \in C) => f \in Surjection(C, 1 .. n)
  <2>1. SUFFICES ASSUME \A t \in 1 .. n : <<a, t>> \in C
                 PROVE  \A t \in 1 .. n : \E i \in C : f[i] = t
    BY <1>2 DEF Surjection, Injection
  <2>2. QED
    BY <2>1
<1>6. QED
  BY <1>1, <1>3, <1>4, <1>5, FS_CardinalityType

(* Until an attempt is lost late, the execute jobs are those of one plan   *)
(* attempt, one for each of its tasks at most.                             *)
LEMMA JobsOfOnePlan ==
  TypeOK /\ PlanInv /\ JobInv /\ OnePlan =>
    /\ \A i \in Inserted : i[2] \in 1 .. total_tasks /\ i = <<planAttempt, i[2]>>
    /\ Inserted # {} => ~ MayPlan /\ planState # "discarded"
    /\ Counted \subseteq Inserted /\ Joining \subseteq Counted
<1> SUFFICES ASSUME TypeOK, PlanInv, JobInv, OnePlan
             PROVE  /\ \A i \in Inserted : i[2] \in 1 .. total_tasks /\ i = <<planAttempt, i[2]>>
                    /\ Inserted # {} => ~ MayPlan /\ planState # "discarded"
                    /\ Counted \subseteq Inserted /\ Joining \subseteq Counted
  OBVIOUS
<1>1. Inserted # {} => ~ MayPlan /\ planState # "discarded"
  BY DEF OnePlan
<1>2. Counted \subseteq Inserted /\ Joining \subseteq Counted
  BY DEF Counted, Inserted, Joining, JobInv
<1>3. ASSUME NEW i \in Inserted PROVE i[2] \in 1 .. total_tasks /\ i = <<planAttempt, i[2]>>
  <2>1. i \in Job
    BY DEF Inserted
  <2>2. /\ i[2] \in Nat /\ i[2] >= 1 /\ i = <<i[1], i[2]>>
        /\ total_tasks \in Nat /\ next \in Nat /\ tasks \in Nat
    BY <2>1, JobsAreFinite DEF Task, TypeOK
  <2>3. planPc = "insert" \/ planPc = "finish" \/ planState = "completed"
    BY <1>1, <1>3 DEF MayPlan, PlanInv, TypeOK, JobStates, PlanPcs
  <2>4. i[1] = planAttempt /\ i[2] <= total_tasks
    <3>1. CASE planPc = "insert"
      <4>1. i[1] = planAttempt /\ i[2] < next /\ tasks = total_tasks /\ next <= tasks
        BY <2>1, <3>1 DEF OnePlan, PlanInv
      <4>2. QED
        BY <2>2, <4>1
    <3>2. CASE planPc = "finish" \/ planState = "completed"
      BY <2>1, <3>2, <1>3 DEF OnePlan
    <3>3. QED
      BY <2>3, <3>1, <3>2
  <2>5. QED
    BY <2>2, <2>4
<1>4. QED
  BY <1>1, <1>2, <1>3

(* A step that does not lose an attempt late inserts an execute job,       *)
(* counts one, or leaves both sets as they are.                            *)
LEMMA JobSets ==
  Basics /\ [Next]_vars /\ lateFaults = 0 /\ lateFaults' = 0 =>
    /\ UNCHANGED Inserted \/ InsertExecute
    /\ \/ UNCHANGED <<Counted, completed_tasks>>
       \/ \E j \in Job : /\ IncrementCompletedTasks(j)
                         /\ j \notin Counted /\ Counted' = Counted \cup {j}
<1> SUFFICES ASSUME Basics, [Next]_vars, lateFaults = 0, lateFaults' = 0
             PROVE  /\ UNCHANGED Inserted \/ InsertExecute
                    /\ \/ UNCHANGED <<Counted, completed_tasks>>
                       \/ \E j \in Job : /\ IncrementCompletedTasks(j)
                                         /\ j \notin Counted /\ Counted' = Counted \cup {j}
  OBVIOUS
<1> TypeOK /\ PlanInv /\ JobInv
  BY DEF Basics
<1> USE FanOutAssumption DEF planVars, jobVars, synthVars, rowVars, outVars, faultVars,
      AfterError
<1>1. CASE InsertExecute
  <2>1. <<planAttempt, next>> \in Job => jobState[<<planAttempt, next>>] = "none"
    BY <1>1, JobsAreFinite DEF InsertExecute, JobInv, TypeOK
  <2>2. UNCHANGED <<Counted, completed_tasks>>
    BY <1>1, <2>1 DEF InsertExecute, Counted, TypeOK, JobInv
  <2>3. QED
    BY <1>1, <2>2
<1>2. CASE \/ PlanStart \/ Decompose \/ DecomposeFails \/ InsertProcess \/ SetTotalTasks
           \/ PlanFinish \/ PlanFault
  <2>1. UNCHANGED <<jobState, jobPc, completed_tasks>>
    BY <1>2 DEF PlanStart, Decompose, DecomposeFails, InsertProcess, SetTotalTasks,
         PlanFinish, PlanFault
  <2>2. QED
    BY <2>1 DEF Inserted, Counted
<1>3. ASSUME NEW j \in Job, IncrementCompletedTasks(j)
      PROVE  UNCHANGED Inserted /\ j \notin Counted /\ Counted' = Counted \cup {j}
  <2>1. UNCHANGED Inserted
    BY <1>3 DEF IncrementCompletedTasks, Inserted
  <2>2. j \notin Counted
    BY <1>3 DEF IncrementCompletedTasks, Counted, JobInv
  <2>3. Counted' = Counted \cup {j}
    BY <1>3 DEF IncrementCompletedTasks, Counted, TypeOK
  <2>4. QED
    BY <2>1, <2>2, <2>3
<1>4. ASSUME NEW j \in Job,
             \/ ExecuteStart(j) \/ StartFault(j) \/ TaskRetries(j) \/ UpdateStep(j)
             \/ SaveOutput(j) \/ InsertSynthesize(j) \/ SkipAsDuplicate(j)
             \/ ExecuteFinish(j) \/ ExecuteFault(j) \/ DiscardExecute(j)
      PROVE  UNCHANGED <<Inserted, Counted, completed_tasks>>
  <2>1. UNCHANGED completed_tasks
    BY <1>4 DEF ExecuteStart, StartFault, TaskRetries, UpdateStep, SaveOutput,
         InsertSynthesize, SkipAsDuplicate, ExecuteFinish, ExecuteFault, DiscardExecute
  <2>2. UNCHANGED Inserted
    BY <1>4 DEF ExecuteStart, StartFault, TaskRetries, UpdateStep, SaveOutput,
         InsertSynthesize, SkipAsDuplicate, ExecuteFinish, ExecuteFault, DiscardExecute,
         Inserted, TypeOK, JobInv
  <2>3. ASSUME \/ ExecuteStart(j) \/ StartFault(j) \/ TaskRetries(j) \/ DiscardExecute(j)
        PROVE  UNCHANGED Counted
    BY <2>3 DEF ExecuteStart, StartFault, TaskRetries, DiscardExecute, Counted, TypeOK,
       JobInv
  <2>4. ASSUME \/ UpdateStep(j) \/ SaveOutput(j) \/ InsertSynthesize(j) \/ SkipAsDuplicate(j)
               \/ ExecuteFinish(j)
        PROVE  UNCHANGED Counted
    BY <2>4 DEF UpdateStep, SaveOutput, InsertSynthesize, SkipAsDuplicate, ExecuteFinish,
         Counted, TypeOK, JobInv
  <2>5. ASSUME ExecuteFault(j) PROVE UNCHANGED Counted
    <3>1. jobPc[j] \notin {"join", "finish"}
      BY <2>5 DEF ExecuteFault
    <3>2. QED
      BY <2>5, <3>1 DEF ExecuteFault, Counted, TypeOK, JobInv
  <2>6. QED
    BY <1>4, <2>1, <2>2, <2>3, <2>4, <2>5
<1>5. ASSUME NEW s \in Synth, SynthWork(s) \/ SynthFault(s)
      PROVE  UNCHANGED <<Inserted, Counted, completed_tasks>>
  <2>1. UNCHANGED <<jobState, jobPc, completed_tasks>>
    BY <1>5 DEF SynthWork, SynthStart, SynthRead, SynthFails, SynthSave, InsertRespond,
         SynthFinish, SynthFault
  <2>2. QED
    BY <2>1 DEF Inserted, Counted
<1>6. CASE UNCHANGED vars
  BY <1>6 DEF vars, Inserted, Counted
<1>7. QED
  BY <1>1, <1>2, <1>3, <1>4, <1>5, <1>6 DEF Next, PlanWork, ExecuteWork
-----------------------------------------------------------------------------
(* Attempts that were lost late stay lost.                                 *)
LEMMA LateStays == TypeOK /\ [Next]_vars /\ lateFaults' = 0 => lateFaults = 0
<1> SUFFICES ASSUME TypeOK, [Next]_vars, lateFaults' = 0 PROVE lateFaults = 0
  OBVIOUS
<1>1. lateFaults \in Nat
  BY DEF TypeOK
<1>2. lateFaults' = lateFaults \/ lateFaults' = lateFaults + 1 \/ lateFaults' = lateFaults + 0
  BY DEF Next, PlanWork, ExecuteWork, SynthWork, vars, faultVars,
     PlanStart, Decompose, DecomposeFails, InsertProcess, SetTotalTasks, InsertExecute,
     PlanFinish, PlanFault, ExecuteStart, StartFault, TaskRetries, UpdateStep,
     SaveOutput, IncrementCompletedTasks, InsertSynthesize, SkipAsDuplicate,
     ExecuteFinish, ExecuteFault, DiscardExecute, SynthStart, SynthRead, SynthFails,
     SynthSave, InsertRespond, SynthFinish, SynthFault
<1>3. QED
  BY <1>1, <1>2

(* A plan attempt that is lost before its first insertion leaves nothing   *)
(* behind that the next one could meet.                                    *)
LEMMA StepOnePlan ==
  Basics /\ OnePlan /\ [Next]_vars /\ lateFaults = 0 /\ lateFaults' = 0 => OnePlan'
<1> SUFFICES ASSUME Basics, OnePlan, [Next]_vars, lateFaults = 0, lateFaults' = 0
             PROVE  OnePlan'
  OBVIOUS
<1> TypeOK /\ PlanInv /\ JobInv
  BY DEF Basics
<1> USE FanOutAssumption DEF planVars, jobVars, synthVars, rowVars, outVars, faultVars,
      AfterError
<1>1. UNCHANGED Inserted \/ InsertExecute
  BY JobSets
<1>2. \A i \in Inserted : i \in Job
  BY DEF Inserted
<1>3. CASE PlanStart
  BY <1>3 DEF PlanStart, OnePlan, MayPlan, Inserted
<1>4. CASE Decompose \/ DecomposeFails
  BY <1>4 DEF Decompose, DecomposeFails, OnePlan, MayPlan, Inserted, PlanInv
<1>5. CASE InsertProcess
  BY <1>5 DEF InsertProcess, OnePlan, MayPlan, Inserted, PlanInv
<1>6. CASE SetTotalTasks
  <2>1. /\ Inserted = {} /\ Inserted' = {} /\ processJobs' = 0 /\ planPc' = "insert"
        /\ tasks' = total_tasks' /\ planState' = "running" /\ next' = 1
    BY <1>6 DEF SetTotalTasks, OnePlan, MayPlan, Inserted, PlanInv
  <2>2. \A j \in Job : ~ j[2] < 1
    BY JobsAreFinite DEF Task
  <2>3. QED
    BY <2>1, <2>2 DEF OnePlan, MayPlan
<1>7. CASE InsertExecute
  <2>1. /\ planPc = "insert" /\ processJobs' = 0 /\ tasks = total_tasks
        /\ \A j \in Job : j \in Inserted <=> j[1] = planAttempt /\ j[2] < next
    BY <1>7 DEF InsertExecute, OnePlan
  <2>2. /\ planState' = "running" /\ total_tasks' = total_tasks
        /\ tasks' = tasks /\ planAttempt' = planAttempt /\ next' = next + 1
        /\ planPc' = IF next = tasks THEN "finish" ELSE "insert"
        /\ jobState' = [jobState EXCEPT ![<<planAttempt, next>>] = "available"]
    BY <1>7 DEF InsertExecute, PlanInv
  <2>3. next \in Nat /\ tasks \in Nat
    BY DEF TypeOK
  <2>4. ASSUME NEW j \in Job
        PROVE  j \in Inserted' <=> j[1] = planAttempt' /\ j[2] < next'
    <3>1. j \in Inserted' <=> j \in Inserted \/ j = <<planAttempt, next>>
      BY <2>2 DEF Inserted, TypeOK
    <3>2. j[2] \in Nat /\ j = <<j[1], j[2]>>
      BY JobsAreFinite
    <3>3. j[2] < next + 1 <=> j[2] < next \/ j[2] = next
      BY <2>3, <3>2
    <3>4. QED
      BY <2>1, <2>2, <3>1, <3>2, <3>3
  <2>5. CASE next = tasks
    <3>1. \A j \in Job : j[2] < next' <=> j[2] <= total_tasks'
      BY <2>1, <2>2, <2>3, <2>5, JobsAreFinite
    <3>2. QED
      BY <2>1, <2>2, <2>4, <2>5, <3>1 DEF OnePlan, MayPlan
  <2>6. CASE next # tasks
    BY <2>1, <2>2, <2>4, <2>6 DEF OnePlan, MayPlan
  <2>7. QED
    BY <2>5, <2>6
<1>8. CASE PlanFinish
  BY <1>8 DEF PlanFinish, OnePlan, MayPlan, Inserted
<1>9. CASE PlanFault
  <2>1. Inserted = {} /\ processJobs = 0
    <3>1. planPc # "finish" /\ ~ (planPc = "insert" /\ next > 1)
      BY <1>9 DEF PlanFault
    <3>2. CASE planPc = "insert"
      <4>1. next = 1
        BY <3>1, <3>2 DEF TypeOK
      <4>2. \A j \in Job : ~ j[2] < 1
        BY JobsAreFinite DEF Task
      <4>3. QED
        BY <1>2, <3>2, <4>1, <4>2 DEF OnePlan
    <3>3. CASE planPc # "insert"
      BY <1>9, <3>1, <3>3 DEF PlanFault, OnePlan, MayPlan, PlanInv, TypeOK, PlanPcs
    <3>4. QED
      BY <3>2, <3>3
  <2>2. /\ UNCHANGED <<Inserted, processJobs>> /\ planPc' = "idle"
        /\ planState' \in {"available", "discarded"}
    BY <1>9 DEF PlanFault, Inserted
  <2>3. QED
    BY <2>1, <2>2 DEF OnePlan
<1>10. ASSUME UNCHANGED <<planVars, total_tasks, processJobs>>, UNCHANGED Inserted
       PROVE  OnePlan'
  BY <1>10 DEF OnePlan, MayPlan
<1>11. ASSUME NEW j \in Job,
              ExecuteWork(j) \/ StartFault(j) \/ ExecuteFault(j) \/ DiscardExecute(j)
       PROVE  OnePlan'
  <2>1. UNCHANGED <<planVars, total_tasks, processJobs>> /\ ~ InsertExecute
    BY <1>11 DEF ExecuteWork, ExecuteStart, StartFault, TaskRetries, UpdateStep,
       SaveOutput,
         IncrementCompletedTasks, InsertSynthesize, SkipAsDuplicate, ExecuteFinish,
         ExecuteFault, DiscardExecute, InsertExecute, TypeOK
  <2>2. QED
    BY <1>1, <1>10, <2>1
<1>12. ASSUME NEW s \in Synth, SynthWork(s) \/ SynthFault(s) PROVE OnePlan'
  <2>1. UNCHANGED <<planVars, total_tasks, processJobs, jobState>>
    BY <1>12 DEF SynthWork, SynthStart, SynthRead, SynthFails, SynthSave, InsertRespond,
         SynthFinish, SynthFault
  <2>2. QED
    BY <1>10, <2>1 DEF Inserted
<1>13. CASE UNCHANGED vars
  BY <1>10, <1>13 DEF vars, Inserted
<1>14. QED
  BY <1>3, <1>4, <1>5, <1>6, <1>7, <1>8, <1>9, <1>11, <1>12, <1>13 DEF Next, PlanWork
(* The step row and the output of a task are written by its own job alone, *)
(* before that job is counted.                                             *)
LEMMA StepTold ==
  Basics /\ OnePlan /\ Told /\ [Next]_vars /\ lateFaults = 0 /\ lateFaults' = 0 => Told'
<1> SUFFICES ASSUME Basics, OnePlan, Told, [Next]_vars, lateFaults = 0, lateFaults' = 0
             PROVE  Told'
  OBVIOUS
<1> TypeOK /\ PlanInv /\ JobInv
  BY DEF Basics
<1> USE FanOutAssumption DEF planVars, jobVars, synthVars, rowVars, outVars, faultVars,
      AfterError
<1> DEFINE word(i) == IF failed[i] THEN "failed" ELSE "complete"
           kind(i) == IF failed[i] THEN "error" ELSE "result"
           row(i)  == jobPc[i] \in {"save", "increment"} \/ i \in Counted =>
                        steps[i[2]] \subseteq {word(i)}
           out(i)  == jobPc[i] = "increment" \/ i \in Counted => <<i[2], kind(i)>> \in outputs
           own     == \A o \in outputs : \E i \in Inserted : o[1] = i[2]
<1>1. \A i \in Job : row(i) /\ out(i)
  BY DEF Told
<1>2. own
  BY DEF Told
<1>3. (\A i \in Job : row(i)' /\ out(i)') /\ own' => Told'
  BY DEF Told
<1>4. \A i, k \in Inserted : i[2] = k[2] => i = k
  BY JobsOfOnePlan
<1>5. /\ Counted \subseteq Inserted /\ Inserted \subseteq Inserted'
      /\ \A i \in Job \ Inserted : jobPc[i] = "idle"
      /\ Inserted \subseteq Job
  <2>1. Inserted \subseteq Inserted'
    <3>1. CASE InsertExecute
      BY <3>1 DEF InsertExecute, Inserted, TypeOK
    <3>2. CASE UNCHANGED Inserted
      BY <3>2
    <3>3. QED
      BY <3>1, <3>2, JobSets
  <2>2. QED
    BY <2>1, JobsOfOnePlan DEF Inserted, JobInv
<1> HIDE DEF own
(* Nothing was written.                                                    *)
<1>6. ASSUME UNCHANGED <<jobPc, failed, steps, outputs, Counted>>, Inserted \subseteq Inserted'
      PROVE  Told'
  <2>1. \A i \in Job : row(i)' /\ out(i)'
    BY <1>1, <1>6
  <2>2. own'
    BY <1>2, <1>6 DEF own
  <2>3. QED
    BY <1>3, <2>1, <2>2
(* One job has written, at most the row and the output of its own task.    *)
<1>7. ASSUME NEW j \in Inserted,
             \A i \in Job \ {j} : jobPc'[i] = jobPc[i] /\ failed'[i] = failed[i],
             \A t \in Task \ {j[2]} : steps'[t] = steps[t],
             outputs \subseteq outputs', \A o \in outputs' \ outputs : o[1] = j[2],
             Counted' \subseteq Counted \cup {j},
             row(j)', out(j)'
      PROVE  Told'
  <2>1. ASSUME NEW i \in Job PROVE row(i)' /\ out(i)'
    <3>1. CASE i = j
      BY <1>7, <3>1
    <3>2. CASE i # j /\ i \in Inserted
      <4>1. i[2] \in Task \ {j[2]}
        BY <1>4, <3>2, JobsAreFinite
      <4>2. steps'[i[2]] = steps[i[2]] /\ jobPc'[i] = jobPc[i] /\ failed'[i] = failed[i]
        BY <1>7, <3>2, <4>1
      <4>3. i \in Counted' => i \in Counted
        BY <1>7, <3>2
      <4>4. row(i)' /\ out(i)'
        BY <1>1, <1>7, <4>2, <4>3
      <4>5. QED
        BY <4>4
    <3>3. CASE i # j /\ i \notin Inserted
      <4>1. jobPc'[i] = "idle" /\ i \notin Counted'
        BY <1>5, <1>7, <3>3
      <4>2. QED
        BY <4>1
    <3>4. QED
      BY <3>1, <3>2, <3>3
  <2>2. own'
    BY <1>2, <1>5, <1>7 DEF own
  <2>3. QED
    BY <1>3, <2>1, <2>2
<1>8. CASE PlanWork \/ PlanFault
  <2>1. UNCHANGED <<jobPc, failed, steps, outputs, completed_tasks>>
    BY <1>8 DEF PlanWork, PlanStart, Decompose, DecomposeFails, InsertProcess,
         SetTotalTasks, InsertExecute, PlanFinish, PlanFault
  <2>2. UNCHANGED Counted
    BY <2>1, JobSets DEF IncrementCompletedTasks, TypeOK
  <2>3. QED
    BY <1>5, <1>6, <2>1, <2>2
<1>9. ASSUME NEW j \in Job, ExecuteStart(j) PROVE Told'
  <2>1. j \in Inserted /\ j \notin Counted /\ jobPc'[j] = "llm" /\ UNCHANGED Counted
    BY <1>9, JobSets DEF ExecuteStart, Inserted, Counted, JobInv, TypeOK,
       IncrementCompletedTasks
  <2>2. /\ \A i \in Job \ {j} : jobPc'[i] = jobPc[i] /\ failed'[i] = failed[i]
        /\ \A t \in Task \ {j[2]} : steps'[t] = steps[t]
        /\ outputs' = outputs
    BY <1>9 DEF ExecuteStart, TypeOK
  <2>3. row(j)' /\ out(j)'
    BY <2>1
  <2>4. QED
    BY <1>7, <2>1, <2>2, <2>3
<1>10. ASSUME NEW j \in Job,
              StartFault(j) \/ TaskRetries(j) \/ ExecuteFault(j) \/ DiscardExecute(j)
       PROVE  Told'
  <2>1. j \in Inserted /\ j \notin Counted' /\ jobPc'[j] = "idle"
    BY <1>10 DEF StartFault, TaskRetries, ExecuteFault, DiscardExecute, Inserted, Counted,
         JobInv, TypeOK
  <2>2. UNCHANGED <<failed, steps, outputs, completed_tasks>>
    BY <1>10 DEF StartFault, TaskRetries, ExecuteFault, DiscardExecute
  <2>3. \A i \in Job \ {j} : jobPc'[i] = jobPc[i]
    BY <1>10 DEF StartFault, TaskRetries, ExecuteFault, DiscardExecute, TypeOK
  <2>4. Counted' \subseteq Counted
    BY <2>2, JobSets DEF IncrementCompletedTasks, TypeOK
  <2>5. row(j)' /\ out(j)'
    BY <2>1
  <2>6. QED
    BY <1>7, <2>1, <2>2, <2>3, <2>4, <2>5
<1>11. ASSUME NEW j \in Job, UpdateStep(j) PROVE Told'
  <2>1. PICK isErr \in BOOLEAN :
          /\ failed' = [failed EXCEPT ![j] = isErr]
          /\ steps' = [steps EXCEPT ![j[2]] =
               IF @ = {} THEN {} ELSE {IF isErr THEN "failed" ELSE "complete"}]
    BY <1>11 DEF UpdateStep
  <2>2. /\ j \in Inserted /\ j \notin Counted' /\ jobPc'[j] = "save"
        /\ Counted' \subseteq Counted /\ UNCHANGED outputs
    BY <1>11, JobSets DEF UpdateStep, Inserted, Counted, JobInv, TypeOK,
       IncrementCompletedTasks
  <2>3. /\ \A i \in Job \ {j} : jobPc'[i] = jobPc[i] /\ failed'[i] = failed[i]
        /\ \A t \in Task \ {j[2]} : steps'[t] = steps[t]
    BY <1>11, <2>1 DEF UpdateStep, TypeOK
  <2>4. steps'[j[2]] \subseteq {word(j)'}
    <3>1. failed'[j] = isErr
      BY <2>1 DEF TypeOK
    <3>2. steps'[j[2]] \subseteq {IF isErr THEN "failed" ELSE "complete"}
      BY <2>1, JobsAreFinite DEF TypeOK
    <3>3. QED
      BY <3>1, <3>2
  <2>5. row(j)' /\ out(j)'
    BY <2>2, <2>4
  <2>6. QED
    BY <1>7, <2>2, <2>3, <2>5
<1>12. ASSUME NEW j \in Job, SaveOutput(j) PROVE Told'
  <2>1. /\ j \in Inserted /\ j \notin Counted' /\ jobPc'[j] = "increment" /\ jobPc[j] = "save"
        /\ Counted' \subseteq Counted /\ UNCHANGED <<failed, steps>>
    BY <1>12, JobSets DEF SaveOutput, Inserted, Counted, JobInv, TypeOK,
       IncrementCompletedTasks
  <2>2. \A i \in Job \ {j} : jobPc'[i] = jobPc[i]
    BY <1>12 DEF SaveOutput, TypeOK
  <2>3. outputs' = outputs \cup {<<j[2], kind(j)>>}
    BY <1>12 DEF SaveOutput
  <2>4. row(j)'
    BY <1>1, <2>1
  <2>5. out(j)'
    BY <2>1, <2>3
  <2>6. outputs \subseteq outputs' /\ \A o \in outputs' \ outputs : o[1] = j[2]
    BY <2>3
  <2>7. QED
    BY <1>7, <2>1, <2>2, <2>4, <2>5, <2>6
<1>13. ASSUME NEW j \in Job, IncrementCompletedTasks(j) PROVE Told'
  <2>1. /\ j \in Inserted /\ jobPc[j] = "increment" /\ jobPc'[j] \in {"join", "finish"}
        /\ UNCHANGED <<failed, steps, outputs>>
    BY <1>13 DEF IncrementCompletedTasks, Inserted, JobInv, TypeOK
  <2>2. \A i \in Job \ {j} : jobPc'[i] = jobPc[i]
    BY <1>13 DEF IncrementCompletedTasks, TypeOK
  <2>3. Counted' \subseteq Counted \cup {j}
    BY <1>13 DEF IncrementCompletedTasks, Counted, TypeOK
  <2>4. row(j)' /\ out(j)'
    BY <1>1, <2>1
  <2>5. QED
    BY <1>7, <2>1, <2>2, <2>3, <2>4
<1>14. ASSUME NEW j \in Job, InsertSynthesize(j) \/ SkipAsDuplicate(j) \/ ExecuteFinish(j)
       PROVE  Told'
  <2>1. /\ j \in Counted /\ jobPc'[j] \notin {"save", "increment"}
        /\ UNCHANGED <<failed, steps, outputs, completed_tasks>>
    BY <1>14 DEF InsertSynthesize, SkipAsDuplicate, ExecuteFinish, Counted, TypeOK
  <2>2. \A i \in Job \ {j} : jobPc'[i] = jobPc[i]
    BY <1>14 DEF InsertSynthesize, SkipAsDuplicate, ExecuteFinish, TypeOK
  <2>3. UNCHANGED Counted
    BY <2>1, JobSets DEF IncrementCompletedTasks, TypeOK
  <2>4. row(j)' /\ out(j)'
    BY <1>1, <2>1
  <2>5. QED
    BY <1>5, <1>7, <2>1, <2>2, <2>3, <2>4
<1>15. ASSUME NEW s \in Synth, SynthWork(s) \/ SynthFault(s) PROVE Told'
  <2>1. UNCHANGED <<jobPc, jobState, failed, steps, outputs>>
    BY <1>15 DEF SynthWork, SynthStart, SynthRead, SynthFails, SynthSave, InsertRespond,
         SynthFinish, SynthFault
  <2>2. QED
    BY <1>5, <1>6, <2>1 DEF Counted
<1>16. CASE UNCHANGED vars
  BY <1>5, <1>6, <1>16 DEF vars, Counted
<1>17. QED
  BY <1>8, <1>9, <1>10, <1>11, <1>12, <1>13, <1>14, <1>15, <1>16 DEF Next, ExecuteWork
(* What two numbers may be together when one of them changes.              *)
LEMMA Shares ==
  /\ \A r, m, c, m1 \in Nat : r + m <= c /\ m1 <= m => r + m1 <= c
  /\ \A r, m, c, m1 \in Nat : r + m <= c /\ m1 <= m + 1 => r + m1 <= c + 1
  /\ \A r, m, c, m1 \in Nat : r + m <= c /\ m1 + 1 <= m => (r + 1) + m1 <= c
OBVIOUS

(* One of the two numbers alone.                                           *)
LEMMA OneShare ==
  /\ \A r, m, c \in Nat : r + m <= c => r <= c
  /\ \A m \in Nat : m <= 1 => 0 + m <= 1
OBVIOUS

(* The job whose increment reaches total_tasks finds every other job       *)
(* counted: nobody has joined before, and nobody will again, for the       *)
(* counter has no job left that could raise it.                            *)
LEMMA StepJoined ==
  Basics /\ OnePlan /\ JoinedOnce /\ [Next]_vars /\ lateFaults = 0 /\ lateFaults' = 0
    => JoinedOnce'
<1> SUFFICES ASSUME Basics, OnePlan, JoinedOnce, [Next]_vars, lateFaults = 0, lateFaults' = 0
             PROVE  JoinedOnce'
  OBVIOUS
<1> TypeOK /\ PlanInv /\ JobInv /\ SynthInv
  BY DEF Basics
<1> USE FanOutAssumption DEF planVars, jobVars, synthVars, rowVars, outVars, faultVars,
      AfterError
<1> DEFINE R == Cardinality(MayRespond)
           J == Cardinality(Joining)
           All == \A t \in 1 .. total_tasks : <<planAttempt, t>> \in Counted
<1>1. /\ Joining \in SUBSET Job /\ Joining' \in SUBSET Job
      /\ MayRespond \in SUBSET Synth /\ MayRespond' \in SUBSET Synth
  BY DEF Joining, MayRespond
<1>2. J \in Nat /\ J' \in Nat /\ R \in Nat /\ R' \in Nat
  BY <1>1, JobsAreFinite, Counting
<1>3. /\ synthCount \in Nat /\ respondJobs \in Nat /\ total_tasks \in Nat
      /\ completed_tasks \in Nat
  BY DEF TypeOK
<1>4. /\ \A i \in Inserted : i[2] \in 1 .. total_tasks /\ i = <<planAttempt, i[2]>>
      /\ Inserted # {} => ~ MayPlan
      /\ Counted \subseteq Inserted /\ Joining \subseteq Counted
  BY JobsOfOnePlan
<1>5. /\ IsFiniteSet(Counted) /\ Cardinality(Counted) \in Nat
      /\ Cardinality(Counted) = total_tasks <=> All
  BY <1>3, <1>4, TasksOfAttempt
<1>6. /\ completed_tasks = Cardinality(Counted)
      /\ respondJobs + R <= synthCount
      /\ synthCount + J <= 1
  BY DEF JoinedOnce
<1>7. synthCount > 0 \/ Joining # {} => Inserted # {} /\ All
  BY DEF JoinedOnce
<1>8. /\ completed_tasks' = Cardinality(Counted')
      /\ respondJobs' + R' <= synthCount'
      /\ synthCount' + J' <= 1
      /\ synthCount' > 0 \/ Joining' # {} => Inserted' # {} /\ All'
      => JoinedOnce'
  BY DEF JoinedOnce
<1> HIDE DEF R, J
(* Nobody joins, and nobody may answer who could not before.               *)
<1>9. ASSUME UNCHANGED <<Counted, completed_tasks, synthCount, respondJobs>>,
             Joining' \subseteq Joining, MayRespond' \subseteq MayRespond,
             Inserted \subseteq Inserted',
             Inserted # {} => UNCHANGED <<planAttempt, total_tasks>>
      PROVE  JoinedOnce'
  <2>1. J' <= J /\ R' <= R
    BY <1>1, <1>9, JobsAreFinite, Counting DEF J, R
  <2>2. respondJobs' + R' <= synthCount'
    BY <1>2, <1>3, <1>6, <1>9, <2>1, Shares
  <2>3. synthCount' + J' <= 1
    BY <1>2, <1>3, <1>6, <1>9, <2>1, Shares
  <2>4. synthCount' > 0 \/ Joining' # {} => Inserted' # {} /\ All'
    BY <1>7, <1>9
  <2>5. completed_tasks' = Cardinality(Counted')
    BY <1>6, <1>9
  <2>6. QED
    BY <1>8, <2>2, <2>3, <2>4, <2>5
<1>10. Inserted \subseteq Inserted'
  <2>1. CASE InsertExecute
    BY <2>1 DEF InsertExecute, Inserted, TypeOK
  <2>2. CASE UNCHANGED Inserted
    BY <2>2
  <2>3. QED
    BY <2>1, <2>2, JobSets
<1>11. CASE PlanWork \/ PlanFault
  <2>1. UNCHANGED <<jobPc, synthCount, synthState, synthPc, respondJobs, completed_tasks>>
    BY <1>11 DEF PlanWork, PlanStart, Decompose, DecomposeFails, InsertProcess,
         SetTotalTasks, InsertExecute, PlanFinish, PlanFault
  <2>2. UNCHANGED Counted
    BY <2>1, JobSets DEF IncrementCompletedTasks, TypeOK
  <2>3. UNCHANGED <<planAttempt, total_tasks>> \/ MayPlan
    BY <1>11 DEF PlanWork, PlanStart, Decompose, DecomposeFails, InsertProcess,
         SetTotalTasks, InsertExecute, PlanFinish, PlanFault, MayPlan
  <2>4. Joining' \subseteq Joining /\ MayRespond' \subseteq MayRespond
    BY <2>1 DEF Joining, MayRespond
  <2>5. QED
    BY <1>4, <1>9, <1>10, <2>1, <2>2, <2>3, <2>4
<1>12. ASSUME NEW j \in Job,
              \/ ExecuteStart(j) \/ StartFault(j) \/ TaskRetries(j) \/ UpdateStep(j)
              \/ SaveOutput(j) \/ SkipAsDuplicate(j) \/ ExecuteFinish(j) \/ ExecuteFault(j)
              \/ DiscardExecute(j)
       PROVE  JoinedOnce'
  <2>1. UNCHANGED <<planVars, total_tasks, synthVars, respondJobs, completed_tasks>>
    BY <1>12 DEF ExecuteStart, StartFault, TaskRetries, UpdateStep, SaveOutput,
         SkipAsDuplicate, ExecuteFinish, ExecuteFault, DiscardExecute
  <2>2. UNCHANGED Counted
    BY <2>1, JobSets DEF IncrementCompletedTasks, TypeOK
  <2>3. \/ jobPc' = jobPc
        \/ \E pc \in JobPcs \ {"join"} : jobPc' = [jobPc EXCEPT ![j] = pc]
    BY <1>12 DEF ExecuteStart, StartFault, TaskRetries, UpdateStep, SaveOutput,
         SkipAsDuplicate, ExecuteFinish, ExecuteFault, DiscardExecute, JobPcs
  <2>4. Joining' \subseteq Joining /\ MayRespond' \subseteq MayRespond
    BY <2>1, <2>3 DEF Joining, MayRespond, TypeOK
  <2>5. QED
    BY <1>9, <1>10, <2>1, <2>2, <2>4
<1>13. ASSUME NEW j \in Job, IncrementCompletedTasks(j) PROVE JoinedOnce'
  <2>1. /\ completed_tasks' = completed_tasks + 1
        /\ UNCHANGED <<planAttempt, total_tasks, synthCount, synthState, synthPc, respondJobs>>
        /\ UNCHANGED Inserted
    BY <1>13 DEF IncrementCompletedTasks, Inserted
  <2>2. j \notin Counted /\ Counted' = Counted \cup {j} /\ j \in Inserted
    BY <1>13 DEF IncrementCompletedTasks, Counted, Inserted, JobInv, TypeOK
  <2>3. completed_tasks' = Cardinality(Counted')
    BY <1>5, <1>6, <2>1, <2>2, FS_AddElement
  <2>4. UNCHANGED MayRespond
    BY <2>1 DEF MayRespond
  <2>5. respondJobs' + R' <= synthCount'
    BY <1>6, <2>1, <2>4 DEF R
  <2>6. \A i \in Counted' : i[2] \in 1 .. total_tasks /\ i = <<planAttempt, i[2]>>
    BY <1>4, <2>2
  <2>7. Cardinality(Counted') = total_tasks <=> All'
    BY <1>3, <2>1, <2>6, TasksOfAttempt
  <2>8. CASE completed_tasks + 1 = total_tasks
    <3>1. ~ All
      BY <1>3, <1>5, <1>6, <2>8
    <3>2. ~ synthCount > 0 /\ Joining = {}
      BY <1>7, <3>1
    <3>3. Joining' \subseteq {} \cup {j}
      BY <1>13, <3>2 DEF IncrementCompletedTasks, Joining, TypeOK
    <3>4. J' <= 1
      <4>1. {} \in SUBSET Job /\ Cardinality({}) = 0
        BY FS_EmptySet
      <4>2. Cardinality(Joining') <= 0 + 1
        BY <1>1, <3>3, <4>1, JobsAreFinite, Counting
      <4>3. QED
        BY <4>2 DEF J
    <3>5. synthCount' = 0
      BY <1>3, <2>1, <3>2
    <3>6. synthCount' + J' <= 1
      BY <1>2, <3>4, <3>5, OneShare
    <3>7. Inserted' # {} /\ All'
      BY <2>1, <2>2, <2>3, <2>7, <2>8
    <3>8. QED
      BY <1>8, <2>3, <2>5, <3>6, <3>7
  <2>9. CASE completed_tasks + 1 # total_tasks
    <3>1. Joining' \subseteq Joining
      BY <1>13, <2>9 DEF IncrementCompletedTasks, Joining, TypeOK
    <3>2. J' <= J
      BY <1>1, <3>1, JobsAreFinite, Counting DEF J
    <3>3. synthCount' + J' <= 1
      BY <1>2, <1>3, <1>6, <2>1, <3>2, Shares
    <3>4. synthCount' > 0 \/ Joining' # {} => Inserted' # {} /\ All'
      BY <1>7, <2>1, <2>2, <3>1
    <3>5. QED
      BY <1>8, <2>3, <2>5, <3>3, <3>4
  <2>10. QED
    BY <2>8, <2>9
<1>14. ASSUME NEW j \in Job, InsertSynthesize(j) PROVE JoinedOnce'
  <2>1. /\ synthCount' = synthCount + 1
        /\ UNCHANGED <<planAttempt, total_tasks, completed_tasks, respondJobs>>
    BY <1>14 DEF InsertSynthesize
  <2>2. UNCHANGED Counted
    BY <2>1, <1>3, JobSets DEF IncrementCompletedTasks
  <2>3. j \in Joining /\ Joining' \subseteq Joining \ {j}
    BY <1>14 DEF InsertSynthesize, Joining, TypeOK
  <2>4. J' + 1 <= J
    BY <1>1, <2>3, JobsAreFinite, Counting DEF J
  <2>5. synthCount' + J' <= 1
    <3>1. synthCount + J <= 1
      BY <1>6
    <3>2. (synthCount + 1) + J' <= 1
      BY <1>2, <1>3, <2>4, <3>1, Shares
    <3>3. QED
      BY <2>1, <3>2
  <2>6. synthCount + 1 \in Synth
    <3>1. synthCount' \in Nat
      BY <1>3, <2>1
    <3>2. synthCount' <= 1
      BY <1>2, <2>5, <3>1, OneShare
    <3>3. QED
      BY <1>3, <2>1, <3>1, <3>2 DEF Synth
  <2>7. MayRespond' \subseteq MayRespond \cup {synthCount + 1}
    BY <1>14, <2>6 DEF InsertSynthesize, MayRespond, TypeOK
  <2>8. R' <= R + 1
    BY <1>1, <2>6, <2>7, JobsAreFinite, Counting DEF R
  <2>9. respondJobs' + R' <= synthCount'
    BY <1>2, <1>3, <1>6, <2>1, <2>8, Shares
  <2>10. Inserted' # {} /\ All'
    BY <1>7, <1>10, <2>1, <2>2, <2>3
  <2>11. completed_tasks' = Cardinality(Counted')
    BY <1>6, <2>1, <2>2
  <2>12. QED
    BY <1>8, <2>5, <2>9, <2>10, <2>11
<1>15. ASSUME NEW s \in Synth,
              \/ SynthStart(s) \/ SynthRead(s) \/ SynthFails(s) \/ SynthSave(s)
              \/ SynthFinish(s) \/ SynthFault(s)
       PROVE  JoinedOnce'
  <2>1. UNCHANGED <<planVars, jobVars, total_tasks, completed_tasks, synthCount, respondJobs>>
    BY <1>15 DEF SynthStart, SynthRead, SynthFails, SynthSave, SynthFinish, SynthFault
  <2>2. UNCHANGED Counted /\ UNCHANGED Joining
    BY <2>1 DEF Counted, Joining
  <2>3. CASE SynthFault(s)
    <3>1. synthPc[s] \in {"read", "thread", "respond"}
      BY <2>3 DEF SynthFault, SynthInv, TypeOK, SynthPcs
    <3>2. MayRespond' \subseteq MayRespond
      BY <2>3, <3>1 DEF SynthFault, MayRespond, TypeOK
    <3>3. QED
      BY <1>9, <1>10, <2>1, <2>2, <3>2
  <2>4. CASE ~ SynthFault(s)
    <3>1. MayRespond' \subseteq MayRespond
      BY <1>15, <2>4 DEF SynthStart, SynthRead, SynthFails, SynthSave, SynthFinish,
           MayRespond, TypeOK
    <3>2. QED
      BY <1>9, <1>10, <2>1, <2>2, <3>1
  <2>5. QED
    BY <2>3, <2>4
<1>16. ASSUME NEW s \in Synth, InsertRespond(s) PROVE JoinedOnce'
  <2>1. /\ respondJobs' = respondJobs + 1
        /\ UNCHANGED <<planAttempt, jobPc, jobState, total_tasks, completed_tasks, synthCount>>
    BY <1>16 DEF InsertRespond
  <2>2. UNCHANGED Counted /\ UNCHANGED Joining
    BY <2>1 DEF Counted, Joining
  <2>3. s \in MayRespond /\ MayRespond' \subseteq MayRespond \ {s}
    BY <1>16 DEF InsertRespond, MayRespond, TypeOK, SynthInv
  <2>4. R' + 1 <= R
    BY <1>1, <2>3, JobsAreFinite, Counting DEF R
  <2>5. respondJobs' + R' <= synthCount'
    BY <1>2, <1>3, <1>6, <2>1, <2>4, Shares
  <2>6. synthCount' + J' <= 1
    BY <1>6, <2>1, <2>2 DEF J
  <2>7. synthCount' > 0 \/ Joining' # {} => Inserted' # {} /\ All'
    BY <1>7, <1>10, <2>1, <2>2
  <2>8. completed_tasks' = Cardinality(Counted')
    BY <1>6, <2>1, <2>2
  <2>9. QED
    BY <1>8, <2>5, <2>6, <2>7, <2>8
<1>17. CASE UNCHANGED vars
  <2>1. /\ UNCHANGED <<Counted, completed_tasks, synthCount, respondJobs>>
        /\ UNCHANGED <<planAttempt, total_tasks>>
        /\ Joining' \subseteq Joining /\ MayRespond' \subseteq MayRespond
    BY <1>17 DEF vars, Counted, Joining, MayRespond
  <2>2. QED
    BY <1>9, <1>10, <2>1
<1>18. QED
  BY <1>11, <1>12, <1>13, <1>14, <1>15, <1>16, <1>17 DEF Next, ExecuteWork, SynthWork
(* A synthesize job is there when every task was counted, and a counted    *)
(* task has its output.                                                    *)
LEMMA StepSees ==
  /\ Basics /\ OnePlan /\ Told /\ JoinedOnce /\ JoinSeesAll
  /\ [Next]_vars /\ lateFaults = 0 /\ lateFaults' = 0
  => JoinSeesAll'
<1> SUFFICES ASSUME Basics, OnePlan, Told, JoinedOnce, JoinSeesAll, [Next]_vars,
                    lateFaults = 0, lateFaults' = 0
             PROVE  JoinSeesAll'
  OBVIOUS
<1> TypeOK /\ PlanInv /\ JobInv /\ SynthInv
  BY DEF Basics
<1> USE FanOutAssumption DEF planVars, jobVars, synthVars, rowVars, outVars, faultVars,
      AfterError
<1>1. ASSUME UNCHANGED <<seen, total_tasks>> PROVE JoinSeesAll'
  BY <1>1 DEF JoinSeesAll
<1>2. CASE SetTotalTasks
  <2>1. Inserted = {}
    BY <1>2 DEF SetTotalTasks, OnePlan, MayPlan
  <2>2. ~ synthCount > 0 /\ synthCount \in Nat
    BY <2>1 DEF JoinedOnce, TypeOK
  <2>3. \A s \in Synth : seen[s] = {}
    BY <2>2 DEF SynthInv, Synth
  <2>4. seen' = seen
    BY <1>2 DEF SetTotalTasks
  <2>5. QED
    BY <2>3, <2>4 DEF JoinSeesAll
<1>3. CASE \/ PlanStart \/ Decompose \/ DecomposeFails \/ InsertProcess \/ InsertExecute
           \/ PlanFinish \/ PlanFault
  <2>1. UNCHANGED <<seen, total_tasks>>
    BY <1>3 DEF PlanStart, Decompose, DecomposeFails, InsertProcess, InsertExecute,
         PlanFinish, PlanFault
  <2>2. QED
    BY <1>1, <2>1
<1>4. ASSUME NEW j \in Job,
             ExecuteWork(j) \/ StartFault(j) \/ ExecuteFault(j) \/ DiscardExecute(j)
      PROVE  JoinSeesAll'
  <2>1. UNCHANGED <<seen, total_tasks>>
    BY <1>4 DEF ExecuteWork, ExecuteStart, StartFault, TaskRetries, UpdateStep,
       SaveOutput,
         IncrementCompletedTasks, InsertSynthesize, SkipAsDuplicate, ExecuteFinish,
         ExecuteFault, DiscardExecute
  <2>2. QED
    BY <1>1, <2>1
<1>5. ASSUME NEW s \in Synth, SynthRead(s) PROVE JoinSeesAll'
  <2>1. /\ seen' = [seen EXCEPT ![s] = {o[1] : o \in outputs}]
        /\ total_tasks' = total_tasks
    BY <1>5 DEF SynthRead
  <2>2. synthCount > 0
    <3>1. s \in Nat /\ s >= 1 /\ synthCount \in Nat
      BY DEF Synth, TypeOK
    <3>2. ~ s > synthCount
      BY <1>5 DEF SynthRead, SynthInv
    <3>3. QED
      BY <3>1, <3>2
  <2>3. \A t \in 1 .. total_tasks : <<planAttempt, t>> \in Counted
    BY <2>2 DEF JoinedOnce
  <2>4. \A i \in Inserted : i[2] \in 1 .. total_tasks
    BY JobsOfOnePlan
  <2>5. {o[1] : o \in outputs} = 1 .. total_tasks
    <3>1. ASSUME NEW t \in 1 .. total_tasks PROVE \E o \in outputs : o[1] = t
      <4>1. PICK i \in Counted : i = <<planAttempt, t>>
        BY <2>3
      <4>2. i \in Job /\ i[2] = t
        BY <4>1 DEF Counted
      <4>3. <<i[2], IF failed[i] THEN "error" ELSE "result">> \in outputs
        BY <4>2 DEF Told
      <4>4. QED
        BY <4>2, <4>3
    <3>2. ASSUME NEW o \in outputs PROVE o[1] \in 1 .. total_tasks
      BY <2>4 DEF Told
    <3>3. QED
      BY <3>1, <3>2
  <2>6. QED
    BY <2>1, <2>5 DEF JoinSeesAll, TypeOK
<1>6. ASSUME NEW s \in Synth,
             \/ SynthStart(s) \/ SynthFails(s) \/ SynthSave(s) \/ InsertRespond(s)
             \/ SynthFinish(s) \/ SynthFault(s)
      PROVE  JoinSeesAll'
  <2>1. UNCHANGED <<seen, total_tasks>>
    BY <1>6 DEF SynthStart, SynthFails, SynthSave, InsertRespond, SynthFinish, SynthFault
  <2>2. QED
    BY <1>1, <2>1
<1>7. CASE UNCHANGED vars
  BY <1>1, <1>7 DEF vars
<1>8. QED
  BY <1>2, <1>3, <1>4, <1>5, <1>6, <1>7 DEF Next, PlanWork, SynthWork

(* Every step preserves the inductive invariant.                           *)
LEMMA StepIInv == IInv /\ [Next]_vars => IInv'
<1> SUFFICES ASSUME IInv, [Next]_vars PROVE IInv'
  OBVIOUS
<1>1. Basics /\ JoinInv /\ AnswerInv /\ OnceInv
  BY DEF IInv, Basics
<1>2. Basics' /\ JoinInv' /\ AnswerInv'
  BY <1>1, StepBasics, StepJoin, StepAnswer
<1>3. OnceInv'
  <2>1. SUFFICES ASSUME lateFaults' = 0
                 PROVE  OnePlan' /\ Told' /\ JoinedOnce' /\ JoinSeesAll'
    BY DEF OnceInv
  <2>2. lateFaults = 0
    BY <1>1, <2>1, LateStays DEF Basics
  <2>3. OnePlan /\ Told /\ JoinedOnce /\ JoinSeesAll
    BY <1>1, <2>2 DEF OnceInv
  <2>4. QED
    BY <1>1, <2>1, <2>2, <2>3, StepOnePlan, StepTold, StepJoined, StepSees
<1>4. QED
  BY <1>2, <1>3 DEF IInv, Basics

-----------------------------------------------------------------------------
(* The inductive invariant holds, whatever River does first.               *)
LEMMA Invariance == Spec => []IInv
<1>1. QED
  BY InitIInv, StepIInv, PTL DEF Spec

(* No job is started more often than its attempts allow, no more           *)
(* synthesize jobs are inserted than there are attempts of the plan, and   *)
(* the rows stay within their columns.                                     *)
THEOREM TypeCorrect == Spec => []TypeOK
<1>1. IInv => TypeOK
  BY DEF IInv
<1>2. QED
  BY <1>1, Invariance, PTL

(* A user gets one answer: PlanWorker, ExecuteWorker and SynthesizeWorker  *)
(* give a second one, or save the exchange twice, only for an attempt that *)
(* was lost, and there is one synthesize job at most for each              *)
(* SetTotalTasks.                                                          *)
THEOREM AnswersHaveACause == Spec => []AnswersExplained
<1>1. ASSUME IInv PROVE AnswersExplained
  <2> TypeOK /\ PlanInv /\ JobInv /\ JoinInv /\ AnswerInv /\ OnceInv
    BY <1>1 DEF IInv
  <2>1. /\ Cardinality(Joining) \in Nat /\ Cardinality(MayRespond) \in Nat
        /\ Cardinality(MaySave) \in Nat
    <3>1. Joining \in SUBSET Job /\ MayRespond \in SUBSET Synth /\ MaySave \in SUBSET Synth
      BY DEF Joining, MayRespond, MaySave
    <3>2. QED
      BY <3>1, JobsAreFinite, Counting
  <2>2. /\ synthCount \in Nat /\ totalSets \in Nat /\ faults \in Nat
        /\ processJobs \in Nat /\ respondJobs \in Nat /\ threadRows \in Nat
    BY DEF TypeOK
  <2>3. One(MayPlan) \in Nat
    BY DEF One
  <2>4. synthCount <= totalSets
    <3>1. synthCount + Cardinality(Joining) <= totalSets
      BY DEF JoinInv
    <3>2. QED
      BY <2>1, <2>2, <3>1, OneShare
  <2>5. \A a, r, m, p, f, c \in Nat : Paid(a + r, m, p, f, c) /\ c <= r => a <= 1 + f
    BY DEF Paid
  <2>6. processJobs + respondJobs <= 1 + faults
    <3>1. Paid((processJobs + respondJobs) + totalSets, Cardinality(MayRespond),
               One(MayPlan), faults, synthCount)
      BY DEF AnswerInv
    <3>2. processJobs + respondJobs \in Nat
      BY <2>2, Sums
    <3>3. QED
      BY <2>1, <2>2, <2>3, <2>4, <2>5, <3>1, <3>2
  <2>7. threadRows <= 1 + faults
    <3>1. Paid(threadRows + totalSets, Cardinality(MaySave), One(MayPlan), faults, synthCount)
      BY DEF AnswerInv
    <3>2. QED
      BY <2>1, <2>2, <2>3, <2>4, <2>5, <3>1
  <2>8. ASSUME lateFaults = 0 PROVE processJobs + respondJobs <= 1
    <3>1. OnePlan /\ JoinedOnce
      BY <2>8 DEF OnceInv
    <3>2. respondJobs <= synthCount
      <4>1. respondJobs + Cardinality(MayRespond) <= synthCount
        BY <3>1 DEF JoinedOnce
      <4>2. QED
        BY <2>1, <2>2, <4>1, OneShare
    <3>3. synthCount <= 1
      <4>1. synthCount + Cardinality(Joining) <= 1
        BY <3>1 DEF JoinedOnce
      <4>2. QED
        BY <2>1, <2>2, <4>1, OneShare
    <3>4. MayPlan \/ planState = "discarded" \/ planPc = "insert" \/ planPc = "finish"
            \/ planState = "completed"
      BY DEF MayPlan, PlanInv, TypeOK, JobStates, PlanPcs
    <3>5. processJobs = 0 \/ (processJobs = 1 /\ Inserted = {})
      BY <3>1, <3>4 DEF OnePlan
    <3>6. CASE processJobs = 0
      BY <2>2, <3>2, <3>3, <3>6
    <3>7. CASE processJobs = 1 /\ Inserted = {}
      <4>1. ~ synthCount > 0
        BY <3>1, <3>7 DEF JoinedOnce
      <4>2. respondJobs = 0
        BY <2>2, <3>2, <4>1
      <4>3. QED
        BY <3>7, <4>2
    <3>8. QED
      BY <3>5, <3>6, <3>7
  <2>9. QED
    BY <2>4, <2>6, <2>7, <2>8 DEF AnswersExplained, Answers
<1>2. QED
  BY <1>1, Invariance, PTL

(* Until an attempt is lost after its last write, completed_tasks counts   *)
(* every task that ended once, its step row and its output tell how it     *)
(* ended, and the synthesize job reads an output of every task.            *)
THEOREM TheJoinIsExact == Spec => []JoinIsExact
<1>1. ASSUME IInv PROVE JoinIsExact
  <2> TypeOK /\ PlanInv /\ JobInv /\ OnceInv
    BY <1>1 DEF IInv
  <2>1. SUFFICES ASSUME lateFaults = 0 PROVE CountIsExact /\ StepsTellOutcome /\ JoinSeesAll
    BY DEF JoinIsExact
  <2>2. OnePlan /\ Told /\ JoinedOnce /\ JoinSeesAll
    BY <2>1 DEF OnceInv
  <2>3. \A i \in Counted : i[2] \in 1 .. total_tasks /\ i = <<planAttempt, i[2]>>
    BY <2>2, JobsOfOnePlan
  <2>4. Cardinality(Counted) <= total_tasks
    <3>1. total_tasks \in Nat
      BY DEF TypeOK
    <3>2. QED
      BY <2>3, <3>1, TasksOfAttempt
  <2>5. CountIsExact
    BY <2>2, <2>4 DEF CountIsExact, JoinedOnce
  <2>6. StepsTellOutcome
    BY <2>2 DEF StepsTellOutcome, Told, Counted
  <2>7. QED
    BY <2>2, <2>5, <2>6
<1>2. QED
  BY <1>1, Invariance, PTL
-----------------------------------------------------------------------------
(* The workflow does what FanIn promises.  The insertion of the first      *)
(* execute job splits the message, an increment ends a task, the insertion *)
(* of the synthesize job joins; every other step changes nothing that      *)
(* FanIn speaks of, until an attempt is lost late.                         *)

(* Steps that leave alone what FanIn speaks of.                            *)
LEMMA FanInStutters ==
  UNCHANGED <<Inserted, Counted, synthCount, lateFaults>>
    /\ (Inserted # {} => UNCHANGED total_tasks)
    => UNCHANGED F!vars
<1> SUFFICES ASSUME UNCHANGED <<Inserted, Counted, synthCount, lateFaults>>,
                    Inserted # {} => UNCHANGED total_tasks
             PROVE  UNCHANGED F!vars
  OBVIOUS
<1>1. UNCHANGED (IF Inserted = {} THEN {} ELSE 1 .. total_tasks)
  OBVIOUS
<1>2. UNCHANGED CountedTask
  BY DEF CountedTask
<1>3. UNCHANGED (synthCount > 0) /\ UNCHANGED (lateFaults > 0)
  OBVIOUS
<1>4. QED
  BY <1>1, <1>2, <1>3 DEF F!vars

(* A workflow starts before its message is split.                          *)
LEMMA FanInStarts == Init => F!Init
<1> SUFFICES ASSUME Init PROVE F!Init
  OBVIOUS
<1>1. Inserted = {} /\ Counted = {}
  BY DEF Init, Inserted, Counted
<1>2. CountedTask = {}
  BY <1>1 DEF CountedTask
<1>3. (synthCount > 0) = FALSE /\ (lateFaults > 0) = FALSE
  BY DEF Init
<1>4. QED
  BY <1>1, <1>2, <1>3 DEF F!Init

(* An attempt that is lost late opens the task it had counted again.       *)
LEMMA LapsingStep ==
  Basics /\ [Next]_vars /\ lateFaults = 0 /\ lateFaults' # 0 => F!Lapse
<1> SUFFICES ASSUME Basics, [Next]_vars, lateFaults = 0, lateFaults' # 0 PROVE F!Lapse
  OBVIOUS
<1> TypeOK /\ PlanInv /\ JobInv
  BY DEF Basics
<1> USE DEF planVars, jobVars, synthVars, rowVars, outVars, faultVars, AfterError
<1>1. PlanFault \/ (\E j \in Job : ExecuteFault(j)) \/ (\E s \in Synth : SynthFault(s))
  BY DEF Next, PlanWork, ExecuteWork, SynthWork, vars,
     PlanStart, Decompose, DecomposeFails, InsertProcess, SetTotalTasks, InsertExecute,
     PlanFinish, ExecuteStart, StartFault, TaskRetries, UpdateStep,
     SaveOutput, IncrementCompletedTasks, InsertSynthesize, SkipAsDuplicate,
     ExecuteFinish, DiscardExecute, SynthStart, SynthRead, SynthFails,
     SynthSave, InsertRespond, SynthFinish
<1>2. UNCHANGED <<total_tasks, synthCount>> /\ lateFaults' = 1
  BY <1>1 DEF PlanFault, ExecuteFault, SynthFault
<1>3. UNCHANGED Inserted /\ Counted' \subseteq Counted
  <2>1. CASE PlanFault
    BY <2>1 DEF PlanFault, Inserted, Counted
  <2>2. ASSUME NEW j \in Job, ExecuteFault(j) PROVE UNCHANGED Inserted /\ Counted' \subseteq Counted
    BY <2>2 DEF ExecuteFault, Inserted, Counted, TypeOK
  <2>3. ASSUME NEW s \in Synth, SynthFault(s) PROVE UNCHANGED Inserted /\ Counted' \subseteq Counted
    BY <2>3 DEF SynthFault, Inserted, Counted
  <2>4. QED
    BY <1>1, <2>1, <2>2, <2>3
<1>4. CountedTask' \subseteq CountedTask
  BY <1>3 DEF CountedTask
<1>5. ~ (lateFaults > 0) /\ (lateFaults > 0)'
  BY <1>2
<1>6. UNCHANGED (IF Inserted = {} THEN {} ELSE 1 .. total_tasks) /\ UNCHANGED (synthCount > 0)
  BY <1>2, <1>3
<1>7. QED
  BY <1>4, <1>5, <1>6 DEF F!Lapse

(* Until then, every step is one of FanIn's or changes nothing of it.      *)
LEMMA QuietStep ==
  Basics /\ OnePlan /\ JoinedOnce /\ [Next]_vars /\ lateFaults = 0 /\ lateFaults' = 0
    => [F!Next]_(F!vars)
<1> SUFFICES ASSUME Basics, OnePlan, JoinedOnce, [Next]_vars, lateFaults = 0, lateFaults' = 0
             PROVE  F!Next \/ UNCHANGED F!vars
  OBVIOUS
<1> TypeOK /\ PlanInv /\ JobInv /\ SynthInv
  BY DEF Basics
<1> USE FanOutAssumption DEF planVars, jobVars, synthVars, rowVars, outVars, faultVars,
      AfterError
<1>1. /\ \A i \in Inserted : i[2] \in 1 .. total_tasks /\ i = <<planAttempt, i[2]>>
      /\ Counted \subseteq Inserted /\ Joining \subseteq Counted /\ Inserted \subseteq Job
      /\ Inserted # {} => ~ MayPlan
  BY JobsOfOnePlan DEF Inserted
<1>2. ~ (lateFaults > 0) /\ UNCHANGED (lateFaults > 0)
  OBVIOUS
<1>3. CASE InsertExecute
  <2>1. /\ UNCHANGED <<Counted, total_tasks, synthCount>> /\ total_tasks \in Task
        /\ planPc = "insert"
    <3>1. UNCHANGED Counted
      BY <1>3, JobSets DEF InsertExecute, IncrementCompletedTasks, TypeOK
    <3>2. QED
      BY <1>3, <3>1 DEF InsertExecute, OnePlan, PlanInv
  <2>2. CASE Inserted # {}
    <3>1. Inserted' # {}
      BY <1>3, <2>2 DEF InsertExecute, Inserted, TypeOK
    <3>2. UNCHANGED (IF Inserted = {} THEN {} ELSE 1 .. total_tasks)
      BY <2>1, <2>2, <3>1
    <3>3. UNCHANGED CountedTask /\ UNCHANGED (synthCount > 0)
      BY <2>1 DEF CountedTask
    <3>4. QED
      BY <1>2, <3>2, <3>3 DEF F!vars
  <2>3. CASE Inserted = {}
    <3>1. Inserted' # {}
      <4>1. next \in Task /\ planAttempt \in Attempt
        BY <1>3, <2>1 DEF InsertExecute, PlanInv, TypeOK, Task, Attempt
      <4>2. <<planAttempt, next>> \in Job
        BY <4>1 DEF Job
      <4>3. QED
        BY <1>3, <4>2 DEF InsertExecute, Inserted, TypeOK
    <3>2. 1 .. total_tasks \in (SUBSET Task) \ {{}}
      BY <2>1 DEF Task
    <3>3. UNCHANGED CountedTask /\ UNCHANGED (synthCount > 0)
      BY <2>1 DEF CountedTask
    <3>4. F!Split
      BY <1>2, <2>1, <2>3, <3>1, <3>2, <3>3 DEF F!Split
    <3>5. QED
      BY <3>4 DEF F!Next
  <2>4. QED
    BY <2>2, <2>3
<1>4. ASSUME NEW j \in Job, IncrementCompletedTasks(j) PROVE F!Next
  <2>1. UNCHANGED <<Inserted, total_tasks, synthCount>>
    BY <1>4 DEF IncrementCompletedTasks, Inserted
  <2>2. j \notin Counted /\ Counted' = Counted \cup {j} /\ j \in Inserted
    BY <1>4 DEF IncrementCompletedTasks, Counted, Inserted, JobInv, TypeOK
  <2>3. j[2] \in 1 .. total_tasks /\ j[2] \in Task /\ j[2] \notin CountedTask
    BY <1>1, <2>2, JobsAreFinite DEF CountedTask
  <2>4. CountedTask' = CountedTask \cup {j[2]}
    BY <2>2 DEF CountedTask
  <2>5. UNCHANGED (IF Inserted = {} THEN {} ELSE 1 .. total_tasks) /\ UNCHANGED (synthCount > 0)
    BY <2>1
  <2>6. F!Finish(j[2])
    BY <1>2, <2>2, <2>3, <2>4, <2>5 DEF F!Finish
  <2>7. QED
    BY <2>3, <2>6 DEF F!Next
<1>5. ASSUME NEW j \in Job, InsertSynthesize(j) PROVE F!Next
  <2>1. UNCHANGED <<jobState, total_tasks>> /\ synthCount' = synthCount + 1 /\ j \in Joining
    BY <1>5 DEF InsertSynthesize, Joining
  <2>2. UNCHANGED Inserted /\ UNCHANGED Counted
    BY <1>5, <2>1 DEF Inserted, InsertSynthesize, Counted, TypeOK, JobInv
  <2>3. (\A t \in 1 .. total_tasks : <<planAttempt, t>> \in Counted) /\ Inserted # {}
    BY <2>1 DEF JoinedOnce
  <2>4. CountedTask = 1 .. total_tasks
    <3>1. ASSUME NEW t \in 1 .. total_tasks PROVE \E i \in Counted : i[2] = t
      BY <2>3
    <3>2. QED
      BY <1>1, <3>1 DEF CountedTask
  <2>5. 1 .. total_tasks # {}
    BY <1>1, <2>3
  <2>6. synthCount = 0
    <3>1. Joining \in SUBSET Job /\ {} \in SUBSET Job
      BY DEF Joining
    <3>2. Cardinality({}) + 1 <= Cardinality(Joining) /\ Cardinality(Joining) \in Nat
      BY <2>1, <3>1, JobsAreFinite, Counting
    <3>3. Cardinality({}) = 0
      BY FS_EmptySet
    <3>4. synthCount + Cardinality(Joining) <= 1 /\ synthCount \in Nat
      BY DEF JoinedOnce, TypeOK
    <3>5. QED
      BY <3>2, <3>3, <3>4
  <2>7. ~ (synthCount > 0) /\ (synthCount > 0)' = TRUE
    BY <2>1, <2>6
  <2>8. UNCHANGED (IF Inserted = {} THEN {} ELSE 1 .. total_tasks) /\ UNCHANGED CountedTask
    BY <2>1, <2>2 DEF CountedTask
  <2>9. F!Join
    BY <1>2, <2>3, <2>4, <2>5, <2>7, <2>8 DEF F!Join
  <2>10. QED
    BY <2>9 DEF F!Next
<1>6. CASE PlanWork \/ PlanFault
  <2>1. UNCHANGED synthCount /\ (UNCHANGED total_tasks \/ MayPlan) /\ UNCHANGED completed_tasks
    BY <1>6 DEF PlanWork, PlanStart, Decompose, DecomposeFails, InsertProcess,
         SetTotalTasks, InsertExecute, PlanFinish, PlanFault, MayPlan
  <2>2. UNCHANGED Counted
    BY <2>1, JobSets DEF IncrementCompletedTasks, TypeOK
  <2>3. QED
    BY <1>1, <1>3, <2>1, <2>2, JobSets, FanInStutters
<1>7. ASSUME NEW j \in Job,
             \/ ExecuteStart(j) \/ StartFault(j) \/ TaskRetries(j) \/ UpdateStep(j)
             \/ SaveOutput(j) \/ SkipAsDuplicate(j) \/ ExecuteFinish(j) \/ ExecuteFault(j)
             \/ DiscardExecute(j)
      PROVE  F!Next \/ UNCHANGED F!vars
  <2>1. UNCHANGED <<synthCount, total_tasks, completed_tasks>>
    BY <1>7 DEF ExecuteStart, StartFault, TaskRetries, UpdateStep, SaveOutput,
         SkipAsDuplicate, ExecuteFinish, ExecuteFault, DiscardExecute
  <2>2. UNCHANGED Counted
    BY <2>1, JobSets DEF IncrementCompletedTasks, TypeOK
  <2>3. QED
    BY <1>3, <2>1, <2>2, JobSets, FanInStutters
<1>8. ASSUME NEW s \in Synth, SynthWork(s) \/ SynthFault(s) PROVE UNCHANGED F!vars
  <2>1. UNCHANGED <<jobState, jobPc, synthCount, total_tasks>>
    BY <1>8 DEF SynthWork, SynthStart, SynthRead, SynthFails, SynthSave, InsertRespond,
         SynthFinish, SynthFault
  <2>2. QED
    BY <2>1, FanInStutters DEF Inserted, Counted
<1>9. CASE UNCHANGED vars
  BY <1>9, FanInStutters DEF vars, Inserted, Counted
<1>10. QED
  BY <1>4, <1>5, <1>6, <1>7, <1>8, <1>9 DEF Next, ExecuteWork

(* The safety part of ImplementsFanIn.                                     *)
THEOREM WorkflowsDoWhatFanInDoes == Spec => F!Init /\ [][F!Next]_(F!vars)
<1>1. IInv /\ [Next]_vars => [F!Next]_(F!vars)
  <2> SUFFICES ASSUME IInv, [Next]_vars PROVE [F!Next]_(F!vars)
    OBVIOUS
  <2> Basics /\ OnceInv
    BY DEF IInv, Basics
  <2>1. lateFaults \in Nat /\ lateFaults' \in Nat
    <3>1. TypeOK'
      BY StepIInv DEF IInv
    <3>2. lateFaults' \in Nat
      BY <3>1 DEF TypeOK
    <3>3. QED
      BY <3>2 DEF Basics, TypeOK
  <2>2. CASE lateFaults = 0 /\ lateFaults' = 0
    BY <2>2, QuietStep DEF OnceInv
  <2>3. CASE lateFaults = 0 /\ lateFaults' # 0
    BY <2>3, LapsingStep DEF F!Next
  <2>4. CASE lateFaults # 0
    <3>1. lateFaults' # 0
      BY <2>4, LateStays DEF Basics
    <3>2. (lateFaults > 0) /\ (lateFaults > 0)'
      BY <2>1, <2>4, <3>1
    <3>3. QED
      BY <3>2 DEF F!Next, F!AfterLapse
  <2>5. QED
    BY <2>2, <2>3, <2>4
<1>2. QED
  BY <1>1, FanInStarts, Invariance, PTL DEF Spec
=============================================================================
