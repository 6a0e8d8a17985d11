--------------------------- MODULE ApprovalProofs ---------------------------
(***************************************************************************)
(* What the compare-and-set on the conversation's status guarantees for    *)
(* every set of workflows, every number of clicks, all plan sizes, every   *)
(* attempt limit and every number of faults.                               *)
(*                                                                         *)
(* The argument: only Pause makes the status awaiting_approval and counts  *)
(* a question, only Approve and Reject take it away and count an answer,   *)
(* and each of them tests the status in the statement that changes it; an  *)
(* execute job is inserted by a handler that won that test for its own     *)
(* workflow, or by a plan whose channel config could not be read.          *)
(***************************************************************************)
EXTENDS Approval, TLAPS

(* A job that River will start has an attempt left.                        *)
AttemptLeft ==
  \A w \in Workflow :
    /\ planState[w] = "available" => planAttempt[w] < JobMaxAttempts
    /\ respondState[w] = "available" => respondAttempt[w] < JobMaxAttempts
    /\ respondState[w] = "none" => respondAttempt[w] = 0

(* A plan attempt past the bypass has tasks in hand, and it inserts them   *)
(* itself only when it did not learn that the channel wants to be asked.   *)
PlanInHand ==
  \A w \in Workflow :
    /\ planPc[w] = "save" => tasks[w] # 0
    /\ planPc[w] = "insert" => w \in unasked

(* A handler on its way to insert tasks has won the test for its workflow. *)
ClickInHand ==
  \A c \in Click :
    clickPc[c] \in {"turn", "insert"} =>
      clickOn[c] \in approved /\ clickLeft[c] # 0

(* The inductive invariant: RunsOnlyWhenApproved is not inductive without  *)
(* what the plan attempts and the handlers hold in memory.                 *)
IInv == /\ TypeOK
        /\ AttemptLeft
        /\ PlanInHand
        /\ ClickInHand
        /\ OneQuestionAtATime
        /\ RunsOnlyWhenApproved

-----------------------------------------------------------------------------
(* The sizes of plans are numbers.                                         *)
LEMMA PlanSizesAreNumbers == \A n \in PlanSizes \cup {0} : n \in Nat
BY ApprovalAssumption

(* The initial states have the invariant.                                  *)
LEMMA InitIInv == Init => IInv
<1> SUFFICES ASSUME Init PROVE IInv
  OBVIOUS
<1> USE ApprovalAssumption
<1>1. TypeOK
  BY DEF Init, TypeOK, JobStates, PlanPcs, ClickPcs, RespondPcs
<1>2. AttemptLeft /\ PlanInHand /\ ClickInHand
  BY DEF Init, AttemptLeft, PlanInHand, ClickInHand
<1>3. OneQuestionAtATime /\ RunsOnlyWhenApproved
  BY DEF Init, OneQuestionAtATime, RunsOnlyWhenApproved
<1>4. QED
  BY <1>1, <1>2, <1>3 DEF IInv

-----------------------------------------------------------------------------
(* Every step preserves the inductive invariant.                           *)
LEMMA StepIInv == IInv /\ [Next]_vars => IInv'
<1> SUFFICES ASSUME IInv, [Next]_vars PROVE IInv'
  OBVIOUS
<1> TypeOK /\ AttemptLeft /\ PlanInHand /\ ClickInHand /\ OneQuestionAtATime
      /\ RunsOnlyWhenApproved
  BY DEF IInv
<1> USE ApprovalAssumption DEF JobStates, PlanPcs, ClickPcs, RespondPcs,
      planVars, clickVars, respondVars, jobVars, history
<1>1. ASSUME NEW w \in Workflow, PlanStart(w) PROVE IInv'
  <2>1. TypeOK'
    BY <1>1 DEF PlanStart, TypeOK, AttemptLeft
  <2>2. AttemptLeft'
    BY <1>1 DEF PlanStart, TypeOK, AttemptLeft
  <2>3. PlanInHand'
    BY <1>1 DEF PlanStart, TypeOK, PlanInHand
  <2>4. ClickInHand' /\ OneQuestionAtATime' /\ RunsOnlyWhenApproved'
    BY <1>1 DEF PlanStart, ClickInHand, OneQuestionAtATime,
      RunsOnlyWhenApproved
  <2>5. QED
    BY <2>1, <2>2, <2>3, <2>4 DEF IInv
<1>2. ASSUME NEW w \in Workflow, InsertProcess(w) PROVE IInv'
  <2>1. TypeOK'
    BY <1>2 DEF InsertProcess, PlanEnds, TypeOK
  <2>2. AttemptLeft'
    BY <1>2 DEF InsertProcess, PlanEnds, TypeOK, AttemptLeft
  <2>3. PlanInHand'
    BY <1>2 DEF InsertProcess, PlanEnds, TypeOK, PlanInHand
  <2>4. ClickInHand' /\ OneQuestionAtATime' /\ RunsOnlyWhenApproved'
    BY <1>2 DEF InsertProcess, PlanEnds, ClickInHand, OneQuestionAtATime,
      RunsOnlyWhenApproved
  <2>5. QED
    BY <2>1, <2>2, <2>3, <2>4 DEF IInv
<1>3. ASSUME NEW w \in Workflow, SavePlan(w) PROVE IInv'
  <2>1. TypeOK'
    BY <1>3 DEF SavePlan, PlanGoesTo, TypeOK, PlanInHand
  <2>2. PlanInHand'
    BY <1>3 DEF SavePlan, PlanGoesTo, TypeOK, PlanInHand
  <2>3. /\ AttemptLeft' /\ ClickInHand'
       /\ OneQuestionAtATime' /\ RunsOnlyWhenApproved'
    BY <1>3 DEF SavePlan, PlanGoesTo, AttemptLeft, ClickInHand,
      OneQuestionAtATime, RunsOnlyWhenApproved
  <2>4. QED
    BY <2>1, <2>2, <2>3 DEF IInv
<1>4. ASSUME NEW w \in Workflow, SetTotalTasks(w) PROVE IInv'
  <2>1. TypeOK'
    BY <1>4 DEF SetTotalTasks, PlanGoesTo, TypeOK
  <2>2. PlanInHand'
    BY <1>4 DEF SetTotalTasks, PlanGoesTo, TypeOK, PlanInHand
  <2>3. /\ AttemptLeft' /\ ClickInHand'
       /\ OneQuestionAtATime' /\ RunsOnlyWhenApproved'
    BY <1>4 DEF SetTotalTasks, PlanGoesTo, AttemptLeft, ClickInHand,
      OneQuestionAtATime, RunsOnlyWhenApproved
  <2>4. QED
    BY <2>1, <2>2, <2>3 DEF IInv
<1>5. ASSUME NEW w \in Workflow, InsertUnasked(w) PROVE IInv'
  <2>1. TypeOK'
    <3>1. tasks[w] \in Nat
      <4>1. tasks[w] \in PlanSizes \cup {0}
        BY <1>5 DEF TypeOK
      <4>2. QED
        BY <4>1, PlanSizesAreNumbers
    <3>2. started' \in [Workflow -> Nat]
      BY <1>5, <3>1 DEF InsertUnasked, TypeOK
    <3>3. QED
      BY <1>5, <3>2 DEF InsertUnasked, PlanEnds, TypeOK
  <2>2. AttemptLeft'
    BY <1>5 DEF InsertUnasked, PlanEnds, TypeOK, AttemptLeft
  <2>3. PlanInHand'
    BY <1>5 DEF InsertUnasked, PlanEnds, TypeOK, PlanInHand
  <2>4. RunsOnlyWhenApproved'
    BY <1>5 DEF InsertUnasked, PlanEnds, TypeOK, RunsOnlyWhenApproved,
      PlanInHand
  <2>5. ClickInHand' /\ OneQuestionAtATime'
    BY <1>5 DEF InsertUnasked, PlanEnds, ClickInHand, OneQuestionAtATime
  <2>6. QED
    BY <2>1, <2>2, <2>3, <2>4, <2>5 DEF IInv
<1>6. ASSUME NEW w \in Workflow, LinkConversation(w) PROVE IInv'
  <2>1. TypeOK'
    BY <1>6 DEF LinkConversation, TypeOK
  <2>2. /\ AttemptLeft' /\ PlanInHand' /\ ClickInHand'
       /\ OneQuestionAtATime' /\ RunsOnlyWhenApproved'
    BY <1>6 DEF LinkConversation, AttemptLeft, PlanInHand, ClickInHand,
      OneQuestionAtATime, RunsOnlyWhenApproved
  <2>3. QED
    BY <2>1, <2>2 DEF IInv
<1>7. ASSUME NEW w \in Workflow, Pause(w) PROVE IInv'
  <2>1. TypeOK'
    BY <1>7 DEF Pause, PlanGoesTo, TransitionStatus, TypeOK
  <2>2. PlanInHand'
    BY <1>7 DEF Pause, PlanGoesTo, TransitionStatus, TypeOK, PlanInHand
  <2>3. OneQuestionAtATime'
    BY <1>7 DEF Pause, PlanGoesTo, TransitionStatus, TypeOK, OneQuestionAtATime
  <2>4. AttemptLeft' /\ ClickInHand' /\ RunsOnlyWhenApproved'
    BY <1>7 DEF Pause, PlanGoesTo, TransitionStatus, AttemptLeft, ClickInHand,
      RunsOnlyWhenApproved
  <2>5. QED
    BY <2>1, <2>2, <2>3, <2>4 DEF IInv
<1>8. ASSUME NEW w \in Workflow, PauseRefused(w) PROVE IInv'
  <2>1. TypeOK'
    BY <1>8 DEF PauseRefused, PlanEnds, AfterError, TypeOK
  <2>2. AttemptLeft'
    BY <1>8 DEF PauseRefused, PlanEnds, AfterError, TypeOK, AttemptLeft
  <2>3. PlanInHand'
    BY <1>8 DEF PauseRefused, PlanEnds, AfterError, TypeOK, PlanInHand
  <2>4. ClickInHand' /\ OneQuestionAtATime' /\ RunsOnlyWhenApproved'
    BY <1>8 DEF PauseRefused, PlanEnds, AfterError, ClickInHand,
      OneQuestionAtATime, RunsOnlyWhenApproved
  <2>5. QED
    BY <2>1, <2>2, <2>3, <2>4 DEF IInv
<1>9. ASSUME NEW w \in Workflow, EnqueueBlocks(w) PROVE IInv'
  <2>1. TypeOK'
    BY <1>9 DEF EnqueueBlocks, PlanGoesTo, TypeOK
  <2>2. PlanInHand'
    BY <1>9 DEF EnqueueBlocks, PlanGoesTo, TypeOK, PlanInHand
  <2>3. /\ AttemptLeft' /\ ClickInHand'
       /\ OneQuestionAtATime' /\ RunsOnlyWhenApproved'
    BY <1>9 DEF EnqueueBlocks, PlanGoesTo, AttemptLeft, ClickInHand,
      OneQuestionAtATime, RunsOnlyWhenApproved
  <2>4. QED
    BY <2>1, <2>2, <2>3 DEF IInv
<1>10. ASSUME NEW w \in Workflow, PlanFinish(w) PROVE IInv'
  <2>1. TypeOK'
    BY <1>10 DEF PlanFinish, PlanEnds, TypeOK
  <2>2. AttemptLeft'
    BY <1>10 DEF PlanFinish, PlanEnds, TypeOK, AttemptLeft
  <2>3. PlanInHand'
    BY <1>10 DEF PlanFinish, PlanEnds, TypeOK, PlanInHand
  <2>4. ClickInHand' /\ OneQuestionAtATime' /\ RunsOnlyWhenApproved'
    BY <1>10 DEF PlanFinish, PlanEnds, ClickInHand, OneQuestionAtATime,
      RunsOnlyWhenApproved
  <2>5. QED
    BY <2>1, <2>2, <2>3, <2>4 DEF IInv
<1>11. ASSUME NEW w \in Workflow, ExecuteDone(w) PROVE IInv'
  <2>1. TypeOK'
    BY <1>11 DEF ExecuteDone, TypeOK
  <2>2. AttemptLeft'
    BY <1>11 DEF ExecuteDone, TypeOK, AttemptLeft
  <2>3. /\ PlanInHand' /\ ClickInHand'
       /\ OneQuestionAtATime' /\ RunsOnlyWhenApproved'
    BY <1>11 DEF ExecuteDone, PlanInHand, ClickInHand, OneQuestionAtATime,
      RunsOnlyWhenApproved
  <2>4. QED
    BY <2>1, <2>2, <2>3 DEF IInv
<1>12. ASSUME NEW w \in Workflow, RespondStart(w) PROVE IInv'
  <2>1. TypeOK'
    BY <1>12 DEF RespondStart, TypeOK, AttemptLeft
  <2>2. AttemptLeft'
    BY <1>12 DEF RespondStart, TypeOK, AttemptLeft
  <2>3. /\ PlanInHand' /\ ClickInHand'
       /\ OneQuestionAtATime' /\ RunsOnlyWhenApproved'
    BY <1>12 DEF RespondStart, PlanInHand, ClickInHand, OneQuestionAtATime,
      RunsOnlyWhenApproved
  <2>4. QED
    BY <2>1, <2>2, <2>3 DEF IInv
<1>13. ASSUME NEW w \in Workflow, CompleteConversation(w) PROVE IInv'
  <2>1. TypeOK'
    BY <1>13 DEF CompleteConversation, TransitionStatus, TypeOK
  <2>2. OneQuestionAtATime'
    BY <1>13 DEF CompleteConversation, TransitionStatus, TypeOK,
      OneQuestionAtATime
  <2>3. AttemptLeft' /\ PlanInHand' /\ ClickInHand' /\ RunsOnlyWhenApproved'
    BY <1>13 DEF CompleteConversation, TransitionStatus, AttemptLeft,
      PlanInHand, ClickInHand, RunsOnlyWhenApproved
  <2>4. QED
    BY <2>1, <2>2, <2>3 DEF IInv
<1>14. ASSUME NEW w \in Workflow, RespondFinish(w) PROVE IInv'
  <2>1. TypeOK'
    BY <1>14 DEF RespondFinish, RespondEnds, TypeOK
  <2>2. AttemptLeft'
    BY <1>14 DEF RespondFinish, RespondEnds, TypeOK, AttemptLeft
  <2>3. /\ PlanInHand' /\ ClickInHand'
       /\ OneQuestionAtATime' /\ RunsOnlyWhenApproved'
    BY <1>14 DEF RespondFinish, RespondEnds, PlanInHand, ClickInHand,
      OneQuestionAtATime, RunsOnlyWhenApproved
  <2>4. QED
    BY <2>1, <2>2, <2>3 DEF IInv
<1>15. ASSUME NEW w \in Workflow, SetTotalTasksConfigUnread(w) PROVE IInv'
  <2>1. TypeOK'
    BY <1>15 DEF SetTotalTasksConfigUnread, PlanGoesTo, TypeOK
  <2>2. PlanInHand'
    BY <1>15 DEF SetTotalTasksConfigUnread, PlanGoesTo, TypeOK, PlanInHand
  <2>3. RunsOnlyWhenApproved'
    BY <1>15 DEF SetTotalTasksConfigUnread, PlanGoesTo, TypeOK,
      RunsOnlyWhenApproved
  <2>4. AttemptLeft' /\ ClickInHand' /\ OneQuestionAtATime'
    BY <1>15 DEF SetTotalTasksConfigUnread, PlanGoesTo, AttemptLeft,
      ClickInHand, OneQuestionAtATime
  <2>5. QED
    BY <2>1, <2>2, <2>3, <2>4 DEF IInv
<1>16. ASSUME NEW w \in Workflow, PlanFault(w) PROVE IInv'
  <2>1. TypeOK'
    BY <1>16 DEF PlanFault, PlanEnds, AfterError, TypeOK
  <2>2. AttemptLeft'
    BY <1>16 DEF PlanFault, PlanEnds, AfterError, TypeOK, AttemptLeft
  <2>3. PlanInHand'
    BY <1>16 DEF PlanFault, PlanEnds, AfterError, TypeOK, PlanInHand
  <2>4. ClickInHand' /\ OneQuestionAtATime' /\ RunsOnlyWhenApproved'
    BY <1>16 DEF PlanFault, PlanEnds, AfterError, ClickInHand,
      OneQuestionAtATime, RunsOnlyWhenApproved
  <2>5. QED
    BY <2>1, <2>2, <2>3, <2>4 DEF IInv
<1>17. ASSUME NEW w \in Workflow, RespondFault(w) PROVE IInv'
  <2>1. TypeOK' /\ AttemptLeft'
    <3>1. ASSUME respondState[w] = "available",
                 RespondEnds(w, respondAttempt[w] + 1,
                             AfterError(respondAttempt[w] + 1)),
                 faults < MaxFaults, faults' = faults + 1
          PROVE  TypeOK' /\ AttemptLeft'
      <4>1. respondAttempt[w] + 1 \in 0 .. JobMaxAttempts
        BY <3>1 DEF TypeOK, AttemptLeft
      <4>2. TypeOK'
        BY <3>1, <4>1 DEF RespondEnds, AfterError, TypeOK
      <4>3. AttemptLeft'
        BY <3>1, <4>1 DEF RespondEnds, AfterError, TypeOK, AttemptLeft
      <4>4. QED
        BY <4>2, <4>3
    <3>2. ASSUME respondState[w] = "running",
                 RespondEnds(w, respondAttempt[w], AfterError(respondAttempt[w])),
                 faults < MaxFaults, faults' = faults + 1
          PROVE  TypeOK' /\ AttemptLeft'
      BY <3>2 DEF RespondEnds, AfterError, TypeOK, AttemptLeft
    <3>3. QED
      BY <1>17, <3>1, <3>2 DEF RespondFault
  <2>2. /\ PlanInHand' /\ ClickInHand'
       /\ OneQuestionAtATime' /\ RunsOnlyWhenApproved'
    BY <1>17 DEF RespondFault, RespondEnds, AfterError, PlanInHand,
      ClickInHand, OneQuestionAtATime, RunsOnlyWhenApproved
  <2>3. QED
    BY <2>1, <2>2 DEF IInv
<1>18. ASSUME NEW c \in Click, AddTurn(c) PROVE IInv'
  <2>1. TypeOK'
    BY <1>18 DEF AddTurn, ClickGoesTo, TypeOK
  <2>2. ClickInHand'
    BY <1>18 DEF AddTurn, ClickGoesTo, TypeOK, ClickInHand
  <2>3. /\ AttemptLeft' /\ PlanInHand'
       /\ OneQuestionAtATime' /\ RunsOnlyWhenApproved'
    BY <1>18 DEF AddTurn, ClickGoesTo, AttemptLeft, PlanInHand,
      OneQuestionAtATime, RunsOnlyWhenApproved
  <2>4. QED
    BY <2>1, <2>2, <2>3 DEF IInv
<1>19. ASSUME NEW c \in Click, InsertApproved(c) PROVE IInv'
  <2>1. TypeOK'
    BY <1>19, SMTT(30) DEF InsertApproved, ClickEnds, ClickGoesTo, TypeOK, ClickInHand
  <2>2. ClickInHand'
    BY <1>19 DEF InsertApproved, ClickEnds, ClickGoesTo, TypeOK, ClickInHand
  <2>3. RunsOnlyWhenApproved'
    BY <1>19 DEF InsertApproved, ClickEnds, ClickGoesTo, TypeOK,
      RunsOnlyWhenApproved, ClickInHand
  <2>4. AttemptLeft' /\ PlanInHand' /\ OneQuestionAtATime'
    BY <1>19 DEF InsertApproved, ClickEnds, ClickGoesTo, AttemptLeft,
      PlanInHand, OneQuestionAtATime
  <2>5. QED
    BY <2>1, <2>2, <2>3, <2>4 DEF IInv
<1>20. ASSUME NEW c \in Click, EnqueueRejection(c) PROVE IInv'
  <2>1. TypeOK'
    BY <1>20 DEF EnqueueRejection, ClickEnds, ClickGoesTo, TypeOK
  <2>2. ClickInHand'
    BY <1>20 DEF EnqueueRejection, ClickEnds, ClickGoesTo, TypeOK, ClickInHand
  <2>3. /\ AttemptLeft' /\ PlanInHand'
       /\ OneQuestionAtATime' /\ RunsOnlyWhenApproved'
    BY <1>20 DEF EnqueueRejection, ClickEnds, ClickGoesTo, AttemptLeft,
      PlanInHand, OneQuestionAtATime, RunsOnlyWhenApproved
  <2>4. QED
    BY <2>1, <2>2, <2>3 DEF IInv
<1>21. ASSUME NEW c \in Click, ClickFault(c) PROVE IInv'
  <2>1. TypeOK'
    <3>1. abandoned' \subseteq Workflow
      BY <1>21 DEF ClickFault, TypeOK, ClickInHand
    <3>2. QED
      BY <1>21, <3>1 DEF ClickFault, ClickEnds, ClickGoesTo, TypeOK
  <2>2. ClickInHand'
    BY <1>21 DEF ClickFault, ClickEnds, ClickGoesTo, TypeOK, ClickInHand
  <2>3. /\ AttemptLeft' /\ PlanInHand'
       /\ OneQuestionAtATime' /\ RunsOnlyWhenApproved'
    BY <1>21 DEF ClickFault, ClickEnds, ClickGoesTo, AttemptLeft, PlanInHand,
      OneQuestionAtATime, RunsOnlyWhenApproved
  <2>4. QED
    BY <2>1, <2>2, <2>3 DEF IInv
<1>22. ASSUME NEW c \in Click, NEW w \in Workflow, Approve(c, w) PROVE IInv'
  <2>1. TypeOK'
    BY <1>22 DEF Approve, Press, ClickGoesTo, TransitionStatus, TypeOK
  <2>2. ClickInHand'
    BY <1>22 DEF Approve, Press, ClickGoesTo, TransitionStatus, TypeOK,
      ClickInHand
  <2>3. OneQuestionAtATime'
    BY <1>22 DEF Approve, Press, ClickGoesTo, TransitionStatus, TypeOK,
      OneQuestionAtATime
  <2>4. RunsOnlyWhenApproved'
    BY <1>22 DEF Approve, Press, ClickGoesTo, TransitionStatus, TypeOK,
      RunsOnlyWhenApproved
  <2>5. AttemptLeft' /\ PlanInHand'
    BY <1>22 DEF Approve, Press, ClickGoesTo, TransitionStatus, AttemptLeft,
      PlanInHand
  <2>6. QED
    BY <2>1, <2>2, <2>3, <2>4, <2>5 DEF IInv
<1>23. ASSUME NEW c \in Click, NEW w \in Workflow, Reject(c, w) PROVE IInv'
  <2>1. TypeOK'
    BY <1>23 DEF Reject, Press, ClickGoesTo, TransitionStatus, TypeOK
  <2>2. ClickInHand'
    BY <1>23 DEF Reject, Press, ClickGoesTo, TransitionStatus, TypeOK,
      ClickInHand
  <2>3. OneQuestionAtATime'
    BY <1>23 DEF Reject, Press, ClickGoesTo, TransitionStatus, TypeOK,
      OneQuestionAtATime
  <2>4. AttemptLeft' /\ PlanInHand' /\ RunsOnlyWhenApproved'
    BY <1>23 DEF Reject, Press, ClickGoesTo, TransitionStatus, AttemptLeft,
      PlanInHand, RunsOnlyWhenApproved
  <2>5. QED
    BY <2>1, <2>2, <2>3, <2>4 DEF IInv
<1>24. ASSUME NEW c \in Click, NEW w \in Workflow, ClickRefused(c, w) PROVE IInv'
  <2>1. TypeOK'
    BY <1>24 DEF ClickRefused, Press, ClickEnds, ClickGoesTo, TypeOK
  <2>2. ClickInHand'
    BY <1>24 DEF ClickRefused, Press, ClickEnds, ClickGoesTo, TypeOK,
      ClickInHand
  <2>3. /\ AttemptLeft' /\ PlanInHand'
       /\ OneQuestionAtATime' /\ RunsOnlyWhenApproved'
    BY <1>24 DEF ClickRefused, Press, ClickEnds, ClickGoesTo, AttemptLeft,
      PlanInHand, OneQuestionAtATime, RunsOnlyWhenApproved
  <2>4. QED
    BY <2>1, <2>2, <2>3 DEF IInv
<1>25. CASE UNCHANGED vars
  BY <1>25 DEF vars, IInv, TypeOK, AttemptLeft, PlanInHand, ClickInHand,
     OneQuestionAtATime, RunsOnlyWhenApproved
<1>26. QED
  BY <1>1, <1>2, <1>3, <1>4, <1>5, <1>6, <1>7, <1>8, <1>9, <1>10, <1>11, <1>12,
     <1>13, <1>14, <1>15, <1>16, <1>17, <1>18, <1>19, <1>20, <1>21, <1>22,
     <1>23, <1>24, <1>25 DEF Next, PlanWork,
     RespondWork, Clicked, Handle

(* Every step from a state with the invariant keeps a completed            *)
(* conversation completed, and lets no click win.                          *)
LEMMA StepKeepsCompleted == IInv /\ [Next]_vars => KeepsCompleted
<1> SUFFICES ASSUME [Next]_vars, conv = "completed"
             PROVE  conv' = "completed" /\ answered' = answered
  BY DEF KeepsCompleted
<1> USE DEF TransitionStatus, history
<1>1. ASSUME NEW w \in Workflow,
             PlanWork(w) \/ ExecuteDone(w) \/ RespondWork(w)
               \/ SetTotalTasksConfigUnread(w) \/ PlanFault(w) \/ RespondFault(w)
      PROVE  conv' = "completed" /\ answered' = answered
  <2>1. CASE PlanWork(w)
    BY <2>1 DEF PlanWork, PlanStart, InsertProcess, SavePlan, SetTotalTasks,
       InsertUnasked, LinkConversation, Pause, PauseRefused, EnqueueBlocks,
       PlanFinish
  <2>2. CASE RespondWork(w)
    BY <2>2 DEF RespondWork, RespondStart, CompleteConversation, RespondFinish,
       RespondEnds
  <2>3. CASE ExecuteDone(w) \/ SetTotalTasksConfigUnread(w) \/ PlanFault(w)
             \/ RespondFault(w)
    BY <2>3 DEF ExecuteDone, SetTotalTasksConfigUnread, PlanFault, RespondFault,
       RespondEnds
  <2>4. QED
    BY <1>1, <2>1, <2>2, <2>3
<1>2. ASSUME NEW c \in Click, Handle(c) \/ ClickFault(c)
      PROVE  conv' = "completed" /\ answered' = answered
  BY <1>2 DEF Handle, AddTurn, InsertApproved, EnqueueRejection, ClickFault
<1>3. ASSUME NEW c \in Click, NEW w \in Workflow, Clicked(c, w)
      PROVE  conv' = "completed" /\ answered' = answered
  BY <1>3 DEF Clicked, Approve, Reject, ClickRefused
<1>4. CASE UNCHANGED vars
  BY <1>4 DEF vars
<1>5. QED
  BY <1>1, <1>2, <1>3, <1>4 DEF Next

-----------------------------------------------------------------------------
(* The inductive invariant holds in every reachable state.                 *)
THEOREM InductiveInvariant == Spec => []IInv
<1>1. Init => IInv
  BY InitIInv
<1>2. IInv /\ [Next]_vars => IInv'
  BY StepIInv
<1>3. QED
  BY <1>1, <1>2, PTL DEF Spec

(* Types, attempt limits and the bound on faults hold for every instance.  *)
THEOREM TypeCorrect == Spec => []TypeOK
<1>1. IInv => TypeOK
  BY DEF IInv
<1>2. QED
  BY <1>1, InductiveInvariant, PTL

(* However many workflows and clicks race for TransitionStatus: the thread *)
(* awaits an approval exactly when one pause is undecided.                 *)
THEOREM QuestionsAreDecidedOnce == Spec => []OneQuestionAtATime
<1>1. IInv => OneQuestionAtATime
  BY DEF IInv
<1>2. QED
  BY <1>1, InductiveInvariant, PTL

(* handleApprove is the only way to an execute job in a channel that asks, *)
(* but for a plan whose channel config was not read.                       *)
THEOREM ApprovalGuardsExecution == Spec => []RunsOnlyWhenApproved
<1>1. IInv => RunsOnlyWhenApproved
  BY DEF IInv
<1>2. QED
  BY <1>1, InductiveInvariant, PTL

(* No statement of the code takes a conversation out of completed.         *)
THEOREM CompletionIsFinal == Spec => CompletedIsFinal
<1>1. IInv /\ [Next]_vars => [KeepsCompleted]_vars
  BY StepKeepsCompleted
<1>2. QED
  BY <1>1, InductiveInvariant, PTL DEF Spec, CompletedIsFinal
=============================================================================
