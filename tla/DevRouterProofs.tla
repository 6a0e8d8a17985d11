--------------------------- MODULE DevRouterProofs ---------------------------
(***************************************************************************)
(* What the pipelines of dev-router keep for every set of issues, every    *)
(* size of a plan, any number of turns that are lost and any number of     *)
(* invocations that overlap, on every issue on which no two of them met.   *)
(*                                                                         *)
(* The argument: an invocation acts on what it read of a row.  While it is *)
(* the only one at work on an issue (Alone), no statement of another one   *)
(* is on that issue (Elsewhere), so that what it read is what the row      *)
(* still has; each statement of a turn adds its part to what the stage     *)
(* promises, and a lost turn leaves a row that the next one can go on      *)
(* from.                                                                   *)
(***************************************************************************)
EXTENDS DevRouter, TLAPS

OnTurn == \A r \in Runner : pc[r] # "idle" => on[r] \in Pipeline

(* Two invocations at work on one issue are remembered.                    *)
Alone ==
  \A r, s \in Runner :
    pc[r] # "idle" /\ pc[s] # "idle" /\ on[r][1] = on[s][1] =>
      r = s \/ on[r][1] \in contended

(* An invocation is at work on an issue that is its own.                   *)
Undisturbed(r) == pc[r] # "idle" /\ on[r][1] \notin contended

(* What a turn may rely on when it has come to a statement.                *)
Read(p) == [stage |-> stage[p], plan |-> plan[p], count |-> story_count[p],
            index |-> current_story_index[p]]
Relies(r) ==
  LET p == on[r] IN
  /\ pc[r] = "create" => \A q \in rows : q[1] # p[1]
  /\ pc[r] = "dispatch" => snap[r] = Read(p)
  /\ pc[r] = "ingress" => stage[p] = "classifying"
  /\ pc[r] \in {"count", "planned"} =>
       stage[p] = "planning" /\ planned[r] = plan[p] /\ plan[p] > 0
  /\ pc[r] = "planned" => story_count[p] = plan[p]
  /\ pc[r] = "indexed" => stage[p] = "fanout" /\ current_story_index[p] = 0
  /\ pc[r] \in {"incr", "advance"} =>
       /\ stage[p] = "executing" /\ snap[r] = Read(p)
       /\ current_story_index[p] \in done[p]
  /\ pc[r] = "commented" => stage[p] = "validating" /\ p \in green
TurnInv == \A r \in Runner : Undisturbed(r) => Relies(r)

(* What the row of a pipeline promises in each stage: the plan is settled  *)
(* once its stories are fanned out, and the stories before the index are   *)
(* carried out.                                                            *)
Promised(p) ==
  /\ stage[p] \in {"pending", "classifying", "planning", "fanout"} => done[p] = {}
  /\ stage[p] \in {"fanout", "executing"} => plan[p] = story_count[p] /\ plan[p] > 0
  /\ stage[p] = "executing" =>
       /\ current_story_index[p] < plan[p]
       /\ \A k \in 0 .. current_story_index[p] - 1 : k \in done[p]
       /\ \A k \in done[p] : k <= current_story_index[p]
  /\ stage[p] \in {"validating", "awaiting_approval", "completed"} =>
       plan[p] = story_count[p] /\ done[p] = 0 .. plan[p] - 1
  /\ stage[p] \in {"awaiting_approval", "completed"} => p \in green
PlanInv == \A p \in Pipeline : p[1] \notin contended => Promised(p)

(* stories_completed counts the stories before the index, that of a turn   *)
(* that is about to advance it, and one at most for every turn that was    *)
(* lost.                                                                   *)
Advancing(p) == \E r \in Runner : pc[r] = "advance" /\ on[r] = p
Before(p) == current_story_index[p] + (IF Advancing(p) THEN 1 ELSE 0)
Counted(p) ==
  /\ stage[p] \in {"pending", "classifying", "planning", "fanout"} => stories_completed[p] = 0
  /\ stage[p] = "executing" => stories_completed[p] \in Before(p) .. Before(p) + faults
  /\ stage[p] \in {"validating", "awaiting_approval"} =>
       stories_completed[p] \in story_count[p] .. story_count[p] + faults
CountInv == \A p \in Pipeline : p[1] \notin contended => Counted(p)

(* The inductive invariant.                                                *)
IInv == Types /\ OnTurn /\ Alone /\ TurnInv /\ OnePipelinePerIssue /\ PlanInv /\ CountInv

-----------------------------------------------------------------------------
(* Types.                                                                  *)

USE DEF Pipeline, Count

(* Lemma: a turn that has begun is on a pipeline, and every variable keeps *)
(* its type, whatever step any of the invocations takes.                   *)
LEMMA StepTypes ==
  ASSUME Types, OnTurn, [Next]_vars
  PROVE  Types' /\ OnTurn'
<1> USE DevRouterAssumption
<1>1. CASE UNCHANGED vars
  BY <1>1 DEF Types, OnTurn, vars, columns, turn
<1>2. ASSUME NEW i \in Issue, LabelIssue(i) PROVE Types' /\ OnTurn'
  BY <1>2 DEF Types, OnTurn, LabelIssue, columns, turn
<1>3. ASSUME NEW r \in Runner, NEW i \in Issue, PollIssue(r, i) PROVE Types' /\ OnTurn'
  <2>1. <<i, 1>> \in Pipeline
    OBVIOUS
  <2>2. Blank \in Row
    BY DEF Blank, Row, Stage
  <2>. QED
    BY <1>3, <2>1, <2>2 DEF Types, OnTurn, PollIssue, BeginTurn, columns, PCs
<1>4. ASSUME NEW r \in Runner, NEW p \in Pipeline, RunOnce(r, p) PROVE Types' /\ OnTurn'
  <2>1. Read(p) \in Row
    BY DEF Read, Row, Types
  <2>. QED
    BY <1>4, <2>1 DEF Types, OnTurn, RunOnce, BeginTurn, Read, columns, PCs
<1>5. ASSUME NEW r \in Runner, TurnFails(r) \/ BudgetExceeded(r) PROVE Types' /\ OnTurn'
  <2>1. Blank \in Row
    BY DEF Blank, Row, Stage
  <2>. QED
    <3>1. /\ faults' \in 0 .. MaxFaults
          /\ EndTurn(r)
          /\ UNCHANGED <<label, rows, columns, done, green>>
      BY <1>5 DEF Types, TurnFails, BudgetExceeded
    <3>. QED
      BY <2>1, <3>1 DEF Types, OnTurn, EndTurn, columns, PCs
<1>6. ASSUME NEW r \in Runner, Work(r) PROVE Types' /\ OnTurn'
  <2> USE DEF At, Dispatched
  <2>0. /\ Blank \in Row
        /\ pc[r] # "idle" => on[r] \in Pipeline
    BY DEF Blank, Row, Stage, OnTurn
  <2>1. CASE CreatePipeline(r)
    BY <2>0, <2>1 DEF Types, OnTurn, CreatePipeline, GoesTo, columns, PCs
  <2>2. CASE RemoveLabel(r)
    BY <2>0, <2>2 DEF Types, OnTurn, RemoveLabel, EndTurn, columns, PCs
  <2>3. CASE ToClassifying(r)
    BY <2>0, <2>3 DEF Types, OnTurn, ToClassifying, UpdateStage, GoesTo, PCs, Stage
  <2>4. CASE ToPlanning(r)
    BY <2>0, <2>4 DEF Types, OnTurn, ToPlanning, UpdateStage, EndTurn, PCs, Stage
  <2>5. CASE SetPlanOutput(r)
    BY <2>0, <2>5 DEF Types, OnTurn, SetPlanOutput, PCs
  <2>6. CASE SetStoryCount(r)
    BY <2>0, <2>6 DEF Types, OnTurn, SetStoryCount, GoesTo, PCs
  <2>7. CASE ToFanout(r)
    BY <2>0, <2>7 DEF Types, OnTurn, ToFanout, UpdateStage, EndTurn, PCs, Stage
  <2>8. CASE ResetStoryIndex(r)
    BY <2>0, <2>8 DEF Types, OnTurn, ResetStoryIndex, GoesTo, PCs
  <2>9. CASE ToExecuting(r)
    BY <2>0, <2>9 DEF Types, OnTurn, ToExecuting, UpdateStage, EndTurn, PCs, Stage
  <2>10. CASE StoryFails(r)
    BY <2>0, <2>10 DEF Types, OnTurn, StoryFails, UpdateStage, EndTurn, PCs, Stage
  <2>11. CASE StorySucceeds(r)
    <3>1. snap[r] \in Row
      BY DEF Types
    <3>2. snap[r].index \in 0 .. MaxStories - 1
      BY <2>11, <3>1 DEF StorySucceeds, Row
    <3>3. done' \in [Pipeline -> SUBSET (0 .. MaxStories - 1)]
      BY <2>0, <2>11, <3>2 DEF Types, StorySucceeds
    <3>. QED
      BY <2>0, <2>11, <3>3 DEF Types, OnTurn, StorySucceeds, GoesTo, columns, PCs
  <2>12. CASE IncrStoriesCompleted(r)
    BY <2>0, <2>12 DEF Types, OnTurn, IncrStoriesCompleted, GoesTo, PCs
  <2>13. CASE Advance(r)
    <3>1. snap[r] \in Row
      BY DEF Types
    <3>2. stage' \in [Pipeline -> Stage] /\ current_story_index' \in [Pipeline -> Nat]
      <4>1. snap[r].index + 1 \in Nat /\ on[r] \in Pipeline
        BY <2>0, <2>13, <3>1 DEF Advance, Row
      <4>2. CASE snap[r].index + 1 = snap[r].count
        BY <2>13, <4>1, <4>2 DEF Types, Advance, UpdateStage, Stage
      <4>3. CASE snap[r].index + 1 # snap[r].count
        BY <2>13, <4>1, <4>3 DEF Types, Advance
      <4>. QED
        BY <4>2, <4>3
    <3>. QED
      BY <2>0, <2>13, <3>2 DEF Types, OnTurn, Advance, EndTurn, PCs
  <2>14. CASE StillPending(r)
    BY <2>0, <2>14 DEF Types, OnTurn, StillPending, EndTurn, columns, PCs
  <2>15. CASE CIGreen(r)
    BY <2>0, <2>15 DEF Types, OnTurn, CIGreen, GoesTo, columns, PCs
  <2>16. CASE ToAwaitingApproval(r)
    BY <2>0, <2>16 DEF Types, OnTurn, ToAwaitingApproval, UpdateStage, EndTurn, PCs,
       Stage
  <2>17. CASE CIFailed(r)
    BY <2>0, <2>17 DEF Types, OnTurn, CIFailed, UpdateStage, EndTurn, PCs, Stage
  <2>18. CASE Decided(r)
    BY <2>0, <2>18 DEF Types, OnTurn, Decided, UpdateStage, EndTurn, PCs, Stage,
                        terminalStages
  <2>. QED
    BY <1>6, <2>1, <2>2, <2>3, <2>4, <2>5, <2>6, <2>7, <2>8, <2>9, <2>10, <2>11, <2>12,
       <2>13, <2>14, <2>15, <2>16, <2>17, <2>18 DEF Work
<1>. QED
  BY <1>1, <1>2, <1>3, <1>4, <1>5, <1>6 DEF Next

(* Lemma: the first state has the types, and is quiet.                     *)
LEMMA InitTypes ==
  ASSUME Init
  PROVE  Types /\ OnTurn
<1>1. Blank \in Row
  BY DevRouterAssumption DEF Blank, Row, Stage
<1>. QED
  BY <1>1, DevRouterAssumption DEF Init, Types, OnTurn, PCs, Stage

(* Types, for any number of invocations at once: what they read and write  *)
(* of each other's rows stays in the columns, and done has only stories    *)
(* that a plan may have.                                                   *)
THEOREM TypesAreKept == Spec => []Types
<1>1. Init => Types /\ OnTurn
  BY InitTypes
<1>2. (Types /\ OnTurn) /\ [Next]_vars => (Types /\ OnTurn)'
  BY StepTypes
<1>. QED
  BY <1>1, <1>2, PTL DEF Spec

-----------------------------------------------------------------------------
(* One step, and the rows it leaves as they are.                           *)

(* Lemma: where a step may come from.                                      *)
LEMMA Steps ==
  ASSUME [Next]_vars
  PROVE  \/ UNCHANGED <<rows, columns, turn, done, green, faults>>
         \/ \E r \in Runner :
              \/ \E i \in Issue : PollIssue(r, i)
              \/ \E p \in Pipeline : RunOnce(r, p)
              \/ /\ pc[r] # "idle" /\ faults' = faults + 1
                 /\ EndTurn(r)
                 /\ UNCHANGED <<rows, columns, done, green>>
              \/ Work(r)
  BY DEF Next, LabelIssue, BudgetExceeded, TurnFails, vars, turn, columns

(* Another invocation is where it was.                                     *)
Elsewhere(r) ==
  \A s \in Runner \ {r} : /\ pc'[s] = pc[s] /\ on'[s] = on[s]
                          /\ snap'[s] = snap[s] /\ planned'[s] = planned[s]

(* Another pipeline is as it was.                                          *)
SameRow(q) ==
  /\ stage'[q] = stage[q] /\ plan'[q] = plan[q] /\ story_count'[q] = story_count[q]
  /\ stories_completed'[q] = stories_completed[q]
  /\ current_story_index'[q] = current_story_index[q]
  /\ done'[q] = done[q] /\ (q \in green' <=> q \in green)

(* Lemma: a turn that begins changes its invocation only, and remembers    *)
(* whom it met.                                                            *)
LEMMA TurnBegins ==
  ASSUME Types, NEW r \in Runner, NEW p \in Pipeline, NEW at, NEW read,
         BeginTurn(r, at, p, read)
  PROVE  /\ pc'[r] = at /\ on'[r] = p /\ snap'[r] = read
         /\ Elsewhere(r)
         /\ contended \subseteq contended'
         /\ \A s \in Runner : pc[s] # "idle" /\ on[s][1] = p[1] => p[1] \in contended'
  BY DEF BeginTurn, Types, Elsewhere

(* Lemma: a turn that ends changes its invocation only.                    *)
LEMMA TurnIsOver ==
  ASSUME Types, NEW r \in Runner, EndTurn(r)
  PROVE  pc'[r] = "idle" /\ Elsewhere(r) /\ UNCHANGED contended
  BY DEF Types, EndTurn, Elsewhere

(* Lemma: a statement of a turn is on the pipeline of the turn, and leaves *)
(* every other row and every other invocation alone.                       *)
LEMMA TurnGoesOn ==
  ASSUME Types, OnTurn, NEW r \in Runner, Work(r)
  PROVE  /\ pc[r] # "idle" /\ on[r] \in Pipeline
         /\ pc'[r] # "idle" => on'[r] = on[r]
         /\ Elsewhere(r)
         /\ UNCHANGED <<faults, contended>>
         /\ \A q \in Pipeline : q # on[r] => SameRow(q)
         /\ \A q \in rows' : q \in rows \/ q[1] = on[r][1]
<1> USE DEF At, Dispatched, UpdateStage, GoesTo, EndTurn, Types, Elsewhere, SameRow
<1>0. pc[r] # "idle" => on[r] \in Pipeline
  BY DEF OnTurn
<1>1. CASE CreatePipeline(r) \/ RemoveLabel(r) \/ StillPending(r)
  BY <1>0, <1>1 DEF CreatePipeline, RemoveLabel, StillPending, columns
<1>2. CASE ToClassifying(r) \/ ToPlanning(r) \/ ToFanout(r) \/ ToExecuting(r)
  BY <1>0, <1>2 DEF ToClassifying, ToPlanning, ToFanout, ToExecuting
<1>3. CASE SetPlanOutput(r) \/ SetStoryCount(r) \/ ResetStoryIndex(r)
  BY <1>0, <1>3 DEF SetPlanOutput, SetStoryCount, ResetStoryIndex
<1>4. CASE StoryFails(r) \/ CIFailed(r) \/ ToAwaitingApproval(r) \/ Decided(r)
  BY <1>0, <1>4 DEF StoryFails, CIFailed, ToAwaitingApproval, Decided
<1>5. CASE StorySucceeds(r) \/ CIGreen(r)
  BY <1>0, <1>5 DEF StorySucceeds, CIGreen, columns
<1>6. CASE IncrStoriesCompleted(r)
  BY <1>0, <1>6 DEF IncrStoriesCompleted
<1>7. CASE Advance(r)
  BY <1>0, <1>7 DEF Advance
<1>. QED
  BY <1>1, <1>2, <1>3, <1>4, <1>5, <1>6, <1>7 DEF Work

(* Lemma: two invocations that come to work on one issue are remembered.   *)
LEMMA StepAlone ==
  ASSUME Types, OnTurn, Alone, [Next]_vars
  PROVE  Alone' /\ contended \subseteq contended'
<1>1. CASE UNCHANGED <<rows, columns, turn, done, green, faults>>
  BY <1>1 DEF Alone, turn
<1>2. ASSUME NEW r \in Runner, NEW i \in Issue, PollIssue(r, i)
      PROVE  Alone' /\ contended \subseteq contended'
  <2>1. <<i, 1>> \in Pipeline
    BY DevRouterAssumption
  <2>. QED
    BY <1>2, <2>1, TurnBegins DEF PollIssue, Alone, Elsewhere
<1>3. ASSUME NEW r \in Runner, NEW p \in Pipeline, RunOnce(r, p)
      PROVE  Alone' /\ contended \subseteq contended'
  BY <1>3, TurnBegins DEF RunOnce, Alone, Elsewhere
<1>4. ASSUME NEW r \in Runner, EndTurn(r) PROVE Alone' /\ contended \subseteq contended'
  BY <1>4, TurnIsOver DEF Alone, Elsewhere
<1>5. ASSUME NEW r \in Runner, Work(r) PROVE Alone' /\ contended \subseteq contended'
  BY <1>5, TurnGoesOn DEF Alone, Elsewhere
<1>. QED
  BY <1>1, <1>2, <1>3, <1>4, <1>5, Steps

-----------------------------------------------------------------------------
(* What a turn relies on.                                                  *)

(* Lemma: what an undisturbed turn read is still so when it acts on it,    *)
(* and each statement of a turn leaves what the next one relies on.        *)
LEMMA StepTurnInv ==
  ASSUME IInv, [Next]_vars
  PROVE  TurnInv'
<1> USE DEF At, Dispatched
<1> SUFFICES ASSUME NEW s \in Runner, Undisturbed(s)' PROVE Relies(s)'
  BY DEF TurnInv
<1>0. Types /\ OnTurn /\ Alone /\ TurnInv /\ contended \subseteq contended'
  BY StepAlone DEF IInv
<1>1. CASE UNCHANGED <<rows, columns, turn, done, green, faults>>
  <2>1. Undisturbed(s) /\ Relies(s)
    BY <1>0, <1>1 DEF TurnInv, Undisturbed, turn
  <2>. QED
    BY <1>1, <2>1 DEF Relies, Read, columns, turn
<1>2. ASSUME NEW r \in Runner, NEW i \in Issue, PollIssue(r, i) PROVE Relies(s)'
  <2>1. <<i, 1>> \in Pipeline
    BY DevRouterAssumption
  <2>2. CASE s = r
    BY <1>0, <1>2, <2>1, <2>2, TurnBegins DEF PollIssue, Relies
  <2>3. CASE s # r
    <3>1. Elsewhere(r) /\ UNCHANGED <<rows, columns, done, green>>
      BY <1>0, <1>2, <2>1, TurnBegins DEF PollIssue
    <3>2. Undisturbed(s) /\ Relies(s)
      BY <1>0, <2>3, <3>1 DEF TurnInv, Undisturbed, Elsewhere
    <3>. QED
      BY <2>3, <3>1, <3>2 DEF Relies, Read, Elsewhere, columns
  <2>. QED
    BY <2>2, <2>3
<1>3. ASSUME NEW r \in Runner, NEW p \in Pipeline, RunOnce(r, p) PROVE Relies(s)'
  <2>1. CASE s = r
    BY <1>0, <1>3, <2>1, TurnBegins DEF RunOnce, Relies, Read, columns
  <2>2. CASE s # r
    <3>1. Elsewhere(r) /\ UNCHANGED <<rows, columns, done, green>>
      BY <1>0, <1>3, TurnBegins DEF RunOnce
    <3>2. Undisturbed(s) /\ Relies(s)
      BY <1>0, <2>2, <3>1 DEF TurnInv, Undisturbed, Elsewhere
    <3>. QED
      BY <2>2, <3>1, <3>2 DEF Relies, Read, Elsewhere, columns
  <2>. QED
    BY <2>1, <2>2
<1>4. ASSUME NEW r \in Runner, EndTurn(r), UNCHANGED <<rows, columns, done, green>>
      PROVE  Relies(s)'
  BY <1>0, <1>4, TurnIsOver
     DEF TurnInv, Undisturbed, Relies, Read, Elsewhere, columns
<1>5. ASSUME NEW r \in Runner, Work(r), s # r PROVE Relies(s)'
  <2>1. /\ Undisturbed(s) /\ Relies(s) /\ on[s] \in Pipeline
        /\ on'[s] = on[s] /\ pc'[s] = pc[s] /\ snap'[s] = snap[s]
        /\ planned'[s] = planned[s]
    BY <1>0, <1>5, TurnGoesOn DEF TurnInv, Undisturbed, Elsewhere, OnTurn
  <2>2. on[s][1] # on[r][1]
    BY <1>0, <1>5, <2>1, TurnGoesOn DEF Alone, Undisturbed
  <2>3. SameRow(on[s]) /\ \A q \in rows' : q \in rows \/ q[1] # on[s][1]
    BY <1>0, <1>5, <2>1, <2>2, TurnGoesOn
  <2>. QED
    BY <2>1, <2>3 DEF Relies, Read, SameRow
<1>6. ASSUME NEW r \in Runner, Work(r), s = r PROVE Relies(s)'
  <2> USE DEF Relies
  <2>0. /\ pc[r] # "idle" /\ on[r] \in Pipeline /\ Relies(r) /\ pc'[r] # "idle"
        /\ Types
    BY <1>0, <1>6, TurnGoesOn DEF TurnInv, Undisturbed
  <2>1. CASE CreatePipeline(r)
    BY <1>6, <2>0, <2>1 DEF Types, CreatePipeline, GoesTo
  <2>2. CASE ToClassifying(r)
    BY <1>6, <2>0, <2>2 DEF Types, ToClassifying, UpdateStage, GoesTo
  <2>3. CASE SetPlanOutput(r)
    BY <1>6, <2>0, <2>3, DevRouterAssumption DEF Types, SetPlanOutput, Read
  <2>4. CASE SetStoryCount(r)
    BY <1>6, <2>0, <2>4 DEF Types, SetStoryCount, GoesTo
  <2>5. CASE ResetStoryIndex(r)
    BY <1>6, <2>0, <2>5 DEF Types, ResetStoryIndex, GoesTo, Read
  <2>6. CASE StorySucceeds(r)
    BY <1>6, <2>0, <2>6 DEF Types, StorySucceeds, GoesTo, Read, columns
  <2>7. CASE IncrStoriesCompleted(r)
    BY <1>6, <2>0, <2>7 DEF Types, IncrStoriesCompleted, GoesTo, Read
  <2>8. CASE CIGreen(r)
    BY <1>6, <2>0, <2>8 DEF Types, CIGreen, GoesTo, Read, columns
  <2>9. ~ EndTurn(r)
    BY <2>0, TurnIsOver
  <2>. QED
    BY <1>6, <2>1, <2>2, <2>3, <2>4, <2>5, <2>6, <2>7, <2>8, <2>9
       DEF Work, RemoveLabel, ToPlanning, ToFanout, ToExecuting, StoryFails, Advance,
           StillPending, ToAwaitingApproval, CIFailed, Decided
<1>. QED
  BY <1>1, <1>2, <1>3, <1>4, <1>5, <1>6, Steps

(* Lemma: a pipeline is created for an issue that has none.                *)
LEMMA StepOnePipeline ==
  ASSUME IInv, [Next]_vars
  PROVE  OnePipelinePerIssue'
<1> USE DEF IInv
<1>0. contended \subseteq contended'
  BY StepAlone
<1>1. CASE UNCHANGED rows
  BY <1>0, <1>1 DEF OnePipelinePerIssue
<1>2. ASSUME NEW r \in Runner, CreatePipeline(r) PROVE OnePipelinePerIssue'
  BY <1>0, <1>2
     DEF OnePipelinePerIssue, CreatePipeline, At, TurnInv, Undisturbed, Relies, OnTurn, Types
<1>3. ASSUME NEW r \in Runner, Work(r), ~ CreatePipeline(r) PROVE UNCHANGED rows
  BY <1>3 DEF Work, RemoveLabel, ToClassifying, ToPlanning, SetPlanOutput, SetStoryCount,
              ToFanout, ResetStoryIndex, ToExecuting, StoryFails, StorySucceeds,
              IncrStoriesCompleted, Advance, StillPending, CIGreen, ToAwaitingApproval,
              CIFailed, Decided
<1>. QED
  BY <1>1, <1>2, <1>3, Steps DEF PollIssue, RunOnce

-----------------------------------------------------------------------------
(* What the rows promise.                                                  *)

(* Lemma: the row of a pipeline keeps what its stage promises of its plan. *)
LEMMA StepPlanInv ==
  ASSUME IInv, [Next]_vars
  PROVE  PlanInv'
<1> USE DEF At, Dispatched
<1> SUFFICES ASSUME NEW p \in Pipeline, p[1] \notin contended' PROVE Promised(p)'
  BY DEF PlanInv
<1>0. Types /\ OnTurn /\ p[1] \notin contended /\ Promised(p)
  BY StepAlone DEF IInv, PlanInv
<1>1. CASE UNCHANGED <<columns, done, green>>
  BY <1>0, <1>1 DEF Promised, columns
<1>2. ASSUME NEW r \in Runner, Work(r), on[r] # p PROVE Promised(p)'
  <2>1. SameRow(p)
    BY <1>0, <1>2, TurnGoesOn
  <2>. QED
    BY <1>0, <2>1 DEF Promised, SameRow
<1>3. ASSUME NEW r \in Runner, Work(r), on[r] = p, ~ UNCHANGED <<columns, done, green>>
      PROVE  Promised(p)'
  <2>0. Types /\ Promised(p) /\ p = on[r] /\ Relies(r)
    BY <1>0, <1>3, TurnGoesOn DEF IInv, TurnInv, Undisturbed
  <2> USE DEF Relies
  <2>1. CASE ToClassifying(r)
    BY <2>0, <2>1 DEF Types, Promised, Read, ToClassifying, UpdateStage
  <2>2. CASE ToPlanning(r)
    BY <2>0, <2>2 DEF Types, Promised, Read, ToPlanning, UpdateStage
  <2>3. CASE SetPlanOutput(r)
    BY <2>0, <2>3 DEF Types, Promised, Read, SetPlanOutput
  <2>4. CASE SetStoryCount(r)
    BY <2>0, <2>4 DEF Types, Promised, Read, SetStoryCount
  <2>5. CASE ToFanout(r)
    BY <2>0, <2>5 DEF Types, Promised, Read, ToFanout, UpdateStage
  <2>6. CASE ResetStoryIndex(r)
    BY <2>0, <2>6 DEF Types, Promised, Read, ResetStoryIndex
  <2>7. CASE ToExecuting(r)
    BY <2>0, <2>7 DEF Types, Promised, Read, ToExecuting, UpdateStage
  <2>8. CASE StoryFails(r)
    BY <2>0, <2>8 DEF Types, Promised, Read, StoryFails, UpdateStage
  <2>9. CASE StorySucceeds(r)
    <3> DEFINE i == current_story_index[p]
    <3>1. snap[r] = Read(p) /\ snap[r].stage = "executing"
      BY <2>0, <2>9 DEF StorySucceeds
    <3>2. /\ snap[r].index = i /\ stage[p] = "executing" /\ i \in Nat
          /\ done'[p] = done[p] \cup {i} /\ UNCHANGED columns
      BY <2>0, <2>9, <3>1 DEF StorySucceeds, Read, Types
    <3>3. \A k \in done'[p] : k <= i
      BY <2>0, <3>2 DEF Promised
    <3>. QED
      BY <2>0, <3>2, <3>3 DEF Promised, columns
  <2>10. CASE IncrStoriesCompleted(r)
    BY <2>0, <2>10 DEF Types, Promised, Read, IncrStoriesCompleted
  <2>11. CASE Advance(r)
    <3> DEFINE i == current_story_index[p]
    <3>1. /\ stage[p] = "executing" /\ i \in Nat
          /\ snap[r].index = i /\ snap[r].count = story_count[p]
          /\ plan[p] = story_count[p] /\ plan[p] \in Nat /\ i \in done[p]
          /\ i < plan[p]
          /\ \A k \in 0 .. i - 1 : k \in done[p]
          /\ \A k \in done[p] : k \in Nat /\ k <= i
          /\ UNCHANGED <<plan, story_count, done, green>>
      BY <2>0, <2>11, DevRouterAssumption DEF Advance, Read, Types, Promised
    <3>2. CASE i + 1 = plan[p]
      <4>1. done[p] = 0 .. plan[p] - 1
        <5>1. \A k \in done[p] : k \in 0 .. plan[p] - 1
          BY <3>1, <3>2
        <5>2. \A k \in 0 .. plan[p] - 1 : k = i \/ k \in 0 .. i - 1
          BY <3>1, <3>2
        <5>. QED
          BY <3>1, <5>1, <5>2
      <4>2. stage'[p] = "validating"
        BY <2>0, <2>11, <3>1, <3>2 DEF Advance, UpdateStage, Types
      <4>. QED
        BY <3>1, <4>1, <4>2 DEF Promised
    <3>3. CASE i + 1 # plan[p]
      <4>1. stage'[p] = "executing" /\ current_story_index'[p] = i + 1
        BY <2>0, <2>11, <3>1, <3>3 DEF Advance, Types
      <4>2. i + 1 < plan[p] /\ \A k \in 0 .. (i + 1) - 1 : k \in done[p]
        BY <3>1, <3>3
      <4>. QED
        BY <2>0, <3>1, <4>1, <4>2 DEF Promised
    <3>. QED
      BY <3>2, <3>3
  <2>12. CASE CIGreen(r)
    BY <2>0, <2>12 DEF Types, Promised, Read, CIGreen, columns
  <2>13. CASE ToAwaitingApproval(r)
    BY <2>0, <2>13 DEF Types, Promised, Read, ToAwaitingApproval, UpdateStage
  <2>14. CASE CIFailed(r)
    BY <2>0, <2>14 DEF Types, Promised, Read, CIFailed, UpdateStage
  <2>15. CASE Decided(r)
    BY <2>0, <2>15 DEF Types, Promised, Read, Decided, UpdateStage, terminalStages
  <2>. QED
    BY <1>3, <2>1, <2>2, <2>3, <2>4, <2>5, <2>6, <2>7, <2>8, <2>9, <2>10, <2>11, <2>12,
       <2>13, <2>14, <2>15 DEF Work, CreatePipeline, RemoveLabel, StillPending
<1>. QED
  BY <1>1, <1>2, <1>3, Steps DEF PollIssue, RunOnce

-----------------------------------------------------------------------------
(* What is counted.                                                        *)

(* Lemma: of an undisturbed turn on p, it alone tells whether a turn is    *)
(* about to advance p.                                                     *)
LEMMA AdvancingAlone ==
  ASSUME Alone, NEW r \in Runner, Undisturbed(r)
  PROVE  Advancing(on[r]) <=> pc[r] = "advance"
  BY DEF Alone, Advancing, Undisturbed

(* Lemma: a step of another invocation, or on another pipeline, does not   *)
(* change whether p is about to be advanced.                               *)
LEMMA AdvancingElsewhere ==
  ASSUME NEW r \in Runner, NEW p, Elsewhere(r),
         ~ (pc[r] = "advance" /\ on[r] = p), ~ (pc'[r] = "advance" /\ on'[r] = p)
  PROVE  Advancing(p)' <=> Advancing(p)
  BY DEF Advancing, Elsewhere

(* Lemma: stories_completed keeps counting the stories that were carried   *)
(* out and, at most, the turns that were lost after they had counted.      *)
LEMMA StepCountInv ==
  ASSUME IInv, Types', [Next]_vars
  PROVE  CountInv'
<1> USE DEF At, Dispatched
<1> SUFFICES ASSUME NEW p \in Pipeline, p[1] \notin contended' PROVE Counted(p)'
  BY DEF CountInv
<1>0. /\ Types /\ OnTurn /\ Alone /\ p[1] \notin contended /\ Counted(p)
      /\ Alone' /\ faults \in Nat
      /\ stories_completed[p] \in Nat /\ story_count[p] \in Nat
      /\ current_story_index[p] \in Nat
  BY StepAlone DEF IInv, CountInv, Types
<1>1. CASE UNCHANGED <<rows, columns, turn, done, green, faults>>
  BY <1>0, <1>1 DEF Counted, Before, Advancing, columns, turn
<1>2. ASSUME NEW r \in Runner, NEW i \in Issue, PollIssue(r, i) PROVE Counted(p)'
  <2>1. <<i, 1>> \in Pipeline
    BY DevRouterAssumption
  <2>2. /\ pc[r] # "advance" /\ pc'[r] # "advance" /\ Elsewhere(r)
        /\ UNCHANGED <<columns, faults>>
    BY <1>0, <1>2, <2>1, TurnBegins DEF PollIssue
  <2>3. Advancing(p)' <=> Advancing(p)
    BY <2>2, AdvancingElsewhere
  <2>. QED
    BY <1>0, <2>2, <2>3 DEF Counted, Before, columns
<1>3. ASSUME NEW r \in Runner, NEW q \in Pipeline, RunOnce(r, q) PROVE Counted(p)'
  <2>1. /\ pc[r] # "advance" /\ pc'[r] # "advance" /\ Elsewhere(r)
        /\ UNCHANGED <<columns, faults>>
    BY <1>0, <1>3, TurnBegins DEF RunOnce
  <2>2. Advancing(p)' <=> Advancing(p)
    BY <2>1, AdvancingElsewhere
  <2>. QED
    BY <1>0, <2>1, <2>2 DEF Counted, Before, columns
<1>4. ASSUME NEW r \in Runner, EndTurn(r), faults' = faults + 1, UNCHANGED columns
      PROVE  Counted(p)'
  <2>1. pc'[r] = "idle" /\ Elsewhere(r)
    BY <1>0, <1>4, TurnIsOver
  <2>2. Advancing(p)' => Advancing(p)
    BY <2>1 DEF Advancing, Elsewhere
  <2>. QED
    BY <1>0, <1>4, <2>2 DEF Counted, Before, columns
<1>5. ASSUME NEW r \in Runner, Work(r), on[r] # p PROVE Counted(p)'
  <2>1. SameRow(p) /\ UNCHANGED faults /\ Elsewhere(r) /\ (pc'[r] # "idle" => on'[r] = on[r])
    BY <1>0, <1>5, TurnGoesOn
  <2>2. Advancing(p)' <=> Advancing(p)
    BY <1>5, <2>1, AdvancingElsewhere
  <2>. QED
    BY <1>0, <2>1, <2>2 DEF Counted, Before, SameRow
<1>6. ASSUME NEW r \in Runner, Work(r), on[r] = p PROVE Counted(p)'
  <2>0. /\ Undisturbed(r) /\ Relies(r) /\ UNCHANGED faults /\ p = on[r]
        /\ Elsewhere(r) /\ (pc'[r] # "idle" => on'[r] = p)
    BY <1>0, <1>6, TurnGoesOn DEF IInv, TurnInv, Undisturbed
  <2>1. Advancing(p) <=> pc[r] = "advance"
    BY <1>0, <2>0, AdvancingAlone
  <2>2. Advancing(p)' <=> pc'[r] = "advance"
    BY <1>0, <2>0, <2>1 DEF Advancing, Elsewhere, Alone, Undisturbed
  <2> USE DEF Relies
  <2>3. CASE UNCHANGED columns /\ pc[r] # "advance" /\ pc'[r] # "advance"
    BY <1>0, <2>0, <2>1, <2>2, <2>3 DEF Counted, Before, columns
  <2>4. CASE ToClassifying(r) \/ ToPlanning(r) \/ SetPlanOutput(r) \/ SetStoryCount(r)
             \/ ToFanout(r) \/ ResetStoryIndex(r)
    <3>1. /\ stage[p] \in {"pending", "classifying", "planning", "fanout"}
          /\ stage'[p] \in {"pending", "classifying", "planning", "fanout"}
          /\ UNCHANGED stories_completed
      BY <1>0, <2>0, <2>4 DEF Read, Types, ToClassifying, ToPlanning, SetPlanOutput,
         SetStoryCount, ToFanout, ResetStoryIndex, UpdateStage
    <3>. QED
      BY <1>0, <3>1 DEF Counted
  <2>5. CASE ToExecuting(r)
    <3>1. /\ stage[p] = "fanout" /\ current_story_index[p] = 0
          /\ stage'[p] = "executing" /\ pc'[r] = "idle"
          /\ UNCHANGED <<stories_completed, current_story_index>>
      BY <1>0, <2>0, <2>5, TurnIsOver DEF Types, ToExecuting, UpdateStage
    <3>. QED
      BY <1>0, <2>0, <2>2, <3>1 DEF Counted, Before
  <2>6. CASE StorySucceeds(r)
    BY <1>0, <2>6, <2>3 DEF StorySucceeds, GoesTo, Types
  <2>7. CASE IncrStoriesCompleted(r)
    <3>1. /\ stage[p] = "executing" /\ pc[r] = "incr" /\ pc'[r] = "advance"
          /\ UNCHANGED <<stage, current_story_index>>
      BY <1>0, <2>0, <2>7 DEF IncrStoriesCompleted, GoesTo, Types
    <3>2. faults \in 0 .. MaxFaults /\ current_story_index[p] < MaxStories
      <4>1. Promised(p)
        BY <1>0 DEF IInv, PlanInv
      <4>2. current_story_index[p] < plan[p]
        BY <3>1, <4>1 DEF Promised
      <4>3. plan[p] \in 0 .. MaxStories /\ faults \in 0 .. MaxFaults
        BY <1>0 DEF Types
      <4>. QED
        BY <1>0, <4>2, <4>3, DevRouterAssumption
    <3>3. stories_completed[p] \in current_story_index[p] .. current_story_index[p] + faults
      BY <1>0, <2>1, <3>1 DEF Counted, Before
    <3>4. stories_completed[p] < MaxCounted
      BY <1>0, <3>2, <3>3, DevRouterAssumption
    <3>5. stories_completed'[p] = stories_completed[p] + 1
      BY <1>0, <2>0, <2>7, <3>4 DEF IncrStoriesCompleted, Types
    <3>. QED
      BY <1>0, <2>0, <2>2, <3>1, <3>3, <3>5 DEF Counted, Before
  <2>8. CASE Advance(r)
    <3> DEFINE i == current_story_index[p]
    <3>1. /\ stage[p] = "executing" /\ pc[r] = "advance" /\ pc'[r] = "idle"
          /\ snap[r].index = i /\ snap[r].count = story_count[p]
          /\ UNCHANGED <<story_count, stories_completed>>
      BY <1>0, <2>0, <2>8, TurnIsOver DEF Advance, Read
    <3>2. stories_completed[p] \in i + 1 .. i + 1 + faults
      BY <1>0, <2>1, <3>1 DEF Counted, Before
    <3>3. CASE i + 1 = story_count[p]
      <4>1. stage'[p] = "validating"
        BY <1>0, <2>0, <2>8, <3>1, <3>3 DEF Advance, UpdateStage, Types
      <4>. QED
        BY <1>0, <2>0, <3>1, <3>2, <3>3, <4>1 DEF Counted
    <3>4. CASE i + 1 # story_count[p]
      <4>1. stage'[p] = "executing" /\ current_story_index'[p] = i + 1
        BY <1>0, <2>0, <2>8, <3>1, <3>4 DEF Advance, Types
      <4>. QED
        BY <1>0, <2>0, <2>2, <3>1, <3>2, <4>1 DEF Counted, Before
    <3>. QED
      BY <3>3, <3>4
  <2>9. CASE StoryFails(r) \/ CIFailed(r) \/ Decided(r) \/ ToAwaitingApproval(r)
    <3>1. /\ \/ stage'[p] \in terminalStages
             \/ stage[p] = "validating" /\ stage'[p] = "awaiting_approval"
          /\ UNCHANGED <<story_count, stories_completed>>
      BY <1>0, <2>0, <2>9 DEF Types, Read, StoryFails, CIFailed, Decided, UpdateStage,
         ToAwaitingApproval, terminalStages
    <3>. QED
      BY <1>0, <2>0, <3>1 DEF Counted, terminalStages
  <2>10. CASE CreatePipeline(r) \/ RemoveLabel(r) \/ StillPending(r) \/ CIGreen(r)
    BY <1>0, <2>10, <2>3 DEF Types, CreatePipeline, RemoveLabel, StillPending, CIGreen,
       GoesTo, EndTurn
  <2>. QED
    BY <1>6, <2>4, <2>5, <2>6, <2>7, <2>8, <2>9, <2>10 DEF Work
<1>. QED
  BY <1>1, <1>2, <1>3, <1>4, <1>5, <1>6, Steps

-----------------------------------------------------------------------------
(* Lemma: the inductive invariant holds from the start, and every step     *)
(* keeps it.                                                               *)
LEMMA Invariance == Spec => []IInv
<1>1. ASSUME Init PROVE IInv
  <2>1. Alone /\ TurnInv /\ OnePipelinePerIssue
    BY <1>1 DEF Init, Alone, TurnInv, Undisturbed, OnePipelinePerIssue
  <2>2. PlanInv /\ CountInv
    BY <1>1 DEF Init, PlanInv, Promised, CountInv, Counted
  <2>. QED
    BY <1>1, <2>1, <2>2, InitTypes DEF IInv
<1>2. IInv /\ [Next]_vars => IInv'
  <2> SUFFICES ASSUME IInv, [Next]_vars PROVE IInv'
    OBVIOUS
  <2>1. Types' /\ OnTurn'
    BY StepTypes DEF IInv
  <2>2. Alone'
    BY StepAlone DEF IInv
  <2>. QED
    BY <2>1, <2>2, StepTurnInv, StepOnePipeline, StepPlanInv, StepCountInv DEF IInv
<1>. QED
  BY <1>1, <1>2, PTL DEF Spec

(* TypeOK, however many invocations overlap: a pipeline that executes is   *)
(* at a story of its plan, which is the one it was fanned out for, unless  *)
(* two of them met on its issue.                                           *)
THEOREM TypeCorrect == Spec => []TypeOK
<1>1. IInv => TypeOK
  BY DEF IInv, PlanInv, Promised, TypeOK, StoryOfPlan
<1>. QED
  BY <1>1, Invariance, PTL

(* OnePipelinePerIssue, for every set of issues and any number of          *)
(* invocations: PollNewIssues is idempotent across lost turns and labels   *)
(* that come back, unless two of them met on the issue.                    *)
THEOREM PollingIsIdempotent == Spec => []OnePipelinePerIssue
<1>1. IInv => OnePipelinePerIssue
  BY DEF IInv
<1>. QED
  BY <1>1, Invariance, PTL

(* ApprovedIsChecked, for plans of every size, any number of lost turns    *)
(* and any number of invocations: on an issue on which no two of them met  *)
(* no story is skipped on the way to validation, none reaches its approval *)
(* without a green CI, and the approval is asked with a count that misses  *)
(* none.                                                                   *)
THEOREM ApprovalIsEarned == Spec => []ApprovedIsChecked
<1>1. IInv => ApprovedIsChecked
  BY DEF IInv, Types, PlanInv, Promised, CountInv, Counted, ApprovedIsChecked
<1>. QED
  BY <1>1, Invariance, PTL

=============================================================================
