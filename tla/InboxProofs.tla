---------------------------- MODULE InboxProofs ----------------------------
(***************************************************************************)
(* What the bot keeps of its messages, from the event to the reply, for    *)
(* any number of events, threads, workflows and jobs, and however often    *)
(* attempts are lost and events delivered again.                           *)
(*                                                                         *)
(* The argument: a workflow has nothing downstream of where its goroutine  *)
(* is, so what the goroutine has settled (the thread, the conversation,    *)
(* the turn) is settled for all of its jobs; a job carries only an answer  *)
(* that is in the history; and jobs and replies are more than one only by  *)
(* attempts that were lost.                                                *)
(***************************************************************************)
EXTENDS Inbox, FiniteSetTheorems, TLAPS

(* A row that a command has read is of a configuration's type.             *)
ConfigRow == {NoConfig} \cup [mode : Modes, rest : 0 .. MaxChanges + 1]
ConfigInv == command \subseteq [row : ConfigRow, mode : Modes]

(* The goroutine has not come to the receive job, or may still insert it.  *)
Early(f)   == run[f] \in {"idle", "create", "converse", "turn"}
Pending(f) == Early(f) \/ run[f] = "enqueue"

(* What is downstream of a workflow's goroutine.                           *)
FlowInv ==
  \A f \in Flow :
    /\ Early(f) => LiveOf(f) = {} /\ replies[f] = <<>> /\ outputs[f] = {}
    /\ run[f] \in {"idle", "create", "converse"} => f \notin linked
    /\ run[f] \in Busy \/ f \in linked => home[f] \in Thread
    /\ run[f] = "idle" => cause[f] = {}

(* What a job carries is in the history of its thread, and so is what the  *)
(* step process put out.                                                   *)
Remembered(f, a) == home[f] \in Thread => <<f, a>> \in history[home[f]]
Carries(j) == job[j].pc = "answered" \/ job[j].kind = "slack_reply"
JobInv ==
  /\ \A j \in Live :
       /\ job[j].pc = "answered" => job[j].kind = "process"
       /\ Carries(j) => job[j].answer \in Answers /\ Remembered(job[j].flow, job[j].answer)
       /\ job[j].kind = "slack_reply" => job[j].flow \notin linked
  /\ \A f \in Flow : \A a \in outputs[f] : Remembered(f, a)

(* Until the goroutine is over, jobs and replies are all repeated ones.    *)
RepeatInv ==
  \A f \in Flow : Pending(f) => Cardinality(LiveOf(f)) + Len(replies[f]) <= lost[f]

(* An event that started a workflow is remembered, or was forgotten since. *)
CauseInv ==
  \A f \in Flow : \A e \in cause[f] : cause[f] = {e} /\ (seen[e] # "no" \/ e \in renewed)

(* Whatever lets the bot speak in a thread goes back to an invitation.     *)
InvitedInv ==
  /\ recent \cup leaving \cup signedOff \subseteq invited
  /\ \A t \in Thread : history[t] # {} => t \in invited
  /\ \A f \in Flow : home[f] # NoThread => home[f] \in invited
  /\ \A f \in Flow : cause[f] # {} => home[f] \in Thread

(* A turn that is about to be inserted has lost one race for every try but *)
(* the first, and a turn that was inserted is the workflow's only one.     *)
TurnInv ==
  /\ \A t \in Thread : \A k \in DOMAIN turns[t] :
       ~Early(turns[t][k]) /\ home[turns[t][k]] = t
  /\ \A f \in Flow : run[f] = "turn" =>
       /\ turn[f].tries \in 1 .. AddTurnTries
       /\ turn[f].next \in turn[f].began + turn[f].tries - 1 .. Len(turns[home[f]])

(* The inductive invariant.                                                *)
IInv ==
  /\ TypeOK /\ ConfigInv
  /\ FlowInv /\ JobInv /\ RepeatInv /\ CauseInv /\ InvitedInv /\ TurnInv
  /\ SaidIsRemembered /\ RepeatsAreExplained
  /\ OneFlowPerEvent /\ NoMessageDropped /\ SpeaksWhereInvited /\ TurnsAreKept
-----------------------------------------------------------------------------
(* Rows of the queue.                                                      *)

(* Lemma: a slot is free or has a row, and never both.                     *)
LEMMA RowsAreLive ==
  ASSUME RepliesTypeOK
  PROVE  /\ Free \notin Row
         /\ \A j \in Job : j \in Live <=> job[j] \in Row
<1>1. Free.pc = "free" /\ \A r \in Row : r.pc \in {"waiting", "answered"}
  BY DEF Free, Row
<1>2. Free \notin Row
  BY <1>1
<1>. QED
  BY <1>2 DEF RepliesTypeOK, Live

(* Lemma: the row that is inserted is one.                                 *)
LEMMA NewRowIsRow ==
  ASSUME NEW kind \in {"receive", "plan", "process", "respond", "slack_reply"},
         NEW f \in Flow, NEW a \in Nat
  PROVE  /\ NewRow(kind, f, a) \in Row
         /\ NewRow(kind, f, a).kind = kind /\ NewRow(kind, f, a).flow = f
         /\ NewRow(kind, f, a).pc = "waiting" /\ NewRow(kind, f, a).answer = a
  BY RepliesAssumption DEF NewRow, Row

(* Lemma: a job that is tried again is the same, from its start; only the  *)
(* answer of a slack_reply is kept.                                        *)
LEMMA RetriedIsRow ==
  ASSUME RepliesTypeOK, NEW j \in Live
  PROVE  \/ Retried(j) = Free /\ Exhausted(j)
         \/ /\ ~Exhausted(j) /\ Retried(j) \in Row /\ Retried(j).pc = "waiting"
            /\ Retried(j).flow = job[j].flow /\ Retried(j).kind = job[j].kind
            /\ job[j].kind = "slack_reply" => Retried(j).answer = job[j].answer
<1>1. job[j] \in Row
  BY RowsAreLive DEF Live
<1>2. CASE Exhausted(j)
  BY <1>2 DEF Retried
<1>3. CASE ~Exhausted(j)
  <2>1. job[j].attempt + 1 \in 1 .. JobMaxAttempts
    BY <1>1, <1>3, RepliesAssumption DEF Exhausted, Row
  <2>. QED
    BY <1>1, <1>3, <2>1 DEF Retried, Row
<1>. QED
  BY <1>2, <1>3

(* Lemma: the rows of a workflow are finitely many.                        *)
LEMMA LiveIsFinite ==
  ASSUME NEW f
  PROVE  IsFiniteSet(LiveOf(f)) /\ Cardinality(LiveOf(f)) \in Nat
<1>1. LiveOf(f) \subseteq Job
  BY DEF LiveOf, Live
<1>. QED
  BY <1>1, RepliesAssumption, FS_Subset, FS_CardinalityType

(* Lemma: losing attempts counts them, and drops the workflow of one that  *)
(* was the last of its job.                                                *)
LEMMA LoseCounts ==
  ASSUME RepliesTypeOK, NEW js \in SUBSET Live, Lose(js)
  PROVE  /\ lost' \in [Flow -> Nat] /\ dropped \subseteq dropped' /\ dropped' \subseteq Flow
         /\ \A f \in Flow : lost'[f] >= lost[f]
         /\ \A j \in js : lost'[job[j].flow] >= lost[job[j].flow] + 1
         /\ \A j \in js : Exhausted(j) => job[j].flow \in dropped'
<1>1. \A f \in Flow : IsFiniteSet(js \cap LiveOf(f)) /\ Cardinality(js \cap LiveOf(f)) \in Nat
  <2>1. \A f \in Flow : js \cap LiveOf(f) \subseteq LiveOf(f)
    OBVIOUS
  <2>. QED
    BY <2>1, LiveIsFinite, FS_Subset, FS_CardinalityType
<1>2. \A j \in js : job[j].flow \in Flow /\ Cardinality(js \cap LiveOf(job[j].flow)) >= 1
  <2> SUFFICES ASSUME NEW j \in js
               PROVE  job[j].flow \in Flow /\ Cardinality(js \cap LiveOf(job[j].flow)) >= 1
    OBVIOUS
  <2>1. job[j].flow \in Flow /\ j \in js \cap LiveOf(job[j].flow)
    BY RowsAreLive DEF Live, LiveOf, Row
  <2>. QED
    BY <1>1, <2>1, FS_EmptySet
<1>3. lost' \in [Flow -> Nat] /\ \A f \in Flow : lost'[f] = lost[f] + Cardinality(js \cap LiveOf(f))
  <2> DEFINE n(f) == Cardinality(js \cap LiveOf(f))
  <2>1. lost' = [f \in Flow |-> lost[f] + n(f)]
    BY DEF Lose
  <2>2. \A f \in Flow : n(f) \in Nat
    BY <1>1
  <2> HIDE DEF n
  <2>3. lost' \in [Flow -> Nat] /\ \A f \in Flow : lost'[f] = lost[f] + n(f)
    BY <2>1, <2>2 DEF RepliesTypeOK
  <2>. QED
    BY <2>3 DEF n
<1>4. \A f \in Flow : lost[f] \in Nat
  BY DEF RepliesTypeOK
<1>6. ASSUME NEW f \in Flow PROVE lost'[f] >= lost[f]
  <2>1. /\ lost'[f] = lost[f] + Cardinality(js \cap LiveOf(f))
        /\ Cardinality(js \cap LiveOf(f)) \in Nat /\ lost[f] \in Nat
    BY <1>1, <1>3, <1>4
  <2>. QED
    BY <2>1
<1>7. ASSUME NEW j \in js PROVE lost'[job[j].flow] >= lost[job[j].flow] + 1
  <2>1. PICK f \in Flow : f = job[j].flow
    BY <1>2
  <2>2. Cardinality(js \cap LiveOf(f)) >= 1
    BY <1>2, <2>1
  <2>3. lost'[f] >= lost[f] + 1
    BY <1>1, <1>3, <1>4, <2>2
  <2>. QED
    BY <2>1, <2>3
<1>5. dropped' = dropped \cup {job[j].flow : j \in {k \in js : Exhausted(k)}}
  BY DEF Lose
<1>8. dropped' \subseteq Flow /\ dropped \subseteq dropped'
  <2>1. {job[j].flow : j \in {k \in js : Exhausted(k)}} \subseteq Flow
    BY <1>2
  <2>2. dropped \subseteq Flow
    BY DEF RepliesTypeOK
  <2>. QED
    BY <1>5, <2>1, <2>2
<1>9. \A j \in js : Exhausted(j) => job[j].flow \in dropped'
  BY <1>5
<1>. QED
  BY <1>3, <1>6, <1>7, <1>8, <1>9
(* What the end of an attempt of job j leaves, that inserted a row, or     *)
(* none (Free).                                                            *)
Ended(j, row) ==
  /\ job' \in [Job -> {Free} \cup Row]
  /\ lost' \in [Flow -> Nat] /\ dropped \subseteq dropped' /\ dropped' \subseteq Flow
  /\ faults' \in faults .. MaxFaults
  /\ \A k \in Live' : \/ k \in Live /\ job'[k] = job[k]
                      \/ job'[k] = row /\ row # Free
                      \/ job'[k] = Retried(j) /\ ~Exhausted(j)
  /\ \A f \in Flow :
       /\ lost'[f] >= lost[f]
       /\ f # job[j].flow => LiveOf(f)' = LiveOf(f)
       /\ f = job[j].flow =>
            /\ Cardinality(LiveOf(f)') + (IF row = Free THEN 1 ELSE 0)
                 <= Cardinality(LiveOf(f)) + (lost'[f] - lost[f])
            /\ row # Free => LiveOf(f)' # {}

(* Lemma: the rows of a workflow after some of its rows changed.           *)
LEMMA LiveChanges ==
  ASSUME RepliesTypeOK, NEW f \in Flow, NEW slot \in Job,
         job' \in [Job -> {Free} \cup Row], LiveOf(f)' \subseteq LiveOf(f) \cup {slot}
  PROVE  /\ IsFiniteSet(LiveOf(f)') /\ Cardinality(LiveOf(f)') \in Nat
         /\ Cardinality(LiveOf(f)') <= Cardinality(LiveOf(f)) + 1
         /\ LiveOf(f)' \subseteq LiveOf(f) => Cardinality(LiveOf(f)') <= Cardinality(LiveOf(f))
<1>1. IsFiniteSet(LiveOf(f)) /\ Cardinality(LiveOf(f)) \in Nat
  BY LiveIsFinite
<1>2. /\ IsFiniteSet(LiveOf(f) \cup {slot})
      /\ Cardinality(LiveOf(f) \cup {slot}) \in Nat
      /\ Cardinality(LiveOf(f) \cup {slot}) <= Cardinality(LiveOf(f)) + 1
  <2>1. /\ IsFiniteSet(LiveOf(f) \cup {slot})
        /\ \/ Cardinality(LiveOf(f) \cup {slot}) = Cardinality(LiveOf(f))
           \/ Cardinality(LiveOf(f) \cup {slot}) = Cardinality(LiveOf(f)) + 1
    BY <1>1, FS_AddElement
  <2>. QED
    BY <1>1, <2>1
<1>3. /\ IsFiniteSet(LiveOf(f)')
      /\ Cardinality(LiveOf(f)') <= Cardinality(LiveOf(f) \cup {slot})
  BY <1>2, FS_Subset
<1>4. LiveOf(f)' \subseteq LiveOf(f) => Cardinality(LiveOf(f)') <= Cardinality(LiveOf(f))
  BY <1>1, FS_Subset
<1>5. Cardinality(LiveOf(f)') \in Nat
  BY <1>3, FS_CardinalityType
<1>. QED
  BY <1>1, <1>2, <1>3, <1>4, <1>5

(* Lemma: an attempt that is lost leaves its job for another attempt, or   *)
(* drops the workflow.                                                     *)
LEMMA LostAttemptEnds ==
  ASSUME RepliesTypeOK, NEW j \in Live, LostAttempt(j)
  PROVE  /\ Ended(j, Free)
         /\ \A f \in Flow : f = job[j].flow => LiveOf(f)' # {} \/ f \in dropped'
<1>1. /\ job' = [job EXCEPT ![j] = Retried(j)] /\ Lose({j})
      /\ faults' \in faults .. MaxFaults /\ j \in Job /\ job[j] \in Row
  BY RowsAreLive, RepliesAssumption DEF LostAttempt, Fault, Live, RepliesTypeOK
<1>2. job' \in [Job -> {Free} \cup Row]
  BY <1>1, RetriedIsRow DEF RepliesTypeOK
<1>3. \A k \in Live' : \/ k \in Live /\ job'[k] = job[k]
                       \/ job'[k] = Retried(j) /\ ~Exhausted(j)
  BY <1>1, RetriedIsRow DEF Live, RepliesTypeOK
<1>4. ASSUME NEW f \in Flow
      PROVE  /\ LiveOf(f)' \subseteq LiveOf(f)
             /\ f # job[j].flow => LiveOf(f)' = LiveOf(f)
             /\ f = job[j].flow => (Exhausted(j) \/ j \in LiveOf(f)')
  BY <1>1, RetriedIsRow, RowsAreLive DEF Live, LiveOf, RepliesTypeOK
<1>5. /\ lost' \in [Flow -> Nat] /\ dropped \subseteq dropped' /\ dropped' \subseteq Flow
      /\ \A f \in Flow : lost'[f] >= lost[f]
      /\ lost'[job[j].flow] >= lost[job[j].flow] + 1
      /\ Exhausted(j) => job[j].flow \in dropped'
  BY <1>1, LoseCounts
<1>6. ASSUME NEW f \in Flow, f = job[j].flow
      PROVE  Cardinality(LiveOf(f)') + 1 <= Cardinality(LiveOf(f)) + (lost'[f] - lost[f])
  <2>1. Cardinality(LiveOf(f)') \in Nat /\ Cardinality(LiveOf(f)') <= Cardinality(LiveOf(f))
    BY <1>1, <1>2, <1>4, LiveChanges
  <2>2. lost[f] \in Nat /\ lost'[f] \in Nat /\ lost'[f] >= lost[f] + 1
    BY <1>5, <1>6 DEF RepliesTypeOK
  <2>. QED
    BY <2>1, <2>2, LiveIsFinite
<1>. QED
  BY <1>1, <1>2, <1>3, <1>4, <1>5, <1>6 DEF Ended

(* Lemma: the end of an attempt adds to a workflow's jobs only when an     *)
(* attempt is lost.                                                        *)
LEMMA FinishEnds ==
  ASSUME RepliesTypeOK, NEW j \in Live, NEW row,
         row = Free \/ (row \in Row /\ row.flow = job[j].flow), Finish(j, row)
  PROVE  Ended(j, row)
<1>0. /\ j \in Job /\ job[j] \in Row /\ job[j].flow \in Flow
      /\ row \in {Free} \cup Row /\ Free \notin Row
  BY RowsAreLive DEF Live, Row
<1>1. CASE job' = [job EXCEPT ![j] = row] /\ UNCHANGED <<lost, dropped, faults>>
  <2>1. job' \in [Job -> {Free} \cup Row]
    BY <1>0, <1>1 DEF RepliesTypeOK
  <2>2. \A k \in Live' : \/ k \in Live /\ job'[k] = job[k]
                         \/ job'[k] = row /\ row # Free
    BY <1>0, <1>1 DEF Live, RepliesTypeOK
  <2>3. /\ lost' \in [Flow -> Nat] /\ dropped \subseteq dropped' /\ dropped' \subseteq Flow
        /\ faults' \in faults .. MaxFaults
    BY <1>1, RepliesAssumption DEF RepliesTypeOK
  <2>4. ASSUME NEW f \in Flow PROVE f # job[j].flow => LiveOf(f)' = LiveOf(f)
    BY <1>0, <1>1 DEF Live, LiveOf, RepliesTypeOK
  <2>5. ASSUME NEW f \in Flow, f = job[j].flow
        PROVE  /\ row = Free => LiveOf(f)' = LiveOf(f) \ {j}
               /\ row # Free => LiveOf(f)' = LiveOf(f)
               /\ j \in LiveOf(f)
    BY <1>0, <1>1, <2>5 DEF Live, LiveOf, RepliesTypeOK
  <2>6. ASSUME NEW f \in Flow, f = job[j].flow
        PROVE  Cardinality(LiveOf(f)') + (IF row = Free THEN 1 ELSE 0) <= Cardinality(LiveOf(f))
    <3>1. IsFiniteSet(LiveOf(f)) /\ Cardinality(LiveOf(f)) \in Nat
      BY LiveIsFinite
    <3>2. Cardinality(LiveOf(f) \ {j}) = Cardinality(LiveOf(f)) - 1
      BY <2>5, <2>6, <3>1, FS_RemoveElement
    <3>3. CASE row = Free
      <4>1. LiveOf(f)' = LiveOf(f) \ {j}
        BY <2>5, <2>6, <3>3
      <4>2. Cardinality(LiveOf(f)') = Cardinality(LiveOf(f)) - 1
        BY <3>2, <4>1
      <4>. QED
        BY <3>1, <3>3, <4>2
    <3>4. CASE row # Free
      BY <2>5, <2>6, <3>1, <3>4
    <3>. QED
      BY <3>3, <3>4
  <2>7. \A f \in Flow : lost[f] \in Nat /\ lost'[f] = lost[f]
    BY <1>1 DEF RepliesTypeOK
  <2>8. \A f \in Flow : Cardinality(LiveOf(f)) \in Nat
    BY LiveIsFinite
  <2>9. \A f \in Flow : f = job[j].flow =>
          Cardinality(LiveOf(f)') + (IF row = Free THEN 1 ELSE 0)
            <= Cardinality(LiveOf(f)) + (lost'[f] - lost[f])
    BY <2>6, <2>7, <2>8
  <2>10. \A f \in Flow : lost'[f] >= lost[f]
    BY <2>7
  <2>. QED
    BY <2>1, <2>2, <2>3, <2>4, <2>5, <2>9, <2>10 DEF Ended
<1>2. ASSUME NEW slot \in Job \ Live, Fault, Lose({j}),
             job' = [job EXCEPT ![slot] = row, ![j] = Retried(j)]
      PROVE  Ended(j, row)
  <2>1. job' \in [Job -> {Free} \cup Row]
    BY <1>0, <1>2, RetriedIsRow DEF RepliesTypeOK
  <2>2. \A k \in Live' : \/ k \in Live /\ job'[k] = job[k]
                         \/ job'[k] = row /\ row # Free
                         \/ job'[k] = Retried(j) /\ ~Exhausted(j)
    BY <1>0, <1>2, RetriedIsRow DEF Live, RepliesTypeOK
  <2>3. /\ lost' \in [Flow -> Nat] /\ dropped \subseteq dropped' /\ dropped' \subseteq Flow
        /\ \A f \in Flow : lost'[f] >= lost[f]
        /\ lost'[job[j].flow] >= lost[job[j].flow] + 1
    BY <1>0, <1>2, LoseCounts
  <2>4. ASSUME NEW f \in Flow
        PROVE  /\ f # job[j].flow => LiveOf(f)' = LiveOf(f)
               /\ LiveOf(f)' \subseteq LiveOf(f) \cup {slot}
               /\ row = Free => LiveOf(f)' \subseteq LiveOf(f)
               /\ row # Free /\ f = job[j].flow => slot \in LiveOf(f)'
    BY <1>0, <1>2, RetriedIsRow DEF Live, LiveOf, RepliesTypeOK
  <2>5. ASSUME NEW f \in Flow, f = job[j].flow
        PROVE  Cardinality(LiveOf(f)') + (IF row = Free THEN 1 ELSE 0)
                 <= Cardinality(LiveOf(f)) + (lost'[f] - lost[f])
    <3>1. /\ Cardinality(LiveOf(f)') \in Nat
          /\ Cardinality(LiveOf(f)') <= Cardinality(LiveOf(f)) + 1
          /\ row = Free => Cardinality(LiveOf(f)') <= Cardinality(LiveOf(f))
      BY <2>1, <2>4, LiveChanges
    <3>2. lost[f] \in Nat /\ lost'[f] \in Nat /\ lost'[f] >= lost[f] + 1
      BY <2>3, <2>5 DEF RepliesTypeOK
    <3>. QED
      BY <3>1, <3>2, LiveIsFinite
  <2>6. faults' \in faults .. MaxFaults
    BY <1>2, RepliesAssumption DEF Fault, RepliesTypeOK
  <2>. QED
    BY <2>1, <2>2, <2>3, <2>4, <2>5, <2>6 DEF Ended
<1>. QED
  BY <1>1, <1>2 DEF Finish
-----------------------------------------------------------------------------
(* The jobs of a workflow.                                                 *)

(* What a job does to what it shares with the others: the history grows by *)
(* its thread's exchanges only.                                            *)
HistoryGrows(j) ==
  /\ \A t \in Thread : history[t] \subseteq history'[t]
  /\ \A t \in Thread : t # home[job[j].flow] => history'[t] = history[t]
  /\ recent' \subseteq recent \cup ({home[job[j].flow]} \cap Thread)

(* A reply that a workflow gets is remembered, and goes where it must.     *)
RepliesGrow(f) ==
  \/ replies'[f] = replies[f]
  \/ \E a \in Answers, via \in {"outbox", "post"} :
       /\ replies'[f] = Append(replies[f], [answer |-> a, via |-> via])
       /\ home[f] \in Thread => <<f, a>> \in history'[home[f]]
       /\ via = "outbox" <=> f \in linked

(* What a step of job j does.                                              *)
Chained(j) ==
  /\ UNCHANGED <<home, linked, signedOff>>
  /\ HistoryGrows(j)
  /\ faults <= faults' /\ dropped \subseteq dropped'
  /\ \A f \in Flow : f # job[j].flow =>
       /\ LiveOf(f)' = LiveOf(f)
       /\ replies'[f] = replies[f] /\ outputs'[f] = outputs[f] /\ lost'[f] >= lost[f]
  /\ \A f \in Flow : f = job[j].flow =>
       /\ Cardinality(LiveOf(f)') + Len(replies'[f])
            <= Cardinality(LiveOf(f)) + Len(replies[f]) + (lost'[f] - lost[f])
       /\ LiveOf(f)' # {} \/ replies'[f] # <<>> \/ f \in dropped'
       /\ RepliesGrow(f)

(* Lemma: a reply more, a job less.                                        *)
LEMMA ReplyCounts ==
  ASSUME RepliesTypeOK, NEW f \in Flow, NEW a \in Answers, NEW via \in {"outbox", "post"},
         replies' = [replies EXCEPT ![f] = Append(@, [answer |-> a, via |-> via])]
  PROVE  /\ replies' \in [Flow -> Seq([answer : Answers, via : {"outbox", "post"}])]
         /\ replies'[f] = Append(replies[f], [answer |-> a, via |-> via])
         /\ replies'[f] # <<>>
         /\ Len(replies'[f]) = Len(replies[f]) + 1 /\ Len(replies[f]) \in Nat
         /\ \A g \in Flow : g # f => replies'[g] = replies[g]
<1>1. replies[f] \in Seq([answer : Answers, via : {"outbox", "post"}])
  BY DEF RepliesTypeOK
<1>2. /\ Append(replies[f], [answer |-> a, via |-> via])
           \in Seq([answer : Answers, via : {"outbox", "post"}])
      /\ Len(Append(replies[f], [answer |-> a, via |-> via])) = Len(replies[f]) + 1
      /\ Len(replies[f]) \in Nat
  BY <1>1
<1>3. Append(replies[f], [answer |-> a, via |-> via]) # <<>>
  <2>1. Len(replies[f]) + 1 # 0
    BY <1>2
  <2>2. \A s : s = <<>> => Len(s) = 0
    OBVIOUS
  <2>. QED
    BY <1>2, <2>1, <2>2
<1>. QED
  BY <1>2, <1>3 DEF RepliesTypeOK

(* Lemma: the row that an attempt inserts carries what it must, and so do  *)
(* all the others still.                                                   *)
LEMMA EndedKeepsJobs ==
  ASSUME RepliesTypeOK, JobInv, NEW j \in Live, NEW row, Ended(j, row),
         UNCHANGED <<home, linked>>, \A t \in Thread : history[t] \subseteq history'[t],
         row # Free =>
           /\ row \in Row /\ row.flow = job[j].flow /\ row.pc = "waiting"
           /\ row.kind = "slack_reply" =>
                /\ row.answer \in Answers /\ row.flow \notin linked
                /\ Remembered(row.flow, row.answer)
  PROVE  \A k \in Live' :
           /\ job'[k].pc = "answered" => job'[k].kind = "process"
           /\ Carries(k)' => job'[k].answer \in Answers /\ Remembered(job[k].flow, job[k].answer)'
           /\ job'[k].kind = "slack_reply" => job'[k].flow \notin linked'
<1> SUFFICES ASSUME NEW k \in Live'
             PROVE  /\ job'[k].pc = "answered" => job'[k].kind = "process"
                    /\ Carries(k)' =>
                         job'[k].answer \in Answers /\ Remembered(job[k].flow, job[k].answer)'
                    /\ job'[k].kind = "slack_reply" => job'[k].flow \notin linked'
  OBVIOUS
<1>1. CASE k \in Live /\ job'[k] = job[k]
  <2>1. job[k].flow \in Flow /\ home[job[k].flow] \in Thread \cup {NoThread}
    BY <1>1, RowsAreLive DEF Live, Row, RepliesTypeOK
  <2>. QED
    BY <1>1, <2>1 DEF JobInv, Carries, Remembered
<1>2. CASE job'[k] = row /\ row # Free
  BY <1>2 DEF Carries, Remembered
<1>3. CASE job'[k] = Retried(j) /\ ~Exhausted(j)
  BY <1>3, RetriedIsRow DEF JobInv, Carries, Remembered
<1>. QED
  BY <1>1, <1>2, <1>3 DEF Ended

(* Lemma: what a step of a job leaves when it replied to nobody.           *)
LEMMA EndedChains ==
  ASSUME RepliesTypeOK, NEW j \in Live, NEW row, Ended(j, row),
         row # Free \/ \A f \in Flow : f = job[j].flow => LiveOf(f)' # {} \/ f \in dropped',
         UNCHANGED <<home, linked, signedOff, replies>>, HistoryGrows(j),
         \A f \in Flow : f # job[j].flow => outputs'[f] = outputs[f]
  PROVE  Chained(j)
<1>1. ASSUME NEW f \in Flow, f = job[j].flow
      PROVE  /\ Cardinality(LiveOf(f)') + Len(replies'[f])
                  <= Cardinality(LiveOf(f)) + Len(replies[f]) + (lost'[f] - lost[f])
             /\ LiveOf(f)' # {} \/ f \in dropped'
  <2>1. /\ lost[f] \in Nat /\ lost'[f] \in Nat /\ Len(replies[f]) \in Nat
        /\ replies'[f] = replies[f]
    BY <1>1 DEF Ended, RepliesTypeOK
  <2>2. Cardinality(LiveOf(f)) \in Nat
    BY LiveIsFinite
  <2>3. IsFiniteSet(LiveOf(f)') /\ Cardinality(LiveOf(f)') \in Nat
    <3>1. LiveOf(f)' \subseteq Job
      BY DEF LiveOf, Live
    <3>. QED
      BY <3>1, RepliesAssumption, FS_Subset, FS_CardinalityType
  <2>4. Cardinality(LiveOf(f)') + (IF row = Free THEN 1 ELSE 0)
          <= Cardinality(LiveOf(f)) + (lost'[f] - lost[f])
    BY <1>1 DEF Ended
  <2>5. Cardinality(LiveOf(f)') <= Cardinality(LiveOf(f)) + (lost'[f] - lost[f])
    BY <2>1, <2>2, <2>3, <2>4
  <2>6. LiveOf(f)' # {} \/ f \in dropped'
    BY <1>1 DEF Ended
  <2>. QED
    BY <2>1, <2>2, <2>3, <2>5, <2>6
<1>2. faults <= faults' /\ dropped \subseteq dropped'
  BY RepliesAssumption DEF Ended, RepliesTypeOK
<1>. QED
  BY <1>1, <1>2 DEF Ended, Chained, RepliesGrow

(* Lemma: and when it replied.                                             *)
LEMMA EndedReplies ==
  ASSUME RepliesTypeOK, NEW j \in Live, Ended(j, Free),
         NEW a \in Answers, NEW via \in {"outbox", "post"}, Reply(j, a, via),
         Remembered(job[j].flow, a), (via = "outbox") <=> (job[j].flow \in linked),
         UNCHANGED <<home, linked, signedOff, outputs, history, recent>>
  PROVE  Chained(j) /\ replies' \in [Flow -> Seq([answer : Answers, via : {"outbox", "post"}])]
<1>0. PICK f \in Flow : f = job[j].flow
  BY RowsAreLive DEF Live, Row
<1>1. replies' = [replies EXCEPT ![f] = Append(@, [answer |-> a, via |-> via])]
  BY <1>0 DEF Reply
<1>2. /\ replies' \in [Flow -> Seq([answer : Answers, via : {"outbox", "post"}])]
      /\ replies'[f] = Append(replies[f], [answer |-> a, via |-> via])
      /\ replies'[f] # <<>>
      /\ Len(replies'[f]) = Len(replies[f]) + 1 /\ Len(replies[f]) \in Nat
      /\ \A g \in Flow : g # f => replies'[g] = replies[g]
  BY <1>1, ReplyCounts
<1>3. Cardinality(LiveOf(f)') + Len(replies'[f])
        <= Cardinality(LiveOf(f)) + Len(replies[f]) + (lost'[f] - lost[f])
  <2>1. lost[f] \in Nat /\ lost'[f] \in Nat
    BY DEF Ended, RepliesTypeOK
  <2>2. Cardinality(LiveOf(f)) \in Nat
    BY LiveIsFinite
  <2>3. IsFiniteSet(LiveOf(f)') /\ Cardinality(LiveOf(f)') \in Nat
    <3>1. LiveOf(f)' \subseteq Job
      BY DEF LiveOf, Live
    <3>. QED
      BY <3>1, RepliesAssumption, FS_Subset, FS_CardinalityType
  <2>4. Cardinality(LiveOf(f)') + 1 <= Cardinality(LiveOf(f)) + (lost'[f] - lost[f])
    BY <1>0 DEF Ended
  <2>. QED
    BY <1>2, <2>1, <2>2, <2>3, <2>4
<1>4. faults <= faults' /\ dropped \subseteq dropped'
  BY RepliesAssumption DEF Ended, RepliesTypeOK
<1>5. RepliesGrow(f)
  BY <1>0, <1>2 DEF RepliesGrow, Remembered
<1>. QED
  BY <1>0, <1>2, <1>3, <1>4, <1>5 DEF Ended, Chained, HistoryGrows

(* Lemma: outputs stay remembered as the history grows.                    *)
LEMMA OutputsStay ==
  ASSUME RepliesTypeOK, JobInv, UNCHANGED home,
         \A t \in Thread : history[t] \subseteq history'[t],
         \A f \in Flow : \A a \in outputs'[f] : a \in outputs[f] \/ Remembered(f, a)
  PROVE  \A f \in Flow : \A a \in outputs'[f] : Remembered(f, a)'
<1> SUFFICES ASSUME NEW f \in Flow, NEW a \in outputs'[f] PROVE Remembered(f, a)'
  OBVIOUS
<1>1. Remembered(f, a)
  BY DEF JobInv
<1>. QED
  BY <1>1 DEF Remembered

(* What is left of the invariant for one step of a job.                    *)
ChainHolds(j) == RepliesTypeOK' /\ JobInv' /\ Chained(j)

(* Lemma: an attempt that is lost in a step that said and put out nothing. *)
LEMMA StepLost ==
  ASSUME RepliesTypeOK, JobInv, NEW j \in Live, LostAttempt(j),
         UNCHANGED <<home, linked, messages, replies, asked>>,
         status' \in [Flow -> {"none", "running", "completed"}],
         outputs' \in [Flow -> SUBSET Answers],
         \A f \in Flow : f # job[j].flow => outputs'[f] = outputs[f],
         \A f \in Flow : \A a \in outputs'[f] : a \in outputs[f] \/ Remembered(f, a)
  PROVE  ChainHolds(j)
<1>1. Ended(j, Free) /\ \A f \in Flow : f = job[j].flow => LiveOf(f)' # {} \/ f \in dropped'
  BY LostAttemptEnds
<1>2. HistoryGrows(j) /\ \A t \in Thread : history[t] \subseteq history'[t]
  BY DEF HistoryGrows, messages
<1>3. Chained(j)
  BY <1>1, <1>2, EndedChains DEF messages
<1>4. JobInv'
  <2>1. \A k \in Live' :
           /\ job'[k].pc = "answered" => job'[k].kind = "process"
           /\ Carries(k)' => job'[k].answer \in Answers /\ Remembered(job[k].flow, job[k].answer)'
           /\ job'[k].kind = "slack_reply" => job'[k].flow \notin linked'
    BY <1>1, <1>2, EndedKeepsJobs
  <2>2. \A f \in Flow : \A a \in outputs'[f] : Remembered(f, a)'
    BY <1>2, OutputsStay
  <2>. QED
    BY <2>1, <2>2 DEF JobInv
<1>5. RepliesTypeOK'
  <2>1. faults' \in 0 .. MaxFaults
    BY <1>1, RepliesAssumption DEF Ended, RepliesTypeOK
  <2>. QED
    BY <1>1, <2>1 DEF Ended, RepliesTypeOK, messages
<1>. QED
  BY <1>3, <1>4, <1>5 DEF ChainHolds

(* Lemma: an attempt that comes to its end and inserts the next job.       *)
LEMMA StepFinish ==
  ASSUME RepliesTypeOK, JobInv, NEW j \in Live,
         NEW row \in Row, row.flow = job[j].flow, row.pc = "waiting", Finish(j, row),
         row.kind = "slack_reply" =>
           row.answer \in Answers /\ row.flow \notin linked /\ Remembered(row.flow, row.answer),
         UNCHANGED <<home, linked, messages, replies, asked>>,
         status' \in [Flow -> {"none", "running", "completed"}],
         outputs' \in [Flow -> SUBSET Answers],
         \A f \in Flow : f # job[j].flow => outputs'[f] = outputs[f],
         \A f \in Flow : \A a \in outputs'[f] : a \in outputs[f] \/ Remembered(f, a)
  PROVE  ChainHolds(j)
<1>1. Ended(j, row) /\ row # Free
  BY FinishEnds, RowsAreLive
<1>2. HistoryGrows(j) /\ \A t \in Thread : history[t] \subseteq history'[t]
  BY DEF HistoryGrows, messages
<1>3. Chained(j)
  BY <1>1, <1>2, EndedChains DEF messages
<1>4. JobInv'
  <2>1. \A k \in Live' :
           /\ job'[k].pc = "answered" => job'[k].kind = "process"
           /\ Carries(k)' => job'[k].answer \in Answers /\ Remembered(job[k].flow, job[k].answer)'
           /\ job'[k].kind = "slack_reply" => job'[k].flow \notin linked'
    BY <1>1, <1>2, EndedKeepsJobs
  <2>2. \A f \in Flow : \A a \in outputs'[f] : Remembered(f, a)'
    BY <1>2, OutputsStay
  <2>. QED
    BY <2>1, <2>2 DEF JobInv
<1>5. RepliesTypeOK'
  <2>1. faults' \in 0 .. MaxFaults
    BY <1>1, RepliesAssumption DEF Ended, RepliesTypeOK
  <2>. QED
    BY <1>1, <2>1 DEF Ended, RepliesTypeOK, messages
<1>. QED
  BY <1>3, <1>4, <1>5 DEF ChainHolds

(* Lemma: an attempt that comes to its end with a reply.                   *)
LEMMA StepReply ==
  ASSUME RepliesTypeOK, JobInv, NEW j \in Live, Finish(j, Free),
         NEW a \in Answers, NEW via \in {"outbox", "post"}, Reply(j, a, via),
         Remembered(job[j].flow, a), (via = "outbox") <=> (job[j].flow \in linked),
         UNCHANGED <<home, linked, messages, outputs, asked>>,
         status' \in [Flow -> {"none", "running", "completed"}]
  PROVE  ChainHolds(j)
<1>1. Ended(j, Free)
  BY FinishEnds
<1>2. \A t \in Thread : history[t] \subseteq history'[t]
  BY DEF messages
<1>3. Chained(j) /\ replies' \in [Flow -> Seq([answer : Answers, via : {"outbox", "post"}])]
  BY <1>1, EndedReplies DEF messages
<1>4. JobInv'
  <2>1. \A k \in Live' :
           /\ job'[k].pc = "answered" => job'[k].kind = "process"
           /\ Carries(k)' => job'[k].answer \in Answers /\ Remembered(job[k].flow, job[k].answer)'
           /\ job'[k].kind = "slack_reply" => job'[k].flow \notin linked'
    BY <1>1, <1>2, EndedKeepsJobs
  <2>2. \A f \in Flow : \A b \in outputs'[f] : Remembered(f, b)'
    BY <1>2, OutputsStay
  <2>. QED
    BY <2>1, <2>2 DEF JobInv
<1>5. RepliesTypeOK'
  <2>1. faults' \in 0 .. MaxFaults
    BY <1>1, RepliesAssumption DEF Ended, RepliesTypeOK
  <2>. QED
    BY <1>1, <1>3, <2>1 DEF Ended, RepliesTypeOK, messages
<1>. QED
  BY <1>3, <1>4, <1>5 DEF ChainHolds

(* Lemma: the answer of the model is in the history before any job has it. *)
LEMMA StepProcess ==
  ASSUME RepliesTypeOK, JobInv, RepeatsAreExplained, NEW j \in Live, ProcessMessage(j)
  PROVE  ChainHolds(j)
<1>1. PICK f \in Flow : f = job[j].flow
  BY RowsAreLive DEF Live, Row
<1>2. PICK a \in Answers :
        /\ a = asked[f] + 1
        /\ asked' = [asked EXCEPT ![f] = a]
        /\ job' = [job EXCEPT ![j].pc = "answered", ![j].answer = a]
        /\ IF home[f] # NoThread THEN SaveThreadMessages(home[f], <<f, a>>)
                                 ELSE UNCHANGED <<history, recent>>
  <2>1. asked[f] + 1 \in Answers
    BY DEF RepliesTypeOK, Answers
  <2>. QED
    BY <1>1, <2>1 DEF ProcessMessage, Threaded
<1>3. /\ job[j].kind = "process" /\ job[j].pc = "waiting" /\ job[j] \in Row /\ j \in Job
      /\ UNCHANGED <<tables, signedOff, replies, lost, dropped, faults>>
  BY RowsAreLive DEF ProcessMessage, At, Live
<1>4. /\ job' \in [Job -> {Free} \cup Row]
      /\ job'[j] \in Row
      /\ job'[j].flow = f /\ job'[j].kind = "process" /\ job'[j].answer = a
      /\ job'[j].pc = "answered"
      /\ \A k \in Job : k # j => job'[k] = job[k]
  <2>1. [job[j] EXCEPT !.pc = "answered", !.answer = a] \in Row
    BY <1>2, <1>3 DEF Row, Answers
  <2>2. job' = [job EXCEPT ![j] = [job[j] EXCEPT !.pc = "answered", !.answer = a]]
    BY <1>2, <1>3 DEF RepliesTypeOK
  <2>. QED
    BY <1>1, <1>3, <2>1, <2>2 DEF RepliesTypeOK, Row
<1>5. /\ home[f] \in Thread => history' = [history EXCEPT ![home[f]] = @ \cup {<<f, a>>}]
      /\ home[f] \in Thread => recent' = recent \cup {home[f]}
      /\ home[f] \notin Thread => UNCHANGED <<history, recent>>
      /\ home[f] \in Thread \cup {NoThread} /\ NoThread \notin Thread
  BY <1>2, RepliesAssumption DEF SaveThreadMessages, RepliesTypeOK
<1>6. /\ \A t \in Thread : history[t] \subseteq history'[t]
      /\ HistoryGrows(j)
      /\ home[f] \in Thread => <<f, a>> \in history'[home[f]]
      /\ history' \in [Thread -> SUBSET (Flow \X Answers)] /\ recent' \subseteq Thread
  <2>1. CASE home[f] \in Thread
    <3>1. /\ history' \in [Thread -> SUBSET (Flow \X Answers)]
          /\ history'[home[f]] = history[home[f]] \cup {<<f, a>>}
          /\ \A t \in Thread : t # home[f] => history'[t] = history[t]
      <4>1. PICK t0 \in Thread : t0 = home[f]
        BY <2>1
      <4>2. history \in [Thread -> SUBSET (Flow \X Answers)]
        BY DEF RepliesTypeOK
      <4> DEFINE kept == history[t0] \cup {<<f, a>>}
      <4>3. kept \in SUBSET (Flow \X Answers)
        BY <4>2
      <4>4. history' = [history EXCEPT ![t0] = kept]
        BY <1>5, <4>1
      <4> HIDE DEF kept
      <4>5. /\ history' \in [Thread -> SUBSET (Flow \X Answers)] /\ history'[t0] = kept
            /\ \A t \in Thread : t # t0 => history'[t] = history[t]
        BY <4>2, <4>3, <4>4
      <4>. QED
        BY <4>1, <4>5 DEF kept
    <3>. QED
      BY <1>1, <1>5, <2>1, <3>1 DEF HistoryGrows, RepliesTypeOK
  <2>2. CASE home[f] \notin Thread
    BY <1>1, <1>5, <2>2 DEF HistoryGrows, RepliesTypeOK
  <2>. QED
    BY <2>1, <2>2
<1>7. /\ Live' = Live /\ \A g \in Flow : LiveOf(g)' = LiveOf(g)
  <2>1. Live' = Live
    BY <1>3, <1>4, RowsAreLive DEF Live
  <2>2. \A k \in Live : job'[k].flow = job[k].flow
    BY <1>1, <1>4 DEF Live
  <2>. QED
    BY <2>1, <2>2 DEF LiveOf
<1>8. Chained(j)
  <2>1. j \in LiveOf(f)
    BY <1>1 DEF LiveOf
  <2>2. /\ UNCHANGED <<home, linked, signedOff, replies, outputs, lost, faults, dropped>>
    BY <1>3 DEF tables
  <2>3. LiveOf(f)' # {} /\ RepliesGrow(f)
    BY <1>7, <2>1, <2>2 DEF RepliesGrow
  <2>4. /\ Cardinality(LiveOf(f)) \in Nat /\ Len(replies[f]) \in Nat
        /\ \A g \in Flow : lost[g] \in Nat /\ lost'[g] = lost[g]
        /\ faults \in Nat
    BY <2>2, LiveIsFinite, RepliesAssumption DEF RepliesTypeOK
  <2>5. Cardinality(LiveOf(f)') + Len(replies'[f])
          <= Cardinality(LiveOf(f)) + Len(replies[f]) + (lost'[f] - lost[f])
    BY <1>7, <2>2, <2>4
  <2>6. faults <= faults' /\ \A g \in Flow : lost'[g] >= lost[g]
    BY <2>2, <2>4
  <2>. QED
    BY <1>1, <1>6, <1>7, <2>2, <2>3, <2>5, <2>6 DEF Chained
<1>9. JobInv'
  <2>1. ASSUME NEW k \in Live'
        PROVE  /\ job'[k].pc = "answered" => job'[k].kind = "process"
               /\ Carries(k)' =>
                    job'[k].answer \in Answers /\ Remembered(job[k].flow, job[k].answer)'
               /\ job'[k].kind = "slack_reply" => job'[k].flow \notin linked'
    <3>1. CASE k = j
      BY <1>2, <1>3, <1>4, <1>6, <3>1 DEF Carries, Remembered, tables
    <3>2. CASE k # j
      <4>1. k \in Live /\ job'[k] = job[k] /\ job[k].flow \in Flow
        BY <1>4, <1>7, <2>1, <3>2, RowsAreLive DEF Live, Row
      <4>. QED
        BY <1>3, <1>6, <4>1 DEF JobInv, Carries, Remembered, tables
    <3>. QED
      BY <3>1, <3>2
  <2>2. \A g \in Flow : \A b \in outputs'[g] : Remembered(g, b)'
    BY <1>3, <1>6, OutputsStay DEF JobInv, tables
  <2>. QED
    BY <2>1, <2>2 DEF JobInv
<1>10. RepliesTypeOK'
  <2>1. asked' \in [Flow -> Nat]
    BY <1>2 DEF RepliesTypeOK, Answers
  <2>. QED
    BY <1>3, <1>4, <1>6, <2>1 DEF RepliesTypeOK, tables
<1>. QED
  BY <1>8, <1>9, <1>10 DEF ChainHolds

(* Lemma: a reply that Slack refuses ends the workflow's job, and drops it.*)
LEMMA StepRefused ==
  ASSUME RepliesTypeOK, JobInv, NEW j \in Live, PostRefused(j)
  PROVE  ChainHolds(j)
<1>1. PICK f \in Flow : f = job[j].flow
  BY RowsAreLive DEF Live, Row
<1>2. /\ job' = [job EXCEPT ![j] = Free] /\ dropped' = dropped \cup {f}
      /\ UNCHANGED <<tables, messages, replies, asked, lost>> /\ faults' \in faults .. MaxFaults
      /\ j \in Job
  <2>1. faults' = faults \/ Fault
    BY DEF PostRefused
  <2>2. faults' \in faults .. MaxFaults
    BY <2>1, RepliesAssumption DEF Fault, RepliesTypeOK
  <2>. QED
    BY <1>1, <2>2 DEF PostRefused, Live
<1>3. /\ Live' = Live \ {j} /\ \A k \in Live' : job'[k] = job[k]
      /\ job' \in [Job -> {Free} \cup Row]
  BY <1>2 DEF Live, RepliesTypeOK
<1>4. \A g \in Flow : IF g = f THEN LiveOf(g)' \subseteq LiveOf(g) ELSE LiveOf(g)' = LiveOf(g)
  BY <1>1, <1>3 DEF LiveOf
<1>5. Chained(j)
  <2>1. Cardinality(LiveOf(f)') \in Nat /\ Cardinality(LiveOf(f)') <= Cardinality(LiveOf(f))
    BY <1>2, <1>3, <1>4, LiveChanges
  <2>2. /\ Cardinality(LiveOf(f)) \in Nat /\ Len(replies[f]) \in Nat
        /\ \A g \in Flow : lost[g] \in Nat /\ lost'[g] = lost[g]
        /\ faults \in Nat /\ faults' \in Nat /\ faults <= faults'
    BY <1>2, LiveIsFinite, RepliesAssumption DEF RepliesTypeOK
  <2>3. Cardinality(LiveOf(f)') + Len(replies'[f])
          <= Cardinality(LiveOf(f)) + Len(replies[f]) + (lost'[f] - lost[f])
    BY <1>2, <2>1, <2>2
  <2>4. HistoryGrows(j) /\ RepliesGrow(f) /\ \A g \in Flow : lost'[g] >= lost[g]
    BY <1>2, <2>2 DEF HistoryGrows, RepliesGrow, messages
  <2>. QED
    BY <1>1, <1>2, <1>4, <2>2, <2>3, <2>4 DEF Chained, tables, messages
<1>6. JobInv'
  <2>1. ASSUME NEW k \in Live'
        PROVE  /\ job'[k].pc = "answered" => job'[k].kind = "process"
               /\ Carries(k)' =>
                    job'[k].answer \in Answers /\ Remembered(job[k].flow, job[k].answer)'
               /\ job'[k].kind = "slack_reply" => job'[k].flow \notin linked'
    BY <1>2, <1>3 DEF JobInv, Carries, Remembered, tables, messages
  <2>2. \A g \in Flow : \A b \in outputs'[g] : Remembered(g, b)'
    BY <1>2 DEF JobInv, tables, messages, Remembered
  <2>. QED
    BY <2>1, <2>2 DEF JobInv
<1>7. RepliesTypeOK'
  <2>1. faults' \in 0 .. MaxFaults
    BY <1>2, RepliesAssumption DEF RepliesTypeOK
  <2>. QED
    BY <1>2, <1>3, <2>1 DEF RepliesTypeOK, tables, messages
<1>. QED
  BY <1>5, <1>6, <1>7 DEF ChainHolds

(* Lemma: every step of a job keeps what the jobs rely on.                 *)
LEMMA StepChain ==
  ASSUME RepliesTypeOK, JobInv, RepeatsAreExplained, NEW j \in Job, ChainStep(j)
  PROVE  j \in Live /\ ChainHolds(j)
<1>1. j \in Live
  BY DEF ChainStep, Receive, Plan, ProcessMessage, RecordAnswer, Respond, Post,
     PostRefused,
         AttemptFails, At
<1>2. PICK f \in Flow : f = job[j].flow
  BY <1>1, RowsAreLive DEF Live, Row
<1>3. CASE Receive(j)
  <2>1. UNCHANGED <<tables, messages, replies, asked>> /\ Finish(j, NewRow("plan", f, 0))
    BY <1>2, <1>3 DEF Receive
  <2>2. UNCHANGED <<status, home, linked, outputs>>
    BY <2>1 DEF tables
  <2>3. /\ NewRow("plan", f, 0) \in Row /\ NewRow("plan", f, 0).flow = f
        /\ NewRow("plan", f, 0).pc = "waiting" /\ NewRow("plan", f, 0).kind = "plan"
    BY NewRowIsRow
  <2>. QED
    BY <1>1, <1>2, <2>1, <2>2, <2>3, StepFinish DEF RepliesTypeOK
<1>4. CASE Plan(j)
  <2>1. UNCHANGED <<tables, messages, replies, asked>> /\ Finish(j, NewRow("process", f, 0))
    BY <1>2, <1>4 DEF Plan
  <2>2. UNCHANGED <<status, home, linked, outputs>>
    BY <2>1 DEF tables
  <2>3. /\ NewRow("process", f, 0) \in Row /\ NewRow("process", f, 0).flow = f
        /\ NewRow("process", f, 0).pc = "waiting" /\ NewRow("process", f, 0).kind = "process"
    BY NewRowIsRow
  <2>. QED
    BY <1>1, <1>2, <2>1, <2>2, <2>3, StepFinish DEF RepliesTypeOK
<1>5. CASE ProcessMessage(j)
  BY <1>1, <1>5, StepProcess
<1>6. CASE RecordAnswer(j)
  <2>1. /\ job[j].answer \in Answers /\ Remembered(f, job[j].answer)
    BY <1>1, <1>2, <1>6 DEF RecordAnswer, At, JobInv, Carries
  <2>2. /\ outputs' = [outputs EXCEPT ![f] = @ \cup {job[j].answer}]
        /\ UNCHANGED <<status, home, linked, messages, replies, asked>>
        /\ Finish(j, NewRow("respond", f, 0)) \/ LostAttempt(j)
    BY <1>2, <1>6 DEF RecordAnswer, SaveOutput
  <2>3. /\ outputs' \in [Flow -> SUBSET Answers]
        /\ \A g \in Flow : g # f => outputs'[g] = outputs[g]
        /\ \A g \in Flow : \A a \in outputs'[g] : a \in outputs[g] \/ Remembered(g, a)
    BY <2>1, <2>2 DEF RepliesTypeOK
  <2>4. CASE LostAttempt(j)
    BY <1>1, <1>2, <2>2, <2>3, <2>4, StepLost DEF RepliesTypeOK
  <2>5. CASE Finish(j, NewRow("respond", f, 0))
    <3>1. /\ NewRow("respond", f, 0) \in Row /\ NewRow("respond", f, 0).flow = f
          /\ NewRow("respond", f, 0).pc = "waiting" /\ NewRow("respond", f, 0).kind = "respond"
      BY NewRowIsRow
    <3>. QED
      BY <1>1, <1>2, <2>2, <2>3, <2>5, <3>1, StepFinish DEF RepliesTypeOK
  <2>. QED
    BY <2>2, <2>4, <2>5
<1>7. CASE Respond(j)
  <2>1. /\ UNCHANGED <<home, linked, outputs, messages, asked>>
        /\ \/ \E a \in outputs[f] : HandOver(j, a)
           \/ LostAttempt(j) /\ UNCHANGED replies
    BY <1>2, <1>7 DEF Respond, GetOutput
  <2>2. status' \in [Flow -> {"none", "running", "completed"}]
    BY <1>7, <1>2 DEF Respond, UpdateWorkflowStatus, RepliesTypeOK
  <2>3. CASE LostAttempt(j) /\ UNCHANGED replies
    BY <1>1, <2>1, <2>2, <2>3, StepLost DEF RepliesTypeOK
  <2>4. ASSUME NEW a \in outputs[f], HandOver(j, a) PROVE ChainHolds(j)
    <3>1. a \in Answers /\ Remembered(f, a)
      BY DEF RepliesTypeOK, JobInv
    <3>2. CASE f \in linked
      <4>1. Reply(j, a, "outbox") /\ Finish(j, Free)
        BY <1>2, <2>4, <3>2 DEF HandOver, HasConversation
      <4>. QED
        BY <1>1, <1>2, <2>1, <2>2, <3>1, <3>2, <4>1, StepReply
    <3>3. CASE f \notin linked
      <4>1. UNCHANGED replies /\ Finish(j, NewRow("slack_reply", f, a))
        BY <1>2, <2>4, <3>3 DEF HandOver, HasConversation
      <4>2. a \in Nat
        BY <3>1 DEF Answers
      <4>3. /\ NewRow("slack_reply", f, a) \in Row /\ NewRow("slack_reply", f, a).flow = f
            /\ NewRow("slack_reply", f, a).pc = "waiting"
            /\ NewRow("slack_reply", f, a).answer = a
        BY <4>2, NewRowIsRow
      <4>. QED
        BY <1>1, <1>2, <2>1, <2>2, <3>1, <3>3, <4>1, <4>3, StepFinish DEF RepliesTypeOK
    <3>. QED
      BY <3>2, <3>3
  <2>. QED
    BY <1>1, <2>1, <2>3, <2>4
<1>8. CASE Post(j)
  <2>1. /\ Reply(j, job[j].answer, "post") /\ Finish(j, Free)
        /\ UNCHANGED <<tables, messages, asked>>
        /\ job[j].answer \in Answers /\ Remembered(job[j].flow, job[j].answer)
        /\ job[j].flow \notin linked
    BY <1>1, <1>8 DEF Post, At, JobInv, Carries
  <2>2. UNCHANGED <<status, home, linked, outputs>>
    BY <2>1 DEF tables
  <2>. QED
    BY <1>1, <2>1, <2>2, StepReply DEF RepliesTypeOK
<1>9. CASE PostRefused(j)
  BY <1>1, <1>9, StepRefused
<1>10. CASE AttemptFails(j)
  <2>1. UNCHANGED <<tables, messages, replies, asked>> /\ LostAttempt(j)
    BY <1>10 DEF AttemptFails
  <2>2. UNCHANGED <<status, home, linked, outputs>>
    BY <2>1 DEF tables
  <2>. QED
    BY <1>1, <2>1, <2>2, StepLost DEF RepliesTypeOK
<1>. QED
  BY <1>1, <1>3, <1>4, <1>5, <1>6, <1>7, <1>8, <1>9, <1>10 DEF ChainStep
-----------------------------------------------------------------------------
(* What a step keeps, by what it leaves alone.                             *)

(* What may become linked: a workflow with nothing downstream.             *)
LinksEarly ==
  \/ UNCHANGED linked
  \/ \E f \in Flow : /\ linked' = linked \cup {f} /\ LiveOf(f) = {} /\ replies[f] = <<>>
                    /\ home[f] \in Thread /\ run'[f] \notin {"idle", "create", "converse"}

(* Lemma: jobs and replies that nobody touched.                            *)
LEMMA RepliesStay ==
  ASSUME TypeOK, JobInv, SaidIsRemembered, RepeatsAreExplained, LinksEarly,
         UNCHANGED <<home, outputs, history, replies, job, lost>>
  PROVE  JobInv' /\ SaidIsRemembered' /\ RepeatsAreExplained'
<1>1. Live' = Live /\ \A f \in Flow : LiveOf(f)' = LiveOf(f)
  BY DEF Live, LiveOf
<1>2. JobInv'
  <2>1. \A j \in Live : job[j].kind = "slack_reply" => job[j].flow \notin linked'
    BY DEF JobInv, LinksEarly, LiveOf
  <2>. QED
    BY <1>1, <2>1 DEF JobInv, Carries, Remembered
<1>3. SaidIsRemembered'
  BY DEF SaidIsRemembered
<1>4. RepeatsAreExplained'
  <2>1. \A f \in Flow : \A k \in DOMAIN replies[f] : f \in linked' <=> f \in linked
    BY DEF LinksEarly
  <2>. QED
    BY <1>1, <2>1 DEF RepeatsAreExplained
<1>. QED
  BY <1>2, <1>3, <1>4

(* Lemma: a goroutine that went on, or ended, with nothing downstream      *)
(* changed.                                                                *)
LEMMA GoroutineMoves ==
  ASSUME TypeOK, FlowInv, RepeatInv, NoMessageDropped, NEW f \in Flow, NEW to,
         run' = [run EXCEPT ![f] = to], LinksEarly,
         UNCHANGED <<home, outputs, replies, job, lost, dropped, cause>>,
         /\ to # "over" /\ to # "idle"
         /\ to \in {"create", "converse", "turn"} => Early(f)
         /\ to \in {"create", "converse"} => f \notin linked'
         /\ to = "enqueue" => Pending(f)
         /\ to \in Busy => run[f] \in Busy
  PROVE  FlowInv' /\ RepeatInv' /\ NoMessageDropped'
<1>1. Live' = Live /\ \A g \in Flow : LiveOf(g)' = LiveOf(g)
  BY DEF Live, LiveOf
<1>2. run'[f] = to /\ \A g \in Flow : g # f => run'[g] = run[g]
  BY DEF TypeOK
<1>3. FlowInv'
  <2> SUFFICES ASSUME NEW g \in Flow
               PROVE  /\ Early(g)' => LiveOf(g)' = {} /\ replies'[g] = <<>> /\ outputs'[g] = {}
                      /\ run'[g] \in {"idle", "create", "converse"} => g \notin linked'
                      /\ run'[g] \in Busy \/ g \in linked' => home'[g] \in Thread
                      /\ run'[g] = "idle" => cause'[g] = {}
    BY DEF FlowInv
  <2>3. g \in linked' /\ g \notin linked =>
          home[g] \in Thread /\ run'[g] \notin {"idle", "create", "converse"}
    BY DEF LinksEarly
  <2>1. CASE g = f
    BY <1>1, <1>2, <2>1, <2>3 DEF FlowInv, Early
  <2>2. CASE g # f
    BY <1>1, <1>2, <2>2, <2>3 DEF FlowInv, Early
  <2>. QED
    BY <2>1, <2>2
<1>4. RepeatInv'
  <2>1. \A g \in Flow : Pending(g)' => Pending(g)
    BY <1>2 DEF Pending, Early
  <2>. QED
    BY <1>1, <2>1 DEF RepeatInv
<1>5. NoMessageDropped'
  <2>1. \A g \in Flow : run'[g] = "over" => run[g] = "over"
    BY <1>2
  <2>. QED
    BY <1>1, <2>1 DEF NoMessageDropped
<1>. QED
  BY <1>3, <1>4, <1>5

(* Lemma: goroutines that nobody touched.                                  *)
LEMMA GoroutinesStay ==
  ASSUME TypeOK, FlowInv, RepeatInv, NoMessageDropped,
         UNCHANGED <<run, home, linked, outputs, replies, job, lost, dropped, cause>>
  PROVE  FlowInv' /\ RepeatInv' /\ NoMessageDropped'
<1>1. Live' = Live /\ \A g \in Flow : LiveOf(g)' = LiveOf(g)
  BY DEF Live, LiveOf
<1>2. FlowInv'
  BY <1>1 DEF FlowInv, Early
<1>3. RepeatInv'
  BY <1>1 DEF RepeatInv, Pending, Early
<1>4. NoMessageDropped'
  BY <1>1 DEF NoMessageDropped
<1>. QED
  BY <1>2, <1>3, <1>4

(* Lemma: no event was heeded, and entries are only forgotten as renewed.  *)
LEMMA CausesStay ==
  ASSUME TypeOK, CauseInv, OneFlowPerEvent, UNCHANGED cause, renewed \subseteq renewed',
         \A e \in Event : seen[e] # "no" => seen'[e] # "no" \/ e \in renewed'
  PROVE  CauseInv' /\ OneFlowPerEvent'
<1>1. \A f \in Flow : cause[f] \subseteq Event
  BY DEF TypeOK
<1>2. CauseInv'
  BY <1>1 DEF CauseInv
<1>3. OneFlowPerEvent'
  BY DEF OneFlowPerEvent
<1>. QED
  BY <1>2, <1>3

(* Lemma: the threads the bot may speak in.                                *)
LEMMA InvitedSpeak ==
  ASSUME TypeOK', InvitedInv'
  PROVE  SpeaksWhereInvited'
<1>1. \A t \in Thread : Participated(t)' => t \in invited'
  BY DEF InvitedInv, Participated
<1>2. \A f \in Flow : cause'[f] # {} => home'[f] \in invited'
  BY RepliesAssumption DEF InvitedInv
<1>. QED
  BY <1>1, <1>2 DEF SpeaksWhereInvited

(* Lemma: nobody was invited, and nothing was said.                        *)
LEMMA MannersStay ==
  ASSUME TypeOK, InvitedInv, TypeOK', UNCHANGED <<home, cause, history, signedOff, invited>>,
         recent' \subseteq recent, leaving' \subseteq leaving
  PROVE  InvitedInv' /\ SpeaksWhereInvited'
<1>1. InvitedInv'
  BY DEF InvitedInv
<1>. QED
  BY <1>1, InvitedSpeak

(* Lemma: turns that nobody touched, while no goroutine went to its turn   *)
(* or past it without a failure.                                           *)
LEMMA TurnsStay ==
  ASSUME TypeOK, TurnInv, TurnsAreKept, UNCHANGED <<turns, turn>>, faults' \in faults .. MaxFaults,
         \A f \in Flow : run[f] \notin {"idle", "create"} =>
           home'[f] = home[f] /\ (Early(f)' => Early(f)),
         \A f \in Flow : run'[f] = "turn" => run[f] = "turn",
         \A f \in linked' : run'[f] \in {"enqueue", "over"} =>
           faults' > 0 \/ (f \in linked /\ run[f] \in {"enqueue", "over"})
  PROVE  TurnInv' /\ TurnsAreKept'
<1>1. \A t \in Thread : \A k \in DOMAIN turns[t] : turns[t][k] \in Flow
  BY DEF TypeOK
<1>2. TurnInv'
  <2>1. \A t \in Thread : \A k \in DOMAIN turns'[t] :
          ~Early(turns[t][k])' /\ home'[turns'[t][k]] = t
    <3> SUFFICES ASSUME NEW t \in Thread, NEW k \in DOMAIN turns[t]
                 PROVE  ~Early(turns[t][k])' /\ home'[turns[t][k]] = t
      OBVIOUS
    <3>1. PICK f \in Flow : f = turns[t][k]
      BY <1>1
    <3>2. ~Early(f) /\ home[f] = t
      BY <3>1 DEF TurnInv
    <3>3. run[f] \notin {"idle", "create"}
      BY <3>2 DEF Early
    <3>4. ~Early(f)' /\ home'[f] = t
      BY <3>2, <3>3
    <3>. QED
      BY <3>1, <3>4
  <2>2. \A f \in Flow : run'[f] = "turn" =>
          /\ turn'[f].tries \in 1 .. AddTurnTries
          /\ turn'[f].next \in turn'[f].began + turn'[f].tries - 1 .. Len(turns'[home'[f]])
    BY DEF TurnInv
  <2>. QED
    BY <2>1, <2>2 DEF TurnInv
<1>3. TurnsAreKept'
  <2>1. \A t \in Thread : IsInjective(turns'[t])
    BY DEF TurnsAreKept
  <2>2. ASSUME NEW f \in linked', run'[f] \in {"enqueue", "over"}
        PROVE  \/ \E k \in DOMAIN turns'[home'[f]] : turns'[home'[f]][k] = f
               \/ faults' > 0
               \/ Len(turns'[home'[f]]) >= turn'[f].began + AddTurnTries
    <3>1. CASE faults' > 0
      BY <3>1
    <3>2. CASE f \in linked /\ run[f] \in {"enqueue", "over"}
      <4>1. f \in Flow /\ home'[f] = home[f]
        BY <3>2 DEF TypeOK, RepliesTypeOK
      <4>2. faults > 0 => faults' > 0
        BY RepliesAssumption DEF TypeOK, RepliesTypeOK
      <4>. QED
        BY <3>2, <4>1, <4>2 DEF TurnsAreKept
    <3>. QED
      BY <2>2, <3>1, <3>2
  <2>. QED
    BY <2>1, <2>2 DEF TurnsAreKept
<1>. QED
  BY <1>2, <1>3
-----------------------------------------------------------------------------
(* The steps.                                                              *)

(* Lemma: a command or a save keeps the types of the row and of the        *)
(* command.                                                                *)
LEMMA StepConfig ==
  ASSUME ConfigTypeOK, ConfigInv, ConfigStep
  PROVE  ConfigTypeOK' /\ ConfigInv'
<1> USE ConfigAssumption DEF ConfigTypeOK, ConfigInv, ConfigRow
<1>1. ASSUME NEW mode \in Modes, ReadConfig(mode) PROVE ConfigTypeOK' /\ ConfigInv'
  BY <1>1 DEF ReadConfig, Change
<1>2. CASE UpsertConfig
  BY <1>2 DEF UpsertConfig, Changed
<1>3. CASE PutConfig
  <2>1. clobbered' \in BOOLEAN
    BY <1>3 DEF PutConfig
  <2>2. changes' \in 0 .. MaxChanges /\ saved' \in 0 .. MaxChanges + 1
    BY <1>3 DEF PutConfig, Change, DeleteConfig
  <2>3. config' \in ConfigRow
    BY <1>3, <2>2 DEF PutConfig, DeleteConfig
  <2>. QED
    BY <1>3, <2>1, <2>2, <2>3 DEF PutConfig
<1>. QED
  BY <1>1, <1>2, <1>3 DEF ConfigStep

(* Lemma: the configuration's changes leave the messages alone.            *)
LEMMA ConfigKeeps ==
  ASSUME IInv, ConfigStep, UNCHANGED <<replyVars, slackVars, goroutines, manners>>
  PROVE  IInv'
<1> USE DEF IInv, replyVars, tables, messages, slackVars, goroutines, manners
<1>1. ConfigTypeOK' /\ ConfigInv'
  BY StepConfig DEF TypeOK
<1>2. TypeOK'
  BY <1>1 DEF TypeOK, RepliesTypeOK
<1>3. JobInv' /\ SaidIsRemembered' /\ RepeatsAreExplained'
  BY RepliesStay DEF LinksEarly
<1>4. FlowInv' /\ RepeatInv' /\ NoMessageDropped'
  BY GoroutinesStay
<1>5. CauseInv' /\ OneFlowPerEvent'
  BY CausesStay
<1>6. InvitedInv' /\ SpeaksWhereInvited'
  BY <1>2, MannersStay
<1>7. TurnInv' /\ TurnsAreKept'
  <2>1. \A f \in Flow : Early(f)' <=> Early(f)
    BY DEF Early
  <2>2. faults' \in faults .. MaxFaults
    BY RepliesAssumption DEF TypeOK, RepliesTypeOK
  <2>. QED
    BY <2>1, <2>2, TurnsStay
<1>. QED
  BY <1>1, <1>2, <1>3, <1>4, <1>5, <1>6, <1>7

(* Lemma: so does the passing of time, but for what it forgets.            *)
LEMMA TimeKeeps ==
  ASSUME IInv, TenMinutes \/ ThreeDays
  PROVE  IInv'
<1> USE DEF IInv
<1>1. /\ waits' = waits + 1 /\ waits < MaxWaits /\ seen' = Aged
      /\ recent' \subseteq recent
      /\ UNCHANGED <<tables, history, signedOff, job, replies, asked, lost, dropped, faults>>
      /\ UNCHANGED <<delivered, repeats, renewed, started, goroutines, settings, manners>>
  BY DEF TenMinutes, ThreeDays, replyVars, messages
<1> USE <1>1 DEF tables, goroutines, settings, manners
<1>2. TypeOK'
  <2>1. seen' \in [Event -> {"no", "new", "old"}]
    BY DEF Aged, TypeOK
  <2>2. waits' \in 0 .. MaxWaits
    BY InboxAssumption DEF TypeOK
  <2>3. RepliesTypeOK' /\ ConfigTypeOK'
    BY DEF TypeOK, RepliesTypeOK, ConfigTypeOK
  <2>. QED
    BY <2>1, <2>2, <2>3 DEF TypeOK
<1>3. JobInv' /\ SaidIsRemembered' /\ RepeatsAreExplained'
  BY RepliesStay DEF LinksEarly
<1>4. FlowInv' /\ RepeatInv' /\ NoMessageDropped'
  BY GoroutinesStay
<1>5. CauseInv' /\ OneFlowPerEvent'
  <2>1. \A e \in Event : seen[e] # "no" => seen'[e] # "no"
    BY DEF Aged
  <2>. QED
    BY <2>1, CausesStay
<1>6. InvitedInv' /\ SpeaksWhereInvited'
  BY <1>2, MannersStay
<1>7. TurnInv' /\ TurnsAreKept'
  <2>1. \A f \in Flow : Early(f)' <=> Early(f)
    BY DEF Early
  <2>2. faults' \in faults .. MaxFaults
    BY RepliesAssumption DEF TypeOK, RepliesTypeOK
  <2>. QED
    BY <2>1, <2>2, TurnsStay
<1>8. ConfigInv'
  BY DEF ConfigInv
<1>. QED
  BY <1>2, <1>3, <1>4, <1>5, <1>6, <1>7, <1>8

(* Lemma: a step of a job.                                                 *)
LEMMA ChainKeeps ==
  ASSUME IInv, NEW j \in Job, ChainStep(j),
         UNCHANGED <<slackVars, goroutines, settings, manners>>
  PROVE  IInv'
<1> USE DEF IInv, slackVars, goroutines, settings, manners
<1>1. j \in Live /\ RepliesTypeOK' /\ JobInv' /\ Chained(j)
  BY StepChain DEF TypeOK, ChainHolds
<1>2. PICK f \in Flow : f = job[j].flow
  BY <1>1, RowsAreLive DEF TypeOK, Live, Row
<1>3. /\ UNCHANGED <<home, linked, signedOff>>
      /\ faults <= faults' /\ dropped \subseteq dropped'
      /\ \A t \in Thread : history[t] \subseteq history'[t]
      /\ \A t \in Thread : t # home[f] => history'[t] = history[t]
      /\ recent' \subseteq recent \cup ({home[f]} \cap Thread)
  BY <1>1, <1>2 DEF Chained, HistoryGrows
<1>4. \A g \in Flow : g # f =>
       /\ LiveOf(g)' = LiveOf(g)
       /\ replies'[g] = replies[g] /\ outputs'[g] = outputs[g] /\ lost'[g] >= lost[g]
  BY <1>1, <1>2 DEF Chained
<1>5. /\ Cardinality(LiveOf(f)') + Len(replies'[f])
            <= Cardinality(LiveOf(f)) + Len(replies[f]) + (lost'[f] - lost[f])
      /\ LiveOf(f)' # {} \/ replies'[f] # <<>> \/ f \in dropped'
      /\ RepliesGrow(f)
  BY <1>1, <1>2 DEF Chained
<1>6. \A g \in Flow :
        /\ lost[g] \in Nat /\ lost'[g] \in Nat
        /\ Cardinality(LiveOf(g)) \in Nat /\ Cardinality(LiveOf(g)') \in Nat
        /\ Len(replies[g]) \in Nat /\ Len(replies'[g]) \in Nat
  <2>1. \A g \in Flow : Cardinality(LiveOf(g)) \in Nat
    BY LiveIsFinite
  <2>2. ASSUME NEW g \in Flow PROVE Cardinality(LiveOf(g)') \in Nat
    <3>1. LiveOf(g)' \subseteq Job
      BY DEF LiveOf, Live
    <3>. QED
      BY <3>1, RepliesAssumption, FS_Subset, FS_CardinalityType
  <2>3. ASSUME NEW g \in Flow
        PROVE  /\ lost[g] \in Nat /\ lost'[g] \in Nat
               /\ Len(replies[g]) \in Nat /\ Len(replies'[g]) \in Nat
    <3>1. RepliesTypeOK
      BY DEF TypeOK
    <3>2. lost[g] \in Nat /\ replies[g] \in Seq([answer : Answers, via : {"outbox", "post"}])
      BY <3>1 DEF RepliesTypeOK
    <3>3. lost'[g] \in Nat /\ replies'[g] \in Seq([answer : Answers, via : {"outbox", "post"}])
      BY <1>1 DEF RepliesTypeOK
    <3>. QED
      BY <3>2, <3>3
  <2>. QED
    BY <2>1, <2>2, <2>3
<1>7. ~Early(f) /\ (\A g \in Flow : (Early(g)' <=> Early(g)) /\ (Pending(g)' <=> Pending(g)))
  <2>1. j \in LiveOf(f)
    BY <1>1, <1>2 DEF LiveOf
  <2>2. ~Early(f)
    BY <2>1 DEF FlowInv
  <2>3. \A g \in Flow : (Early(g)' <=> Early(g)) /\ (Pending(g)' <=> Pending(g))
    BY DEF Early, Pending
  <2>. QED
    BY <2>2, <2>3
<1>8. TypeOK' /\ ConfigInv'
  BY <1>1 DEF TypeOK, ConfigTypeOK, ConfigInv
<1>9. FlowInv'
  BY <1>3, <1>4, <1>7 DEF FlowInv
<1>10. RepeatInv'
  <2> SUFFICES ASSUME NEW g \in Flow, Pending(g)
               PROVE  Cardinality(LiveOf(g)') + Len(replies'[g]) <= lost'[g]
    BY <1>7 DEF RepeatInv
  <2>1. Cardinality(LiveOf(g)) + Len(replies[g]) <= lost[g]
    BY DEF RepeatInv
  <2>2. CASE g = f
    BY <1>5, <1>6, <2>1, <2>2
  <2>3. CASE g # f
    BY <1>4, <1>6, <2>1, <2>3
  <2>. QED
    BY <2>2, <2>3
<1>11. CauseInv' /\ OneFlowPerEvent'
  BY CausesStay
<1>12. InvitedInv' /\ SpeaksWhereInvited'
  <2>1. home[f] # NoThread => home[f] \in invited
    BY DEF InvitedInv
  <2>2. InvitedInv'
    BY <1>3, <2>1, RepliesAssumption DEF InvitedInv
  <2>. QED
    BY <1>8, <2>2, InvitedSpeak
<1>13. TurnInv' /\ TurnsAreKept'
  <2>1. faults' \in faults .. MaxFaults
    BY <1>1, <1>3, RepliesAssumption DEF TypeOK, RepliesTypeOK
  <2>. QED
    BY <1>3, <1>7, <2>1, TurnsStay
<1>14. SaidIsRemembered'
  <2> SUFFICES ASSUME NEW g \in Flow, home[g] \in Thread, NEW k \in DOMAIN replies'[g]
               PROVE  <<g, replies'[g][k].answer>> \in history'[home[g]]
    BY <1>3 DEF SaidIsRemembered
  <2>1. k \in DOMAIN replies[g] => <<g, replies[g][k].answer>> \in history'[home[g]]
    BY <1>3 DEF SaidIsRemembered
  <2>2. CASE replies'[g] = replies[g]
    BY <2>1, <2>2
  <2>3. CASE replies'[g] # replies[g]
    <3>1. g = f
      BY <1>4, <2>3
    <3>2. PICK a \in Answers, via \in {"outbox", "post"} :
            /\ replies'[g] = Append(replies[g], [answer |-> a, via |-> via])
            /\ <<g, a>> \in history'[home[g]]
      BY <1>3, <1>5, <2>3, <3>1 DEF RepliesGrow
    <3>3. replies[g] \in Seq([answer : Answers, via : {"outbox", "post"}])
      BY DEF TypeOK, RepliesTypeOK
    <3>4. \/ k \in DOMAIN replies[g] /\ replies'[g][k] = replies[g][k]
          \/ replies'[g][k] = [answer |-> a, via |-> via]
      BY <3>2, <3>3
    <3>. QED
      BY <2>1, <3>2, <3>4
  <2>. QED
    BY <2>2, <2>3
<1>15. RepeatsAreExplained'
  <2> SUFFICES ASSUME NEW g \in Flow
               PROVE  /\ Cardinality(LiveOf(g)') + Len(replies'[g]) <= 1 + lost'[g]
                      /\ \A k \in DOMAIN replies'[g] :
                           (replies'[g][k].via = "outbox") <=> (g \in linked)
    BY <1>3 DEF RepeatsAreExplained
  <2>1. /\ Cardinality(LiveOf(g)) + Len(replies[g]) <= 1 + lost[g]
        /\ \A k \in DOMAIN replies[g] : (replies[g][k].via = "outbox") <=> (g \in linked)
    BY DEF RepeatsAreExplained
  <2>2. Cardinality(LiveOf(g)') + Len(replies'[g]) <= 1 + lost'[g]
    <3>1. Cardinality(LiveOf(g)) + Len(replies[g]) <= 1 + lost[g]
      BY <2>1
    <3>2. CASE g = f
      <4>1. Cardinality(LiveOf(g)') + Len(replies'[g])
              <= Cardinality(LiveOf(g)) + Len(replies[g]) + (lost'[g] - lost[g])
        BY <1>5, <3>2
      <4>2. /\ lost[g] \in Nat /\ lost'[g] \in Nat
            /\ Cardinality(LiveOf(g)) \in Nat /\ Cardinality(LiveOf(g)') \in Nat
            /\ Len(replies[g]) \in Nat /\ Len(replies'[g]) \in Nat
        BY <1>6
      <4>3. \A a, b, c, d, x, y \in Nat :
              a + b <= 1 + x /\ c + d <= a + b + (y - x) => c + d <= 1 + y
        OBVIOUS
      <4>. QED
        BY <3>1, <4>1, <4>2, <4>3
    <3>3. CASE g # f
      BY <1>4, <1>6, <3>1, <3>3
    <3>. QED
      BY <3>2, <3>3
  <2>3. ASSUME NEW k \in DOMAIN replies'[g]
        PROVE  (replies'[g][k].via = "outbox") <=> (g \in linked)
    <3>1. CASE replies'[g] = replies[g]
      BY <2>1, <2>3, <3>1
    <3>2. CASE replies'[g] # replies[g]
      <4>1. g = f
        BY <1>4, <3>2
      <4>2. PICK a \in Answers, via \in {"outbox", "post"} :
              /\ replies'[g] = Append(replies[g], [answer |-> a, via |-> via])
              /\ (via = "outbox") <=> (g \in linked)
        BY <1>5, <3>2, <4>1 DEF RepliesGrow
      <4>3. replies[g] \in Seq([answer : Answers, via : {"outbox", "post"}])
        BY DEF TypeOK, RepliesTypeOK
      <4>4. \/ k \in DOMAIN replies[g] /\ replies'[g][k] = replies[g][k]
            \/ replies'[g][k] = [answer |-> a, via |-> via]
        BY <4>2, <4>3, <2>3
      <4>. QED
        BY <2>1, <4>2, <4>4
    <3>. QED
      BY <3>1, <3>2
  <2>. QED
    BY <2>2, <2>3
<1>16. NoMessageDropped'
  BY <1>3, <1>4, <1>5 DEF NoMessageDropped
<1>. QED
  BY <1>1, <1>8, <1>9, <1>10, <1>11, <1>12, <1>13, <1>14, <1>15, <1>16

(* Lemma: the types that a step leaves of the jobs, when only a fault may  *)
(* be counted.                                                             *)
LEMMA FaultTypes ==
  ASSUME TypeOK, Fault \/ UNCHANGED faults
  PROVE  faults' \in faults .. MaxFaults /\ faults' \in 0 .. MaxFaults
  BY RepliesAssumption DEF TypeOK, RepliesTypeOK, Fault

(* Lemma: sign-offs that are posted, or not.                               *)
LEMMA SignOffKeeps ==
  ASSUME IInv, NEW t \in Thread, PostSignOff(t)
  PROVE  IInv'
<1> USE DEF IInv
<1>1. /\ leaving' = leaving \ {t} /\ t \in leaving /\ (Fault \/ UNCHANGED faults)
      /\ signedOff' \subseteq signedOff \cup {t} /\ recent' \subseteq recent \cup {t}
      /\ away' \subseteq away \cup {t}
      /\ UNCHANGED <<status, home, linked, outputs, history, job, replies, asked, lost, dropped>>
      /\ UNCHANGED <<slackVars, run, cause, turn, turns, settings, invited, unasked>>
  BY DEF PostSignOff, tables
<1> USE <1>1 DEF slackVars, settings
<1>2. TypeOK' /\ ConfigInv'
  <2>1. RepliesTypeOK'
    BY FaultTypes DEF TypeOK, RepliesTypeOK
  <2>. QED
    BY <2>1 DEF TypeOK, ConfigTypeOK, ConfigInv
<1>3. JobInv' /\ SaidIsRemembered' /\ RepeatsAreExplained'
  BY RepliesStay DEF LinksEarly
<1>4. FlowInv' /\ RepeatInv' /\ NoMessageDropped'
  BY GoroutinesStay
<1>5. CauseInv' /\ OneFlowPerEvent'
  BY CausesStay
<1>6. InvitedInv' /\ SpeaksWhereInvited'
  <2>1. InvitedInv'
    BY DEF InvitedInv
  <2>. QED
    BY <1>2, <2>1, InvitedSpeak
<1>7. TurnInv' /\ TurnsAreKept'
  <2>1. \A f \in Flow : Early(f)' <=> Early(f)
    BY DEF Early
  <2>. QED
    BY <2>1, FaultTypes, TurnsStay
<1>. QED
  BY <1>2, <1>3, <1>4, <1>5, <1>6, <1>7

(* What a delivery does besides heeding: entries are remembered or not,    *)
(* and a sign-off may be due.                                              *)
Unheeded ==
  /\ Fault \/ UNCHANGED faults
  /\ delivered' \subseteq Event /\ repeats' \in 0 .. MaxRepeats
  /\ seen' \in [Event -> {"no", "new", "old"}]
  /\ renewed \subseteq renewed' /\ renewed' \subseteq Event
  /\ \A e \in Event : seen[e] # "no" => seen'[e] # "no" \/ e \in renewed'
  /\ UNCHANGED <<messages, job, replies, asked, lost, dropped, settings, waits, started>>

(* Lemma: every delivery is like that, and heeds a message only of an      *)
(* event that is not remembered, in a thread with an invitation.           *)
LEMMA DeliverCases ==
  ASSUME IInv, NEW e \in Event, Deliver(e)
  PROVE  /\ Unheeded
         /\ \/ /\ leaving' \subseteq leaving \cup {t \in Thread : Participated(t)}
               /\ UNCHANGED <<run, cause, turn, turns, tables, manners>>
            \/ \E mode \in {"mention_only", "all_messages"} :
                 /\ Heed(e, mode) /\ seen[e] = "no" /\ seen'[e] = "new"
                 /\ \/ Envelope[e].kind = "app_mention" \/ mode = "all_messages"
                    \/ ThreadOf(e) \in recent
<1>1. /\ delivered' = delivered \cup {e} /\ repeats' <= MaxRepeats
      /\ repeats' = IF e \in delivered THEN repeats + 1 ELSE repeats
      /\ UNCHANGED <<messages, job, replies, asked, lost, dropped, settings, waits, started>>
  BY DEF Deliver
<1>2. delivered' \subseteq Event /\ repeats' \in 0 .. MaxRepeats
  BY <1>1, InboxAssumption DEF IInv, TypeOK
<1>3. ThreadOf(e) \in Thread /\ Envelope[e].kind \in {"app_mention", "message", "other"}
      /\ Envelope[e].threaded \in BOOLEAN
  BY InboxAssumption DEF ThreadOf
<1>4. CASE seen[e] # "no"
  <2>1. UNCHANGED <<seen, renewed, tables, goroutines, manners, faults>>
    BY <1>4 DEF Deliver
  <2>2. Unheeded
    BY <1>1, <1>2, <2>1 DEF Unheeded, IInv, TypeOK
  <2>. QED
    BY <2>1, <2>2 DEF goroutines
<1>5. CASE seen[e] = "no"
  <2>1. PICK read \in BOOLEAN, known \in BOOLEAN :
          /\ IF read /\ known THEN UNCHANGED faults ELSE Fault
          /\ LET mode == IF read THEN RespondMode(config) ELSE "mention_only"
             IN  CASE Verdict(e, mode, known) = "heed" -> Heed(e, mode)
                   [] Verdict(e, mode, known) = "sign_off" ->
                        /\ leaving' = leaving \cup {ThreadOf(e)}
                        /\ UNCHANGED <<run, cause, turn, turns, tables, manners>>
                   [] OTHER -> UNCHANGED <<tables, goroutines, manners>>
    BY <1>5 DEF Deliver
  <2>2. Remember(e) /\ renewed' = renewed \cup {x \in Event : seen[x] = "old"}
    BY <1>5 DEF Deliver
  <2>3. seen'[e] = "new" /\ seen' \in [Event -> {"no", "new", "old"}]
    BY <2>2 DEF Remember, IInv, TypeOK
  <2>4. \A x \in Event : seen[x] # "no" => seen'[x] # "no" \/ x \in renewed'
    BY <2>2 DEF Remember
  <2>5. Unheeded
    <3>1. Fault \/ UNCHANGED faults
      BY <2>1
    <3>2. renewed \subseteq renewed' /\ renewed' \subseteq Event
      BY <2>2 DEF IInv, TypeOK
    <3>. QED
      BY <1>1, <1>2, <2>3, <2>4, <3>1, <3>2 DEF Unheeded
  <2> DEFINE mode == IF read THEN RespondMode(config) ELSE "mention_only"
  <2>6. mode \in {"mention_only", "all_messages"}
    BY ConfigAssumption DEF RespondMode, IInv, TypeOK, ConfigTypeOK
  <2>7. CASE Verdict(e, mode, known) = "heed"
    <3>1. Heed(e, mode)
      BY <2>1, <2>7
    <3>2. \/ Envelope[e].kind = "app_mention" \/ mode = "all_messages"
          \/ ThreadOf(e) \in recent
      BY <1>3, <2>6, <2>7 DEF Verdict
    <3>. QED
      BY <1>5, <2>3, <2>5, <2>6, <3>1, <3>2
  <2>8. CASE Verdict(e, mode, known) = "sign_off"
    <3>1. leaving' = leaving \cup {ThreadOf(e)} /\ UNCHANGED <<run, cause, turn, turns, tables, manners>>
      BY <2>1, <2>8
    <3>2. Participated(ThreadOf(e))
      BY <1>3, <2>8 DEF Verdict, SignsOff
    <3>. QED
      BY <1>3, <2>5, <3>1, <3>2
  <2>9. CASE Verdict(e, mode, known) # "heed" /\ Verdict(e, mode, known) # "sign_off"
    <3>1. UNCHANGED <<tables, goroutines, manners>>
      BY <2>1, <2>9
    <3>. QED
      BY <2>5, <3>1 DEF goroutines
  <2>. QED
    BY <2>7, <2>8, <2>9
<1>. QED
  BY <1>4, <1>5

(* Lemma: a delivery that is not heeded.                                   *)
LEMMA UnheededKeeps ==
  ASSUME IInv, Unheeded, leaving' \subseteq leaving \cup {t \in Thread : Participated(t)},
         UNCHANGED <<run, cause, turn, turns, tables, manners>>
  PROVE  IInv'
<1> USE DEF IInv
<1>1. /\ UNCHANGED <<status, home, linked, outputs, history, signedOff, recent, job, replies>>
      /\ UNCHANGED <<asked, lost, dropped, settings, waits, started, invited, away, unasked>>
      /\ Fault \/ UNCHANGED faults
  BY DEF Unheeded, tables, messages, manners
<1> USE <1>1 DEF settings
<1>2. TypeOK' /\ ConfigInv'
  <2>1. RepliesTypeOK'
    BY FaultTypes DEF TypeOK, RepliesTypeOK
  <2>2. leaving' \subseteq Thread
    BY DEF TypeOK
  <2>. QED
    BY <2>1, <2>2 DEF TypeOK, ConfigTypeOK, ConfigInv, Unheeded
<1>3. JobInv' /\ SaidIsRemembered' /\ RepeatsAreExplained'
  BY RepliesStay DEF LinksEarly
<1>4. FlowInv' /\ RepeatInv' /\ NoMessageDropped'
  BY GoroutinesStay
<1>5. CauseInv' /\ OneFlowPerEvent'
  BY CausesStay DEF Unheeded
<1>6. InvitedInv' /\ SpeaksWhereInvited'
  <2>1. \A t \in Thread : Participated(t) => t \in invited
    BY DEF SpeaksWhereInvited
  <2>2. InvitedInv'
    BY <2>1 DEF InvitedInv
  <2>. QED
    BY <1>2, <2>2, InvitedSpeak
<1>7. TurnInv' /\ TurnsAreKept'
  <2>1. \A f \in Flow : Early(f)' <=> Early(f)
    BY DEF Early
  <2>. QED
    BY <2>1, FaultTypes, TurnsStay
<1>. QED
  BY <1>2, <1>3, <1>4, <1>5, <1>6, <1>7

(* Lemma: a delivery that is heeded.                                       *)
LEMMA HeedKeeps ==
  ASSUME IInv, Unheeded, NEW e \in Event, NEW mode \in {"mention_only", "all_messages"},
         Heed(e, mode), seen[e] = "no", seen'[e] = "new",
         \/ Envelope[e].kind = "app_mention" \/ mode = "all_messages"
         \/ ThreadOf(e) \in recent
  PROVE  IInv'
<1> USE DEF IInv
<1>1. PICK f \in Flow :
        /\ run[f] = "idle" /\ run' = [run EXCEPT ![f] = "create"]
        /\ cause' = [cause EXCEPT ![f] = {e}]
        /\ home' = [home EXCEPT ![f] = ThreadOf(e)]
        /\ invited' = IF Envelope[e].kind = "app_mention" \/ mode = "all_messages"
                      THEN invited \cup {ThreadOf(e)} ELSE invited
        /\ away' \subseteq away /\ unasked' \subseteq unasked \cup {f}
        /\ UNCHANGED <<turn, turns, leaving, status, linked, outputs>>
  BY DEF Heed
<1>2. /\ UNCHANGED <<history, signedOff, recent, job, replies>>
      /\ UNCHANGED <<asked, lost, dropped, settings, waits, started>>
      /\ Fault \/ UNCHANGED faults
  BY DEF Unheeded, messages
<1>3. ThreadOf(e) \in Thread
  BY InboxAssumption DEF ThreadOf
<1>4. /\ run'[f] = "create" /\ cause'[f] = {e} /\ home'[f] = ThreadOf(e)
      /\ \A g \in Flow : g # f =>
           run'[g] = run[g] /\ cause'[g] = cause[g] /\ home'[g] = home[g]
  BY <1>1 DEF TypeOK, RepliesTypeOK
<1>5. /\ LiveOf(f) = {} /\ replies[f] = <<>> /\ outputs[f] = {} /\ f \notin linked
      /\ Live' = Live /\ \A g \in Flow : LiveOf(g)' = LiveOf(g)
  BY <1>1, <1>2 DEF FlowInv, Early, Live, LiveOf
<1>6. invited \subseteq invited' /\ ThreadOf(e) \in invited' /\ invited' \subseteq Thread
  BY <1>1, <1>3 DEF InvitedInv, TypeOK
<1>7. TypeOK' /\ ConfigInv'
  <2>1. home' \in [Flow -> Thread \cup {NoThread}] /\ cause' \in [Flow -> SUBSET Event]
    BY <1>1, <1>3 DEF TypeOK, RepliesTypeOK
  <2>2. RepliesTypeOK'
    BY <1>1, <1>2, <2>1, FaultTypes DEF TypeOK, RepliesTypeOK
  <2>3. run' \in [Flow -> Busy \cup {"idle", "over", "told", "no_jobs", "gone"}]
    BY <1>1 DEF TypeOK, Busy
  <2>4. away' \subseteq Thread /\ unasked' \subseteq Flow
    BY <1>1 DEF TypeOK
  <2>. QED
    BY <1>1, <1>2, <1>6, <2>1, <2>2, <2>3, <2>4
       DEF TypeOK, ConfigTypeOK, ConfigInv, Unheeded, settings
<1>8. JobInv'
  <2>1. \A j \in Live : job[j].flow \in Flow /\ job[j].flow # f
    BY <1>5, RowsAreLive DEF TypeOK, Live, LiveOf, Row
  <2>2. \A j \in Live : home'[job[j].flow] = home[job[j].flow]
    BY <1>4, <2>1
  <2>3. \A g \in Flow : \A a \in outputs[g] : home'[g] = home[g]
    BY <1>4, <1>5
  <2>. QED
    BY <1>1, <1>2, <1>5, <2>2, <2>3, SMTT(30) DEF JobInv, Carries, Remembered
<1>9. SaidIsRemembered'
  <2>1. \A g \in Flow : \A k \in DOMAIN replies[g] : home'[g] = home[g]
    BY <1>4, <1>5
  <2>. QED
    BY <1>2, <2>1 DEF SaidIsRemembered
<1>10. RepeatsAreExplained'
  BY <1>1, <1>2, <1>5 DEF RepeatsAreExplained
<1>11. FlowInv'
  <2> SUFFICES ASSUME NEW g \in Flow
               PROVE  /\ Early(g)' => LiveOf(g)' = {} /\ replies'[g] = <<>> /\ outputs'[g] = {}
                      /\ run'[g] \in {"idle", "create", "converse"} => g \notin linked'
                      /\ run'[g] \in Busy \/ g \in linked' => home'[g] \in Thread
                      /\ run'[g] = "idle" => cause'[g] = {}
    BY DEF FlowInv
  <2>1. CASE g = f
    BY <1>1, <1>2, <1>3, <1>4, <1>5, <2>1
  <2>2. CASE g # f
    BY <1>1, <1>2, <1>4, <1>5, <2>2 DEF FlowInv, Early
  <2>. QED
    BY <2>1, <2>2
<1>12. RepeatInv' /\ NoMessageDropped'
  <2>1. \A g \in Flow : (Pending(g)' => Pending(g)) /\ (run'[g] = "over" => run[g] = "over")
    BY <1>1, <1>4 DEF Pending, Early
  <2>2. RepeatInv'
    BY <1>2, <1>5, <2>1 DEF RepeatInv
  <2>3. NoMessageDropped'
    BY <1>2, <1>5, <2>1 DEF NoMessageDropped
  <2>. QED
    BY <2>2, <2>3
<1>13. CauseInv'
  <2> SUFFICES ASSUME NEW g \in Flow, NEW x \in cause'[g]
               PROVE  cause'[g] = {x} /\ (seen'[x] # "no" \/ x \in renewed')
    BY DEF CauseInv
  <2>1. CASE g = f
    BY <1>4, <2>1
  <2>2. CASE g # f
    <3>1. x \in cause[g] /\ x \in Event /\ cause'[g] = cause[g]
      BY <1>4, <2>2 DEF TypeOK
    <3>. QED
      BY <3>1 DEF CauseInv, Unheeded
  <2>. QED
    BY <2>1, <2>2
<1>14. OneFlowPerEvent'
  <2>1. \A g \in Flow : e \in cause[g] => e \in renewed /\ cause[g] = {e}
    BY DEF CauseInv
  <2>2. renewed \subseteq renewed'
    BY DEF Unheeded
  <2> SUFFICES ASSUME NEW g \in Flow, NEW h \in Flow, g # h, cause'[g] \cap cause'[h] # {}
               PROVE  cause'[g] \subseteq renewed'
    BY DEF OneFlowPerEvent
  <2>3. CASE g = f
    BY <1>4, <2>1, <2>2, <2>3
  <2>4. CASE h = f
    BY <1>4, <2>1, <2>2, <2>4
  <2>5. CASE g # f /\ h # f
    BY <1>4, <2>2, <2>5 DEF OneFlowPerEvent
  <2>. QED
    BY <2>3, <2>4, <2>5
<1>15. InvitedInv' /\ SpeaksWhereInvited'
  <2>1. /\ \A g \in Flow : home'[g] # NoThread => home'[g] \in invited'
        /\ \A g \in Flow : cause'[g] # {} => home'[g] \in Thread
    BY <1>3, <1>4, <1>6 DEF InvitedInv
  <2>2. InvitedInv'
    BY <1>1, <1>2, <1>6, <2>1 DEF InvitedInv
  <2>. QED
    BY <1>7, <2>2, InvitedSpeak
<1>16. TurnInv' /\ TurnsAreKept'
  <2>1. \A g \in Flow : run[g] \notin {"idle", "create"} =>
          home'[g] = home[g] /\ (Early(g)' => Early(g))
    BY <1>1, <1>4 DEF Early
  <2>2. \A g \in Flow : run'[g] = "turn" => run[g] = "turn"
    BY <1>4
  <2>3. \A g \in linked' : run'[g] \in {"enqueue", "over"} =>
          g \in linked /\ run[g] \in {"enqueue", "over"}
    BY <1>1, <1>4 DEF TypeOK, RepliesTypeOK
  <2>. QED
    BY <1>1, <1>2, <2>1, <2>2, <2>3, FaultTypes, TurnsStay
<1>. QED
  BY <1>7, <1>8, <1>9, <1>10, <1>11, <1>12, <1>13, <1>14, <1>15, <1>16

(* Lemma: a workflow's row is created, or the user is told.                *)
LEMMA CreateKeeps ==
  ASSUME IInv, NEW f \in Flow, CreateWorkflow(f)
  PROVE  IInv'
<1> USE DEF IInv
<1>1. PICK to \in {"converse", "told"} :
        /\ run[f] = "create" /\ run' = [run EXCEPT ![f] = to]
        /\ status' = [status EXCEPT ![f] = "running"] \/ UNCHANGED status
        /\ Fault \/ UNCHANGED faults
        /\ UNCHANGED <<home, linked, outputs, messages, job, replies, asked, lost, dropped>>
        /\ UNCHANGED <<slackVars, cause, turn, turns, leaving, settings, manners>>
  BY DEF CreateWorkflow, Step
<1> USE <1>1 DEF messages, slackVars, settings, manners
<1>2. TypeOK' /\ ConfigInv'
  <2>1. status' \in [Flow -> {"none", "running", "completed"}]
    BY DEF TypeOK, RepliesTypeOK
  <2>2. RepliesTypeOK'
    BY <2>1, FaultTypes DEF TypeOK, RepliesTypeOK
  <2>3. run' \in [Flow -> Busy \cup {"idle", "over", "told", "no_jobs", "gone"}]
    BY DEF TypeOK, Busy
  <2>. QED
    BY <2>2, <2>3 DEF TypeOK, ConfigTypeOK, ConfigInv
<1>3. LinksEarly /\ f \notin linked' /\ Early(f)
  BY DEF LinksEarly, FlowInv, Early
<1>4. JobInv' /\ SaidIsRemembered' /\ RepeatsAreExplained'
  BY <1>3, RepliesStay
<1>5. FlowInv' /\ RepeatInv' /\ NoMessageDropped'
  BY <1>3, GoroutineMoves DEF Busy
<1>6. CauseInv' /\ OneFlowPerEvent'
  BY CausesStay
<1>7. InvitedInv' /\ SpeaksWhereInvited'
  BY <1>2, MannersStay
<1>8. TurnInv' /\ TurnsAreKept'
  <2>1. \A g \in Flow : g # f => run'[g] = run[g]
    BY DEF TypeOK
  <2>2. run'[f] = to
    BY DEF TypeOK
  <2>3. \A g \in Flow : /\ Early(g)' => Early(g)
                        /\ run'[g] = "turn" => run[g] = "turn"
                        /\ run'[g] \in {"enqueue", "over"} => run[g] \in {"enqueue", "over"}
    BY <1>3, <2>1, <2>2 DEF Early
  <2>4. linked \subseteq Flow
    BY DEF TypeOK, RepliesTypeOK
  <2>. QED
    BY <2>3, <2>4, FaultTypes, TurnsStay
<1>. QED
  BY <1>2, <1>4, <1>5, <1>6, <1>7, <1>8

(* Lemma: a workflow gets its conversation, or goes on without it.         *)
LEMMA ConverseKeeps ==
  ASSUME IInv, NEW f \in Flow, Converse(f)
  PROVE  IInv'
<1> USE DEF IInv
<1>1. /\ run[f] = "converse" /\ (Fault \/ UNCHANGED faults)
      /\ UNCHANGED <<status, home, outputs, messages, job, replies, asked, lost, dropped>>
      /\ UNCHANGED <<slackVars, cause, turns, leaving, settings, manners>>
      /\ \/ run' = [run EXCEPT ![f] = "enqueue"] /\ Fault /\ UNCHANGED <<linked, turn>>
         \/ /\ run' = [run EXCEPT ![f] = "turn"]
            /\ turn' = [turn EXCEPT ![f] = [next |-> Len(turns[home[f]]), tries |-> 1,
                                            began |-> Len(turns[home[f]])]]
            /\ linked' = linked \cup {f} \/ UNCHANGED linked
  BY DEF Converse, WithoutConversation, Step, SetConversationID
<1>2. PICK to \in {"turn", "enqueue"} : run' = [run EXCEPT ![f] = to]
  BY <1>1
<1>3. home[f] \in Thread /\ LiveOf(f) = {} /\ replies[f] = <<>> /\ Early(f) /\ f \notin linked
  BY <1>1 DEF FlowInv, Busy, Early
<1>4. /\ run'[f] = to /\ \A g \in Flow : g # f => run'[g] = run[g]
  BY <1>2 DEF TypeOK
<1> USE <1>1 DEF messages, slackVars, settings, manners
<1>5. Len(turns[home[f]]) \in Nat
  BY <1>3 DEF TypeOK
<1>6. TypeOK' /\ ConfigInv'
  <2>1. RepliesTypeOK'
    <3>1. linked' \subseteq Flow
      BY DEF TypeOK, RepliesTypeOK
    <3>. QED
      BY <3>1, FaultTypes DEF TypeOK, RepliesTypeOK
  <2>2. run' \in [Flow -> Busy \cup {"idle", "over", "told", "no_jobs", "gone"}]
    BY <1>2 DEF TypeOK, Busy
  <2>3. turn' \in [Flow -> [next : Nat, tries : 0 .. AddTurnTries + 1, began : Nat]]
    <3> DEFINE begun == [next |-> Len(turns[home[f]]), tries |-> 1, began |-> Len(turns[home[f]])]
    <3>1. begun \in [next : Nat, tries : 0 .. AddTurnTries + 1, began : Nat]
      BY <1>5, InboxAssumption
    <3>2. turn' = [turn EXCEPT ![f] = begun] \/ turn' = turn
      BY <1>1
    <3> HIDE DEF begun
    <3>. QED
      BY <3>1, <3>2 DEF TypeOK
  <2>. QED
    BY <2>1, <2>2, <2>3 DEF TypeOK, ConfigTypeOK, ConfigInv
<1>7. LinksEarly
  BY <1>3, <1>4 DEF LinksEarly
<1>8. JobInv' /\ SaidIsRemembered' /\ RepeatsAreExplained'
  BY <1>7, RepliesStay
<1>9. FlowInv' /\ RepeatInv' /\ NoMessageDropped'
  BY <1>2, <1>3, <1>7, GoroutineMoves DEF Busy, Pending
<1>10. CauseInv' /\ OneFlowPerEvent'
  BY CausesStay
<1>11. InvitedInv' /\ SpeaksWhereInvited'
  BY <1>6, MannersStay
<1>12. TurnInv'
  <2>1. \A t \in Thread : \A k \in DOMAIN turns'[t] :
          ~Early(turns[t][k])' /\ home'[turns'[t][k]] = t
    <3> SUFFICES ASSUME NEW t \in Thread, NEW k \in DOMAIN turns[t]
                 PROVE  ~Early(turns[t][k])' /\ home'[turns[t][k]] = t
      OBVIOUS
    <3>1. PICK g \in Flow : g = turns[t][k]
      BY DEF TypeOK
    <3>2. ~Early(g) /\ home[g] = t
      BY <3>1 DEF TurnInv
    <3>3. ~Early(g)'
      BY <1>3, <1>4, <3>2 DEF Early
    <3>. QED
      BY <3>1, <3>2, <3>3
  <2>2. ASSUME NEW g \in Flow, run'[g] = "turn"
        PROVE  /\ turn'[g].tries \in 1 .. AddTurnTries
               /\ turn'[g].next \in turn'[g].began + turn'[g].tries - 1 .. Len(turns'[home'[g]])
    <3>1. CASE g = f
      <4>1. /\ turn'[f].next = Len(turns[home[f]]) /\ turn'[f].tries = 1
            /\ turn'[f].began = Len(turns[home[f]])
        BY <1>1, <1>4, <2>2, <3>1 DEF TypeOK
      <4>. QED
        BY <1>5, <3>1, <4>1, InboxAssumption
    <3>2. CASE g # f
      <4>1. turn'[g] = turn[g] /\ run[g] = "turn"
        BY <1>1, <1>4, <2>2, <3>2 DEF TypeOK
      <4>. QED
        BY <4>1 DEF TurnInv
    <3>. QED
      BY <3>1, <3>2
  <2>. QED
    BY <2>1, <2>2 DEF TurnInv
<1>13. TurnsAreKept'
  <2>1. \A t \in Thread : IsInjective(turns'[t])
    BY DEF TurnsAreKept
  <2>2. ASSUME NEW g \in linked', run'[g] \in {"enqueue", "over"}
        PROVE  \/ \E k \in DOMAIN turns'[home'[g]] : turns'[home'[g]][k] = g
               \/ faults' > 0
               \/ Len(turns'[home'[g]]) >= turn'[g].began + AddTurnTries
    <3>1. CASE Fault
      BY <3>1, RepliesAssumption DEF Fault, TypeOK, RepliesTypeOK
    <3>2. CASE ~Fault
      <4>1. g # f /\ g \in Flow
        BY <1>1, <1>4, <1>6, <2>2, <3>2 DEF TypeOK, RepliesTypeOK
      <4>2. g \in linked /\ run[g] \in {"enqueue", "over"} /\ turn'[g] = turn[g]
            /\ faults' = faults
        BY <1>1, <1>4, <2>2, <3>2, <4>1 DEF TypeOK
      <4>. QED
        BY <4>2 DEF TurnsAreKept
    <3>. QED
      BY <3>1, <3>2
  <2>. QED
    BY <2>1, <2>2 DEF TurnsAreKept
<1>. QED
  BY <1>6, <1>8, <1>9, <1>10, <1>11, <1>12, <1>13

(* Lemma: a turn is inserted, tried again, or given up.                    *)
LEMMA AddTurnKeeps ==
  ASSUME IInv, NEW f \in Flow, AddTurn(f)
  PROVE  IInv'
<1> USE DEF IInv
<1>1. /\ run[f] = "turn" /\ (Fault \/ UNCHANGED faults)
      /\ UNCHANGED <<status, home, linked, outputs, messages, job, replies, asked, lost, dropped>>
      /\ UNCHANGED <<slackVars, cause, leaving, settings, manners>>
      /\ \/ /\ run' = [run EXCEPT ![f] = "enqueue"]
            /\ turns' = [turns EXCEPT ![home[f]] = Append(@, f)]
            /\ turn' = [turn EXCEPT ![f] = NoTurn]
         \/ /\ run' = [run EXCEPT ![f] = IF turn[f].tries < AddTurnTries THEN "turn" ELSE "enqueue"]
            /\ turn[f].next < Len(turns[home[f]])
            /\ turn' = [turn EXCEPT ![f].next = NextIndex(f), ![f].tries = @ + 1]
            /\ UNCHANGED turns
         \/ run' = [run EXCEPT ![f] = "enqueue"] /\ Fault /\ UNCHANGED <<turn, turns>>
  BY DEF AddTurn, Step, tables
<1>2. PICK to \in {"turn", "enqueue"} : run' = [run EXCEPT ![f] = to]
  BY <1>1
<1>3. PICK t0 \in Thread : home[f] = t0
  BY <1>1 DEF FlowInv, Busy
<1>4. /\ run'[f] = to /\ (\A g \in Flow : g # f => run'[g] = run[g])
      /\ Early(f) /\ (\A g \in Flow : Early(g)' => Early(g))
  BY <1>1, <1>2 DEF TypeOK, Early
<1>5. /\ turns[t0] \in Seq(Flow) /\ Len(turns[t0]) \in Nat
      /\ turn[f] \in [next : Nat, tries : 0 .. AddTurnTries + 1, began : Nat]
      /\ turn[f].tries \in 1 .. AddTurnTries
      /\ turn[f].next >= turn[f].began + turn[f].tries - 1
      /\ AddTurnTries \in Nat
  <2>1. turns[t0] \in Seq(Flow)
    BY DEF TypeOK
  <2>2. turn[f] \in [next : Nat, tries : 0 .. AddTurnTries + 1, began : Nat]
    BY DEF TypeOK
  <2>3. /\ turn[f].tries \in 1 .. AddTurnTries
        /\ turn[f].next \in turn[f].began + turn[f].tries - 1 .. Len(turns[home[f]])
    BY <1>1 DEF TurnInv
  <2>4. turn[f].began \in Nat /\ turn[f].next \in Nat /\ turn[f].tries \in Nat
    BY <2>2, InboxAssumption
  <2>. QED
    BY <2>1, <2>2, <2>3, <2>4, InboxAssumption
<1>6. \A g \in Flow : g # f => turn'[g] = turn[g]
  BY <1>1 DEF TypeOK
<1>7. \/ turns' = [turns EXCEPT ![t0] = Append(@, f)] /\ to = "enqueue"
      \/ UNCHANGED turns
  BY <1>1, <1>2, <1>3, <1>4 DEF TypeOK
<1>8. /\ turns' \in [Thread -> Seq(Flow)]
      /\ \A t \in Thread : t # t0 => turns'[t] = turns[t]
      /\ turns'[t0] = turns[t0] \/ (turns'[t0] = Append(turns[t0], f) /\ to = "enqueue")
  <2>1. Append(turns[t0], f) \in Seq(Flow)
    BY <1>5
  <2>. QED
    BY <1>7, <2>1 DEF TypeOK
<1>9. \A t \in Thread : \A k \in DOMAIN turns'[t] :
        \/ k \in DOMAIN turns[t] /\ turns'[t][k] = turns[t][k]
        \/ t = t0 /\ turns'[t][k] = f /\ k = Len(turns[t0]) + 1 /\ to = "enqueue"
  <2> SUFFICES ASSUME NEW t \in Thread, NEW k \in DOMAIN turns'[t]
               PROVE  \/ k \in DOMAIN turns[t] /\ turns'[t][k] = turns[t][k]
                      \/ t = t0 /\ turns'[t][k] = f /\ to = "enqueue"
                         /\ k = Len(turns[t0]) + 1
    OBVIOUS
  <2>1. CASE turns'[t] = turns[t]
    BY <2>1
  <2>2. CASE t = t0 /\ turns'[t0] = Append(turns[t0], f) /\ to = "enqueue"
    BY <1>5, <2>2
  <2>. QED
    BY <1>8, <2>1, <2>2
<1>10. \A t \in Thread : \A k \in DOMAIN turns[t] :
         /\ turns[t][k] \in Flow /\ turns[t][k] # f /\ home[turns[t][k]] = t
         /\ ~Early(turns[t][k])
  <2> SUFFICES ASSUME NEW t \in Thread, NEW k \in DOMAIN turns[t]
               PROVE  /\ turns[t][k] \in Flow /\ turns[t][k] # f /\ home[turns[t][k]] = t
                      /\ ~Early(turns[t][k])
    OBVIOUS
  <2>1. PICK g \in Flow : g = turns[t][k]
    BY DEF TypeOK
  <2>2. ~Early(g) /\ home[g] = t
    BY <2>1 DEF TurnInv
  <2>. QED
    BY <1>4, <2>1, <2>2
<1>11. /\ \A t \in Thread : Len(turns'[t]) \in Nat /\ Len(turns[t]) \in Nat
       /\ \A t \in Thread : Len(turns'[t]) >= Len(turns[t])
       /\ \A t \in Thread : \A k \in DOMAIN turns[t] :
            k \in DOMAIN turns'[t] /\ turns'[t][k] = turns[t][k]
  <2>1. ASSUME NEW t \in Thread
        PROVE  /\ Len(turns'[t]) \in Nat /\ Len(turns[t]) \in Nat
               /\ Len(turns'[t]) >= Len(turns[t])
               /\ \A k \in DOMAIN turns[t] : k \in DOMAIN turns'[t] /\ turns'[t][k] = turns[t][k]
    <3>1. turns[t] \in Seq(Flow)
      BY DEF TypeOK
    <3>2. turns'[t] = turns[t] \/ turns'[t] = Append(turns[t], f)
      BY <1>8
    <3>. QED
      BY <3>1, <3>2
  <2>. QED
    BY <2>1
<1>12. TypeOK' /\ ConfigInv'
  <2>1. RepliesTypeOK'
    BY <1>1, FaultTypes DEF TypeOK, RepliesTypeOK, messages
  <2>2. run' \in [Flow -> Busy \cup {"idle", "over", "told", "no_jobs", "gone"}]
    BY <1>2 DEF TypeOK, Busy
  <2>3. turn' \in [Flow -> [next : Nat, tries : 0 .. AddTurnTries + 1, began : Nat]]
    <3> DEFINE T == [next : Nat, tries : 0 .. AddTurnTries + 1, began : Nat]
               more == [turn[f] EXCEPT !.next = NextIndex(f), !.tries = @ + 1]
    <3>1. NoTurn \in T
      BY <1>5 DEF NoTurn
    <3>2. more \in T
      <4>1. NextIndex(f) \in Nat
        BY <1>3, <1>5 DEF NextIndex
      <4>2. turn[f].tries + 1 \in 0 .. AddTurnTries + 1
        BY <1>5
      <4>. QED
        BY <1>5, <4>1, <4>2
    <3>3. turn \in [Flow -> T]
      BY DEF TypeOK
    <3>4. \/ turn' = [turn EXCEPT ![f] = NoTurn] \/ turn' = [turn EXCEPT ![f] = more]
          \/ turn' = turn
      BY <1>1, <3>3
    <3> HIDE DEF T, more
    <3>5. turn' \in [Flow -> T]
      BY <3>1, <3>2, <3>3, <3>4
    <3>. QED
      BY <3>5 DEF T
  <2>. QED
    BY <1>1, <1>8, <2>1, <2>2, <2>3
       DEF TypeOK, ConfigTypeOK, ConfigInv, slackVars, settings, manners
<1>13. JobInv' /\ SaidIsRemembered' /\ RepeatsAreExplained'
  BY <1>1, RepliesStay DEF LinksEarly, messages
<1>14. FlowInv' /\ RepeatInv' /\ NoMessageDropped'
  BY <1>1, <1>2, <1>4, GoroutineMoves DEF Busy, Pending, LinksEarly
<1>15. CauseInv' /\ OneFlowPerEvent'
  BY <1>1, CausesStay DEF slackVars
<1>16. InvitedInv' /\ SpeaksWhereInvited'
  BY <1>1, <1>12, MannersStay DEF messages, manners
<1>17. faults > 0 => faults' > 0
  <2>1. faults' \in faults .. MaxFaults
    BY <1>1, FaultTypes
  <2>2. faults \in Nat
    BY RepliesAssumption DEF TypeOK, RepliesTypeOK
  <2>. QED
    BY <2>1, <2>2, RepliesAssumption
<1>18. CASE turn[f].next < Len(turns[home[f]]) /\ UNCHANGED turns
            /\ turn' = [turn EXCEPT ![f].next = NextIndex(f), ![f].tries = @ + 1]
            /\ run' = [run EXCEPT ![f] = IF turn[f].tries < AddTurnTries THEN "turn" ELSE "enqueue"]
  <2>1. /\ turn'[f].next = Len(turns[t0]) /\ turn'[f].tries = turn[f].tries + 1
        /\ turn'[f].began = turn[f].began
        /\ run'[f] = IF turn[f].tries < AddTurnTries THEN "turn" ELSE "enqueue"
    BY <1>3, <1>5, <1>18 DEF TypeOK, NextIndex
  <2>2. run'[f] = "turn" => /\ turn'[f].tries \in 1 .. AddTurnTries
                            /\ turn'[f].next \in turn'[f].began + turn'[f].tries - 1 .. Len(turns[t0])
    <3>1. turn[f].next < Len(turns[t0])
      BY <1>3, <1>18
    <3>2. turn[f].next \in Nat /\ turn[f].began \in Nat /\ turn[f].tries \in Nat
      BY <1>5
    <3>3. run'[f] = "turn" => turn[f].tries < AddTurnTries
      BY <2>1
    <3>. QED
      BY <1>5, <2>1, <3>1, <3>2, <3>3, SMTT(30)
  <2>3. run'[f] = "enqueue" => Len(turns[t0]) >= turn'[f].began + AddTurnTries
    BY <1>3, <1>5, <1>18, <2>1
  <2>4. TurnInv'
    <3>1. ASSUME NEW g \in Flow, run'[g] = "turn"
          PROVE  /\ turn'[g].tries \in 1 .. AddTurnTries
                 /\ turn'[g].next \in turn'[g].began + turn'[g].tries - 1 .. Len(turns'[home'[g]])
      <4>1. CASE g = f
        BY <1>1, <1>3, <1>18, <2>2, <3>1, <4>1
      <4>2. CASE g # f
        BY <1>1, <1>4, <1>6, <1>18, <3>1, <4>2 DEF TurnInv
      <4>. QED
        BY <4>1, <4>2
    <3>2. ASSUME NEW t \in Thread, NEW k \in DOMAIN turns'[t]
          PROVE  ~Early(turns[t][k])' /\ home'[turns'[t][k]] = t
      <4>1. PICK g \in Flow : g = turns[t][k]
        BY <1>10, <1>18
      <4>2. ~Early(g)'
        BY <1>4, <1>10, <1>18, <4>1
      <4>. QED
        BY <1>1, <1>10, <1>18, <4>1, <4>2
    <3>. QED
      BY <3>1, <3>2 DEF TurnInv
  <2>5. TurnsAreKept'
    <3>1. \A t \in Thread : IsInjective(turns'[t])
      BY <1>18 DEF TurnsAreKept
    <3>2. ASSUME NEW g \in linked', run'[g] \in {"enqueue", "over"}
          PROVE  \/ \E k \in DOMAIN turns'[home'[g]] : turns'[home'[g]][k] = g
                 \/ faults' > 0
                 \/ Len(turns'[home'[g]]) >= turn'[g].began + AddTurnTries
      <4>1. CASE g = f
        BY <1>1, <1>3, <1>4, <1>18, <2>3, <3>2, <4>1
      <4>2. CASE g # f
        <5>1. g \in Flow /\ g \in linked /\ run[g] \in {"enqueue", "over"} /\ turn'[g] = turn[g]
          BY <1>1, <1>4, <1>6, <3>2, <4>2 DEF TypeOK, RepliesTypeOK
        <5>. QED
          BY <1>1, <1>18, <1>17, <5>1 DEF TurnsAreKept
      <4>. QED
        BY <4>1, <4>2
    <3>. QED
      BY <3>1, <3>2 DEF TurnsAreKept
  <2>. QED
    BY <1>12, <1>13, <1>14, <1>15, <1>16, <2>4, <2>5
<1>19. CASE /\ run' = [run EXCEPT ![f] = "enqueue"]
            /\ Fault \/ turns' = [turns EXCEPT ![t0] = Append(@, f)]
  <2>1. run'[f] = "enqueue"
    BY <1>19 DEF TypeOK
  <2>2. TurnInv'
    <3>1. ASSUME NEW g \in Flow, run'[g] = "turn"
          PROVE  /\ turn'[g].tries \in 1 .. AddTurnTries
                 /\ turn'[g].next \in turn'[g].began + turn'[g].tries - 1 .. Len(turns'[home'[g]])
      <4>1. g # f /\ run[g] = "turn" /\ turn'[g] = turn[g] /\ home'[g] = home[g]
        BY <1>1, <1>4, <1>6, <2>1, <3>1
      <4>2. /\ turn[g].tries \in 1 .. AddTurnTries
            /\ turn[g].next \in turn[g].began + turn[g].tries - 1 .. Len(turns[home[g]])
        BY <4>1 DEF TurnInv
      <4>3. home[g] \in Thread
        BY <4>1 DEF FlowInv, Busy
      <4>4. /\ Len(turns'[home[g]]) \in Nat /\ Len(turns[home[g]]) \in Nat
            /\ Len(turns'[home[g]]) >= Len(turns[home[g]])
        BY <1>11, <4>3
      <4>5. turn[g].began \in Nat /\ turn[g].next \in Nat /\ AddTurnTries \in Nat
        BY <1>5 DEF TypeOK
      <4>. QED
        BY <4>1, <4>2, <4>4, <4>5
    <3>2. ASSUME NEW t \in Thread, NEW k \in DOMAIN turns'[t]
          PROVE  ~Early(turns[t][k])' /\ home'[turns'[t][k]] = t
      <4>1. CASE k \in DOMAIN turns[t] /\ turns'[t][k] = turns[t][k]
        <5>1. PICK g \in Flow : g = turns[t][k]
          BY <1>10, <4>1
        <5>2. ~Early(g)'
          BY <1>4, <1>10, <4>1, <5>1
        <5>. QED
          BY <1>1, <1>10, <4>1, <5>1, <5>2
      <4>2. CASE t = t0 /\ turns'[t][k] = f
        <5>1. ~Early(f)'
          BY <2>1 DEF Early
        <5>. QED
          BY <1>1, <1>3, <4>2, <5>1
      <4>. QED
        BY <1>9, <4>1, <4>2
    <3>. QED
      BY <3>1, <3>2 DEF TurnInv
  <2>3. TurnsAreKept'
    <3>1. ASSUME NEW t \in Thread PROVE IsInjective(turns'[t])
      <4> SUFFICES ASSUME NEW a \in DOMAIN turns'[t], NEW b \in DOMAIN turns'[t],
                          turns'[t][a] = turns'[t][b]
                   PROVE  a = b
        BY DEF IsInjective
      <4>1. \A c, d \in DOMAIN turns[t] : turns[t][c] = turns[t][d] => c = d
        BY DEF TurnsAreKept, IsInjective
      <4>. QED
        BY <1>9, <1>10, <4>1
    <3>2. ASSUME NEW g \in linked', run'[g] \in {"enqueue", "over"}
          PROVE  \/ \E k \in DOMAIN turns'[home'[g]] : turns'[home'[g]][k] = g
                 \/ faults' > 0
                 \/ Len(turns'[home'[g]]) >= turn'[g].began + AddTurnTries
      <4>1. CASE g = f
        <5>1. CASE Fault
          BY <5>1, RepliesAssumption DEF Fault, TypeOK, RepliesTypeOK
        <5>2. CASE turns' = [turns EXCEPT ![t0] = Append(@, f)]
          <6>1. turns'[t0] = Append(turns[t0], f)
            BY <5>2 DEF TypeOK
          <6>2. /\ Len(turns[t0]) + 1 \in DOMAIN turns'[t0]
                /\ turns'[t0][Len(turns[t0]) + 1] = f
            BY <1>5, <6>1
          <6>. QED
            BY <1>1, <1>3, <4>1, <6>2
        <5>. QED
          BY <1>19, <5>1, <5>2
      <4>2. CASE g # f
        <5>1. g \in Flow /\ g \in linked /\ run[g] \in {"enqueue", "over"} /\ turn'[g] = turn[g]
              /\ home'[g] = home[g]
          BY <1>1, <1>4, <1>6, <3>2, <4>2 DEF TypeOK, RepliesTypeOK
        <5>3. home[g] \in Thread
          BY <5>1 DEF FlowInv
        <5>4. /\ Len(turns'[home[g]]) \in Nat /\ Len(turns[home[g]]) \in Nat
              /\ Len(turns'[home[g]]) >= Len(turns[home[g]])
              /\ turn[g].began \in Nat /\ AddTurnTries \in Nat
          BY <1>5, <1>11, <5>1, <5>3 DEF TypeOK
        <5>5. \/ \E k \in DOMAIN turns[home[g]] : turns[home[g]][k] = g
              \/ faults > 0
              \/ Len(turns[home[g]]) >= turn[g].began + AddTurnTries
          BY <5>1 DEF TurnsAreKept
        <5>6. (\E k \in DOMAIN turns[home[g]] : turns[home[g]][k] = g)
                => \E k \in DOMAIN turns'[home[g]] : turns'[home[g]][k] = g
          BY <1>11, <5>3
        <5>7. Len(turns[home[g]]) >= turn[g].began + AddTurnTries
                => Len(turns'[home[g]]) >= turn[g].began + AddTurnTries
          BY <5>4
        <5>. QED
          BY <1>17, <5>1, <5>5, <5>6, <5>7
      <4>. QED
        BY <4>1, <4>2
    <3>. QED
      BY <3>1, <3>2 DEF TurnsAreKept
  <2>. QED
    BY <1>12, <1>13, <1>14, <1>15, <1>16, <2>2, <2>3
<1>. QED
  BY <1>1, <1>3, <1>18, <1>19

(* Lemma: the receive job's row adds one to its workflow's.                *)
LEMMA InsertAdds ==
  ASSUME RepliesTypeOK, NEW f \in Flow, InsertRow(NewRow("receive", f, 0))
  PROVE  /\ job' \in [Job -> {Free} \cup Row]
         /\ \A k \in Live' : (k \in Live /\ job'[k] = job[k]) \/ job'[k] = NewRow("receive", f, 0)
         /\ \A g \in Flow : g # f => LiveOf(g)' = LiveOf(g)
         /\ LiveOf(f)' # {} /\ Cardinality(LiveOf(f)') \in Nat
         /\ Cardinality(LiveOf(f)') <= Cardinality(LiveOf(f)) + 1
<1>1. PICK slot \in Job \ Live : job' = [job EXCEPT ![slot] = NewRow("receive", f, 0)]
  BY DEF InsertRow
<1>2. /\ NewRow("receive", f, 0) \in Row /\ NewRow("receive", f, 0).flow = f
      /\ NewRow("receive", f, 0) # Free
  BY NewRowIsRow, RowsAreLive
<1>3. job' \in [Job -> {Free} \cup Row] /\ job'[slot] = NewRow("receive", f, 0)
      /\ \A k \in Job : k # slot => job'[k] = job[k]
  BY <1>1, <1>2 DEF RepliesTypeOK
<1>4. Live' = Live \cup {slot}
  BY <1>1, <1>2, <1>3 DEF Live
<1>5. \A g \in Flow : g # f => LiveOf(g)' = LiveOf(g)
  BY <1>1, <1>2, <1>3, <1>4 DEF LiveOf, Live
<1>6. slot \in LiveOf(f)' /\ LiveOf(f)' \subseteq LiveOf(f) \cup {slot}
  BY <1>1, <1>2, <1>3, <1>4 DEF LiveOf, Live
<1>7. /\ Cardinality(LiveOf(f)') \in Nat
      /\ Cardinality(LiveOf(f)') <= Cardinality(LiveOf(f)) + 1
  BY <1>3, <1>6, LiveChanges
<1>8. \A k \in Live' : (k \in Live /\ job'[k] = job[k]) \/ job'[k] = NewRow("receive", f, 0)
  BY <1>3, <1>4 DEF Live
<1>. QED
  BY <1>3, <1>5, <1>6, <1>7, <1>8

(* Lemma: the receive job is inserted, by a goroutine or a request that    *)
(* then is over, or that tries again because it did not learn of it.       *)
LEMMA InsertKeeps ==
  ASSUME IInv, NEW f \in Flow, NEW to \in {"over", "enqueue"},
         InsertRow(NewRow("receive", f, 0)),
         run[f] \in {"idle", "enqueue"}, run' = [run EXCEPT ![f] = to],
         to = "over" => UNCHANGED lost,
         to = "enqueue" => run[f] = "enqueue" /\ lost' = [lost EXCEPT ![f] = @ + 1],
         Fault \/ UNCHANGED faults,
         status' \in [Flow -> {"none", "running", "completed"}], started' \in 0 .. MaxApi,
         UNCHANGED <<home, linked, outputs, messages, replies, asked, dropped>>,
         UNCHANGED <<delivered, repeats, seen, renewed, waits>>,
         UNCHANGED <<cause, turn, turns, leaving, settings, manners>>
  PROVE  IInv'
<1> USE DEF IInv
<1>1. RepliesTypeOK /\ UNCHANGED <<history, signedOff, recent>>
  BY DEF TypeOK, messages
<1>2. /\ job' \in [Job -> {Free} \cup Row]
      /\ \A k \in Live' : (k \in Live /\ job'[k] = job[k]) \/ job'[k] = NewRow("receive", f, 0)
      /\ \A g \in Flow : g # f => LiveOf(g)' = LiveOf(g)
      /\ LiveOf(f)' # {} /\ Cardinality(LiveOf(f)') \in Nat
      /\ Cardinality(LiveOf(f)') <= Cardinality(LiveOf(f)) + 1
  BY <1>1, InsertAdds
<1>3. run'[f] = to /\ \A g \in Flow : g # f => run'[g] = run[g]
  BY DEF TypeOK
<1>4. /\ lost' \in [Flow -> Nat] /\ \A g \in Flow : g # f => lost'[g] = lost[g]
      /\ to = "enqueue" => lost'[f] = lost[f] + 1
      /\ to = "over" => lost'[f] = lost[f]
  BY <1>1 DEF RepliesTypeOK
<1>5. \A g \in Flow : (Early(g)' => Early(g)) /\ (g = f => ~Early(g)')
  BY <1>3 DEF Early
<1>6. TypeOK' /\ ConfigInv'
  <2>1. RepliesTypeOK'
    BY <1>1, <1>2, <1>4, FaultTypes DEF RepliesTypeOK
  <2>2. run' \in [Flow -> Busy \cup {"idle", "over", "told", "no_jobs", "gone"}]
    BY DEF TypeOK, Busy
  <2>. QED
    BY <2>1, <2>2 DEF TypeOK, ConfigTypeOK, ConfigInv, settings, manners
<1>7. JobInv'
  <2>1. ASSUME NEW k \in Live'
        PROVE  /\ job'[k].pc = "answered" => job'[k].kind = "process"
               /\ Carries(k)' =>
                    job'[k].answer \in Answers /\ Remembered(job[k].flow, job[k].answer)'
               /\ job'[k].kind = "slack_reply" => job'[k].flow \notin linked'
    <3>1. CASE k \in Live /\ job'[k] = job[k]
      BY <1>1, <3>1 DEF JobInv, Carries, Remembered
    <3>2. CASE job'[k] = NewRow("receive", f, 0)
      BY <3>2, NewRowIsRow DEF Carries
    <3>. QED
      BY <1>2, <3>1, <3>2
  <2>2. \A g \in Flow : \A b \in outputs'[g] : Remembered(g, b)'
    BY <1>1 DEF JobInv, Remembered
  <2>. QED
    BY <2>1, <2>2 DEF JobInv
<1>8. SaidIsRemembered'
  BY <1>1 DEF SaidIsRemembered
<1>9. /\ run[f] = "idle" => LiveOf(f) = {} /\ replies[f] = <<>> /\ f \notin linked
      /\ Cardinality(LiveOf(f)) + Len(replies[f]) <= lost[f]
  BY DEF FlowInv, RepeatInv, Early, Pending
<1>10. /\ lost[f] \in Nat /\ lost'[f] \in Nat /\ Len(replies[f]) \in Nat
       /\ Cardinality(LiveOf(f)) \in Nat
  BY <1>1, <1>4, LiveIsFinite DEF RepliesTypeOK
<1>11. RepeatInv'
  <2> SUFFICES ASSUME NEW g \in Flow, Pending(g)'
               PROVE  Cardinality(LiveOf(g)') + Len(replies'[g]) <= lost'[g]
    BY DEF RepeatInv
  <2>1. CASE g # f
    <3>1. Pending(g)
      BY <1>3, <2>1 DEF Pending, Early
    <3>. QED
      BY <1>2, <1>4, <2>1, <3>1 DEF RepeatInv
  <2>2. CASE g = f
    <3>1. to = "enqueue"
      BY <1>3, <2>2 DEF Pending, Early
    <3>. QED
      BY <1>2, <1>4, <1>9, <1>10, <2>2, <3>1
  <2>. QED
    BY <2>1, <2>2
<1>12. RepeatsAreExplained'
  <2> SUFFICES ASSUME NEW g \in Flow
               PROVE  /\ Cardinality(LiveOf(g)') + Len(replies'[g]) <= 1 + lost'[g]
                      /\ \A k \in DOMAIN replies'[g] :
                           (replies'[g][k].via = "outbox") <=> (g \in linked)
    BY DEF RepeatsAreExplained
  <2>1. \A k \in DOMAIN replies[g] : (replies[g][k].via = "outbox") <=> (g \in linked)
    BY DEF RepeatsAreExplained
  <2>2. CASE g # f
    BY <1>2, <1>4, <2>1, <2>2 DEF RepeatsAreExplained
  <2>3. CASE g = f
    <3>1. Cardinality(LiveOf(f)') + Len(replies[f]) <= 1 + lost'[f]
      BY <1>2, <1>4, <1>9, <1>10
    <3>. QED
      BY <2>1, <2>3, <3>1
  <2>. QED
    BY <2>2, <2>3
<1>13. FlowInv'
  <2> SUFFICES ASSUME NEW g \in Flow
               PROVE  /\ Early(g)' => LiveOf(g)' = {} /\ replies'[g] = <<>> /\ outputs'[g] = {}
                      /\ run'[g] \in {"idle", "create", "converse"} => g \notin linked'
                      /\ run'[g] \in Busy \/ g \in linked' => home'[g] \in Thread
                      /\ run'[g] = "idle" => cause'[g] = {}
    BY DEF FlowInv
  <2>1. CASE g = f
    <3>1. run[f] = "enqueue" \/ f \in linked => home[f] \in Thread
      BY DEF FlowInv, Busy
    <3>2. run'[f] \in Busy => run[f] = "enqueue"
      BY <1>3 DEF Busy
    <3>. QED
      BY <1>3, <1>5, <2>1, <3>1, <3>2
  <2>2. CASE g # f
    BY <1>2, <1>3, <1>5, <2>2 DEF FlowInv, Early
  <2>. QED
    BY <2>1, <2>2
<1>14. CauseInv' /\ OneFlowPerEvent'
  BY CausesStay
<1>15. InvitedInv' /\ SpeaksWhereInvited'
  BY <1>1, <1>6, MannersStay DEF manners
<1>16. TurnInv' /\ TurnsAreKept'
  <2>1. \A g \in Flow : run'[g] = "turn" => run[g] = "turn"
    BY <1>3
  <2>2. \A g \in linked' : run'[g] \in {"enqueue", "over"} =>
          g \in linked /\ run[g] \in {"enqueue", "over"}
    BY <1>3, <1>9 DEF TypeOK, RepliesTypeOK
  <2>. QED
    BY <1>5, <2>1, <2>2, FaultTypes, TurnsStay
<1>17. NoMessageDropped'
  BY <1>2, <1>3 DEF NoMessageDropped
<1>. QED
  BY <1>6, <1>7, <1>8, <1>11, <1>12, <1>13, <1>14, <1>15, <1>16, <1>17

(* Lemma: a goroutine that gives up, and a request that starts no jobs.    *)
LEMMA EndKeeps ==
  ASSUME IInv, NEW f \in Flow, NEW to \in {"told", "no_jobs"},
         run[f] \in {"idle", "enqueue"}, run' = [run EXCEPT ![f] = to],
         Fault \/ UNCHANGED faults,
         status' \in [Flow -> {"none", "running", "completed"}], started' \in 0 .. MaxApi,
         UNCHANGED <<home, linked, outputs, messages, job, replies, asked, lost, dropped>>,
         UNCHANGED <<delivered, repeats, seen, renewed, waits>>,
         UNCHANGED <<cause, turn, turns, leaving, settings, manners>>
  PROVE  IInv'
<1> USE DEF IInv
<1>1. run'[f] = to /\ \A g \in Flow : g # f => run'[g] = run[g]
  BY DEF TypeOK
<1>2. TypeOK' /\ ConfigInv'
  <2>1. RepliesTypeOK'
    BY FaultTypes DEF TypeOK, RepliesTypeOK, messages
  <2>2. run' \in [Flow -> Busy \cup {"idle", "over", "told", "no_jobs", "gone"}]
    BY DEF TypeOK, Busy
  <2>. QED
    BY <2>1, <2>2 DEF TypeOK, ConfigTypeOK, ConfigInv, settings, manners
<1>3. JobInv' /\ SaidIsRemembered' /\ RepeatsAreExplained'
  BY RepliesStay DEF LinksEarly, messages
<1>4. FlowInv' /\ RepeatInv' /\ NoMessageDropped'
  BY GoroutineMoves DEF Busy, LinksEarly
<1>5. CauseInv' /\ OneFlowPerEvent'
  BY CausesStay
<1>6. InvitedInv' /\ SpeaksWhereInvited'
  BY <1>2, MannersStay DEF messages, manners
<1>7. TurnInv' /\ TurnsAreKept'
  <2>1. \A g \in Flow : Early(g)' => Early(g)
    BY <1>1 DEF Early
  <2>2. \A g \in Flow : run'[g] = "turn" => run[g] = "turn"
    BY <1>1
  <2>3. \A g \in linked' : run'[g] \in {"enqueue", "over"} =>
          g \in linked /\ run[g] \in {"enqueue", "over"}
    BY <1>1 DEF TypeOK, RepliesTypeOK
  <2>. QED
    BY <2>1, <2>2, <2>3, FaultTypes, TurnsStay
<1>. QED
  BY <1>2, <1>3, <1>4, <1>5, <1>6, <1>7

(* Lemma: the end of the goroutine.                                        *)
LEMMA ReceiveKeeps ==
  ASSUME IInv, NEW f \in Flow, InsertReceive(f)
  PROVE  IInv'
<1>1. /\ UNCHANGED <<status, home, linked, outputs, messages, replies, asked, dropped, started>>
      /\ UNCHANGED <<delivered, repeats, seen, renewed, waits>>
      /\ UNCHANGED <<cause, turn, turns, leaving, settings, manners>>
      /\ run[f] \in {"idle", "enqueue"}
  BY DEF InsertReceive, Step, tables, slackVars
<1>2. status' \in [Flow -> {"none", "running", "completed"}] /\ started' \in 0 .. MaxApi
  BY <1>1 DEF IInv, TypeOK, RepliesTypeOK
<1>3. CASE /\ Step(f, "enqueue", "over") /\ InsertRow(NewRow("receive", f, 0))
           /\ UNCHANGED <<lost, faults>>
  BY <1>1, <1>2, <1>3, InsertKeeps DEF Step
<1>4. CASE /\ run[f] = "enqueue" /\ UNCHANGED run /\ InsertRow(NewRow("receive", f, 0))
           /\ Fault /\ lost' = [lost EXCEPT ![f] = @ + 1]
  <2>1. run' = [run EXCEPT ![f] = "enqueue"]
    BY <1>4 DEF IInv, TypeOK
  <2>. QED
    BY <1>1, <1>2, <1>4, <2>1, InsertKeeps
<1>5. CASE Step(f, "enqueue", "told") /\ Fault /\ UNCHANGED <<job, lost>>
  BY <1>1, <1>2, <1>5, EndKeeps DEF Step
<1>. QED
  BY <1>3, <1>4, <1>5 DEF InsertReceive

(* Lemma: the requests of the API.                                         *)
LEMMA ApiKeeps ==
  ASSUME IInv, NEW f \in Flow, StartWorkflow(f) \/ RunRecipe(f)
  PROVE  IInv'
<1>1. /\ FromApi(f)
      /\ \/ Received(f)
         \/ run' = [run EXCEPT ![f] = "no_jobs"] /\ UNCHANGED <<job, faults>>
  BY DEF StartWorkflow, RunRecipe
<1>2. /\ UNCHANGED <<home, linked, outputs, messages, replies, asked, lost, dropped>>
      /\ UNCHANGED <<delivered, repeats, seen, renewed, waits>>
      /\ UNCHANGED <<cause, turn, turns, leaving, settings, manners>>
      /\ run[f] \in {"idle", "enqueue"}
  BY <1>1 DEF FromApi
<1>3. status' \in [Flow -> {"none", "running", "completed"}] /\ started' \in 0 .. MaxApi
  <2>1. started' = started + 1 /\ started < MaxApi /\ status' = [status EXCEPT ![f] = "running"]
    BY <1>1 DEF FromApi, UpdateWorkflowStatus
  <2>. QED
    BY <2>1, InboxAssumption DEF IInv, TypeOK, RepliesTypeOK
<1>4. CASE /\ run' = [run EXCEPT ![f] = "over"] /\ InsertRow(NewRow("receive", f, 0))
           /\ UNCHANGED faults
  BY <1>2, <1>3, <1>4, InsertKeeps
<1>5. CASE run' = [run EXCEPT ![f] = "told"] /\ Fault /\ UNCHANGED job
  BY <1>2, <1>3, <1>5, EndKeeps
<1>6. CASE run' = [run EXCEPT ![f] = "no_jobs"] /\ UNCHANGED <<job, faults>>
  BY <1>2, <1>3, <1>6, EndKeeps
<1>. QED
  BY <1>1, <1>4, <1>5, <1>6 DEF Received

(* Lemma: the process dies, with its goroutines and the attempts at work.  *)
LEMMA CrashKeeps ==
  ASSUME IInv, Crash
  PROVE  IInv'
<1> USE DEF IInv
<1> DEFINE working == {j \in Live : job[j].pc # "waiting"}
<1>1. /\ Fault /\ EndCommand /\ Lose(working) /\ leaving' = {}
      /\ seen' = [e \in Event |-> "no"]
      /\ renewed' = renewed \cup {e \in Event : seen[e] # "no"}
      /\ run' = [f \in Flow |-> IF run[f] \in Busy THEN "gone" ELSE run[f]]
      /\ job' = [j \in Job |-> IF j \in working THEN Retried(j) ELSE job[j]]
      /\ UNCHANGED <<status, home, linked, outputs, history, signedOff, recent, replies, asked>>
      /\ UNCHANGED <<delivered, repeats, waits, started, cause, turn, turns>>
      /\ UNCHANGED <<invited, away, unasked>>
  BY DEF Crash, tables, messages, manners
<1>2. RepliesTypeOK /\ working \in SUBSET Live
  BY DEF TypeOK
<1>3. /\ lost' \in [Flow -> Nat] /\ dropped \subseteq dropped' /\ dropped' \subseteq Flow
      /\ \A f \in Flow : lost'[f] >= lost[f]
      /\ \A j \in working : Exhausted(j) => job[j].flow \in dropped'
  <2> HIDE DEF working
  <2>. QED
    BY <1>1, <1>2, LoseCounts
<1>4. \A j \in working : \/ Retried(j) = Free /\ Exhausted(j)
                         \/ /\ ~Exhausted(j) /\ Retried(j) \in Row /\ Retried(j).pc = "waiting"
                            /\ Retried(j).flow = job[j].flow /\ Retried(j).kind = job[j].kind
                            /\ job[j].kind = "slack_reply" => Retried(j).answer = job[j].answer
  BY <1>2, RetriedIsRow
<1>5. job' \in [Job -> {Free} \cup Row]
  <2>1. \A j \in Job : job[j] \in {Free} \cup Row
    BY <1>2 DEF RepliesTypeOK
  <2>. QED
    BY <1>1, <1>4, <2>1
<1>6. \A k \in Live' :
        /\ k \in Live
        /\ \/ job'[k] = job[k]
           \/ /\ k \in working /\ job'[k] \in Row /\ job'[k].pc = "waiting"
              /\ job'[k].flow = job[k].flow /\ job'[k].kind = job[k].kind
              /\ job[k].kind = "slack_reply" => job'[k].answer = job[k].answer
  BY <1>1, <1>4 DEF Live
<1>7. \A f \in Flow : LiveOf(f)' \subseteq LiveOf(f)
  BY <1>6 DEF LiveOf
<1>8. ASSUME NEW f \in Flow
      PROVE  /\ Cardinality(LiveOf(f)') \in Nat /\ Cardinality(LiveOf(f)) \in Nat
             /\ Cardinality(LiveOf(f)') <= Cardinality(LiveOf(f))
  BY <1>7, LiveIsFinite, FS_Subset, FS_CardinalityType
<1>9. \A f \in Flow : /\ run'[f] \notin {"create", "converse", "turn", "enqueue"}
                      /\ run'[f] # "gone" => run'[f] = run[f]
  BY <1>1 DEF Busy
<1>10. TypeOK' /\ ConfigInv'
  <2>1. RepliesTypeOK'
    BY <1>1, <1>2, <1>3, <1>5, FaultTypes DEF RepliesTypeOK
  <2>2. run' \in [Flow -> Busy \cup {"idle", "over", "told", "no_jobs", "gone"}]
    BY <1>1 DEF TypeOK, Busy
  <2>3. ConfigTypeOK' /\ ConfigInv'
    BY <1>1 DEF EndCommand, TypeOK, ConfigTypeOK, ConfigInv
  <2>4. seen' \in [Event -> {"no", "new", "old"}] /\ renewed' \subseteq Event /\ leaving' \subseteq Thread
    BY <1>1 DEF TypeOK
  <2>. QED
    BY <1>1, <2>1, <2>2, <2>3, <2>4 DEF TypeOK
<1>11. JobInv'
  <2>1. ASSUME NEW k \in Live'
        PROVE  /\ job'[k].pc = "answered" => job'[k].kind = "process"
               /\ Carries(k)' =>
                    job'[k].answer \in Answers /\ Remembered(job[k].flow, job[k].answer)'
               /\ job'[k].kind = "slack_reply" => job'[k].flow \notin linked'
    <3>1. CASE k \in Live /\ job'[k] = job[k]
      BY <1>1, <3>1 DEF JobInv, Carries, Remembered
    <3>2. CASE /\ k \in working /\ job'[k] \in Row /\ job'[k].pc = "waiting"
               /\ job'[k].flow = job[k].flow /\ job'[k].kind = job[k].kind
               /\ job[k].kind = "slack_reply" => job'[k].answer = job[k].answer
      <4>1. Carries(k)' => job'[k].kind = "slack_reply"
        BY <3>2 DEF Carries
      <4>2. job[k].kind = "slack_reply" =>
              /\ job[k].answer \in Answers /\ Remembered(job[k].flow, job[k].answer)
              /\ job[k].flow \notin linked
        BY <3>2 DEF JobInv, Carries
      <4>. QED
        BY <1>1, <3>2, <4>1, <4>2 DEF Remembered
    <3>. QED
      BY <1>6, <3>1, <3>2
  <2>2. \A g \in Flow : \A b \in outputs'[g] : Remembered(g, b)'
    BY <1>1 DEF JobInv, Remembered
  <2>. QED
    BY <2>1, <2>2 DEF JobInv
<1>12. SaidIsRemembered'
  BY <1>1 DEF SaidIsRemembered
<1>13. /\ \A f \in Flow : lost[f] \in Nat /\ lost'[f] \in Nat
       /\ \A f \in Flow : Len(replies[f]) \in Nat
  BY <1>2, <1>3 DEF RepliesTypeOK
<1>14. RepeatInv'
  <2> SUFFICES ASSUME NEW f \in Flow, Pending(f)'
               PROVE  Cardinality(LiveOf(f)') + Len(replies[f]) <= lost'[f]
    BY <1>1 DEF RepeatInv
  <2>1. Pending(f)
    BY <1>9 DEF Pending, Early
  <2>2. Cardinality(LiveOf(f)) + Len(replies[f]) <= lost[f]
    BY <2>1 DEF RepeatInv
  <2>. QED
    BY <1>3, <1>8, <1>13, <2>2
<1>15. RepeatsAreExplained'
  <2> SUFFICES ASSUME NEW f \in Flow
               PROVE  /\ Cardinality(LiveOf(f)') + Len(replies[f]) <= 1 + lost'[f]
                      /\ \A k \in DOMAIN replies[f] :
                           (replies[f][k].via = "outbox") <=> (f \in linked)
    BY <1>1 DEF RepeatsAreExplained
  <2>1. /\ Cardinality(LiveOf(f)) + Len(replies[f]) <= 1 + lost[f]
        /\ \A k \in DOMAIN replies[f] : (replies[f][k].via = "outbox") <=> (f \in linked)
    BY DEF RepeatsAreExplained
  <2>2. Cardinality(LiveOf(f)') + Len(replies[f]) <= 1 + lost'[f]
    BY <1>3, <1>8, <1>13, <2>1
  <2>. QED
    BY <2>1, <2>2
<1>16. FlowInv'
  <2> SUFFICES ASSUME NEW f \in Flow
               PROVE  /\ Early(f)' => LiveOf(f)' = {} /\ replies'[f] = <<>> /\ outputs'[f] = {}
                      /\ run'[f] \in {"idle", "create", "converse"} => f \notin linked'
                      /\ run'[f] \in Busy \/ f \in linked' => home'[f] \in Thread
                      /\ run'[f] = "idle" => cause'[f] = {}
    BY DEF FlowInv
  <2>. QED
    BY <1>1, <1>7, <1>9 DEF FlowInv, Early, Busy
<1>17. CauseInv' /\ OneFlowPerEvent'
  <2>1. \A e \in Event : seen[e] # "no" => e \in renewed'
    BY <1>1
  <2>. QED
    BY <1>1, <2>1, CausesStay
<1>18. InvitedInv' /\ SpeaksWhereInvited'
  BY <1>1, <1>10, MannersStay
<1>19. TurnInv' /\ TurnsAreKept'
  <2>1. \A f \in Flow : Early(f)' => Early(f)
    BY <1>9 DEF Early
  <2>2. \A f \in linked : run'[f] \in {"enqueue", "over"} => run[f] \in {"enqueue", "over"}
    BY <1>2, <1>9 DEF RepliesTypeOK
  <2>. QED
    BY <1>1, <1>9, <2>1, <2>2, FaultTypes, TurnsStay
<1>20. NoMessageDropped'
  <2> SUFFICES ASSUME NEW f \in Flow, run'[f] = "over"
               PROVE  LiveOf(f)' # {} \/ replies[f] # <<>> \/ f \in dropped'
    BY <1>1 DEF NoMessageDropped
  <2>1. LiveOf(f) # {} \/ replies[f] # <<>> \/ f \in dropped
    BY <1>9 DEF NoMessageDropped
  <2>2. ASSUME NEW j \in LiveOf(f) PROVE LiveOf(f)' # {} \/ f \in dropped'
    <3>1. j \in Live /\ job[j].flow = f /\ j \in Job
      BY DEF LiveOf, Live
    <3>2. CASE j \in working /\ Exhausted(j)
      BY <1>3, <3>1, <3>2
    <3>3. CASE j \in working /\ ~Exhausted(j)
      <4>1. job'[j] \in Row /\ job'[j].flow = f
        BY <1>1, <1>4, <3>1, <3>3
      <4>2. j \in LiveOf(f)'
        BY <1>2, <3>1, <4>1, RowsAreLive DEF LiveOf, Live
      <4>. QED
        BY <4>2
    <3>4. CASE j \notin working
      <4>1. job'[j] = job[j]
        BY <1>1, <3>1, <3>4
      <4>2. j \in LiveOf(f)'
        BY <3>1, <4>1 DEF LiveOf, Live
      <4>. QED
        BY <4>2
    <3>. QED
      BY <3>2, <3>3, <3>4
  <2>. QED
    BY <1>3, <2>1, <2>2
<1>. QED
  BY <1>10, <1>11, <1>12, <1>14, <1>15, <1>16, <1>17, <1>18, <1>19, <1>20

(* Lemma: nothing has happened yet.                                        *)
LEMMA InitHolds == Init => IInv
<1> SUFFICES ASSUME Init PROVE IInv
  OBVIOUS
<1>1. RepliesInit /\ ConfigInit /\ ConfigNew
  BY DEF Init
<1>2. /\ Live = {} /\ \A f \in Flow : LiveOf(f) = {}
      /\ \A f \in Flow : replies[f] = <<>> /\ outputs[f] = {} /\ home[f] = NoThread /\ lost[f] = 0
      /\ \A t \in Thread : history[t] = {}
      /\ \A f \in Flow : run[f] = "idle" /\ cause[f] = {}
      /\ \A t \in Thread : turns[t] = <<>>
  BY <1>1 DEF Init, RepliesInit, Live, LiveOf
<1>3. RepliesTypeOK
  <2>1. replies \in [Flow -> Seq([answer : Answers, via : {"outbox", "post"}])]
    BY <1>1 DEF RepliesInit
  <2>. QED
    BY <1>1, <2>1, RepliesAssumption DEF RepliesInit, RepliesTypeOK
<1>4. ConfigTypeOK /\ ConfigInv
  <2>1. config = NoConfig /\ command = {} /\ saved = 0 /\ clobbered = FALSE /\ changes = 0
    BY <1>1 DEF ConfigInit, ConfigNew
  <2>2. 0 \in 0 .. MaxChanges + 1 /\ 0 \in 0 .. MaxChanges
    BY ConfigAssumption
  <2>3. clobbered \in BOOLEAN
    BY <2>1
  <2>. QED
    BY <2>1, <2>2, <2>3 DEF ConfigTypeOK, ConfigInv
<1>5. TypeOK
  <2>1. turns \in [Thread -> Seq(Flow)]
    BY DEF Init
  <2>2. turn \in [Flow -> [next : Nat, tries : 0 .. AddTurnTries + 1, began : Nat]]
    BY InboxAssumption DEF Init, NoTurn
  <2>3. repeats \in 0 .. MaxRepeats /\ waits \in 0 .. MaxWaits /\ started \in 0 .. MaxApi
    BY InboxAssumption DEF Init
  <2>. QED
    BY <1>3, <1>4, <2>1, <2>2, <2>3 DEF Init, TypeOK
<1>6. FlowInv /\ JobInv /\ CauseInv
  BY <1>1, <1>2 DEF FlowInv, JobInv, CauseInv, RepliesInit, Busy
<1>7. RepeatInv /\ RepeatsAreExplained
  <2>1. Len(<<>>) = 0 /\ Cardinality({}) = 0
    BY FS_EmptySet
  <2>2. \A f \in Flow : Cardinality(LiveOf(f)) = 0 /\ Len(replies[f]) = 0 /\ lost[f] = 0
    <3> SUFFICES ASSUME NEW f \in Flow
                 PROVE  Cardinality(LiveOf(f)) = 0 /\ Len(replies[f]) = 0 /\ lost[f] = 0
      OBVIOUS
    <3>1. LiveOf(f) = {} /\ replies[f] = <<>> /\ lost[f] = 0
      BY <1>2
    <3>. QED
      BY <2>1, <3>1
  <2>3. \A f \in Flow : DOMAIN replies[f] = {}
    BY <1>2
  <2>. QED
    BY <2>2, <2>3 DEF RepeatInv, RepeatsAreExplained
<1>8. InvitedInv /\ SpeaksWhereInvited
  BY <1>1, <1>2 DEF Init, RepliesInit, InvitedInv, SpeaksWhereInvited, Participated
<1>9. TurnInv /\ TurnsAreKept
  <2>1. \A t \in Thread : DOMAIN turns[t] = {}
    BY <1>2
  <2>2. linked = {}
    BY <1>1 DEF RepliesInit
  <2>. QED
    BY <1>2, <2>1, <2>2 DEF TurnInv, TurnsAreKept, IsInjective
<1>10. SaidIsRemembered /\ OneFlowPerEvent /\ NoMessageDropped
  BY <1>2 DEF SaidIsRemembered, OneFlowPerEvent, NoMessageDropped
<1>. QED
  BY <1>4, <1>5, <1>6, <1>7, <1>8, <1>9, <1>10 DEF IInv

(* Lemma: the invariant holds of every behaviour.                          *)
LEMMA Invariance == Spec => []IInv
<1>1. ASSUME IInv, [Next]_vars PROVE IInv'
  <2>1. CASE UNCHANGED vars
    <3> USE <1>1, <2>1 DEF IInv, vars, replyVars, slackVars, goroutines, settings,
           manners, tables,
                           messages
    <3>1. TypeOK' /\ ConfigInv'
      BY DEF TypeOK, RepliesTypeOK, ConfigTypeOK, ConfigInv
    <3>2. JobInv' /\ SaidIsRemembered' /\ RepeatsAreExplained'
      BY RepliesStay DEF LinksEarly
    <3>3. FlowInv' /\ RepeatInv' /\ NoMessageDropped'
      BY GoroutinesStay
    <3>4. CauseInv' /\ OneFlowPerEvent'
      BY CausesStay
    <3>5. InvitedInv' /\ SpeaksWhereInvited'
      BY <3>1, MannersStay
    <3>6. TurnInv' /\ TurnsAreKept'
      <4>1. \A f \in Flow : Early(f)' <=> Early(f)
        BY DEF Early
      <4>. QED
        BY <4>1, FaultTypes, TurnsStay
    <3>. QED
      BY <3>1, <3>2, <3>3, <3>4, <3>5, <3>6
  <2>2. ASSUME NEW e \in Event, Deliver(e) PROVE IInv'
    <3>1. Unheeded
      BY <1>1, <2>2, DeliverCases
    <3>2. CASE /\ leaving' \subseteq leaving \cup {t \in Thread : Participated(t)}
               /\ UNCHANGED <<run, cause, turn, turns, tables, manners>>
      BY <1>1, <3>1, <3>2, UnheededKeeps
    <3>3. ASSUME NEW mode \in {"mention_only", "all_messages"},
                 Heed(e, mode), seen[e] = "no", seen'[e] = "new",
                 \/ Envelope[e].kind = "app_mention" \/ mode = "all_messages"
                 \/ ThreadOf(e) \in recent
          PROVE  IInv'
      BY <1>1, <3>1, <3>3, HeedKeeps
    <3>. QED
      BY <1>1, <2>2, <3>2, <3>3, DeliverCases
  <2>3. ASSUME NEW t \in Thread, PostSignOff(t) PROVE IInv'
    BY <1>1, <2>3, SignOffKeeps
  <2>4. ASSUME NEW f \in Flow, CreateWorkflow(f) PROVE IInv'
    BY <1>1, <2>4, CreateKeeps
  <2>5. ASSUME NEW f \in Flow, Converse(f) PROVE IInv'
    BY <1>1, <2>5, ConverseKeeps
  <2>6. ASSUME NEW f \in Flow, AddTurn(f) PROVE IInv'
    BY <1>1, <2>6, AddTurnKeeps
  <2>7. ASSUME NEW f \in Flow, InsertReceive(f) PROVE IInv'
    BY <1>1, <2>7, ReceiveKeeps
  <2>8. ASSUME NEW f \in Flow, StartWorkflow(f) \/ RunRecipe(f) PROVE IInv'
    BY <1>1, <2>8, ApiKeeps
  <2>9. CASE ConfigStep /\ UNCHANGED <<replyVars, slackVars, goroutines, manners>>
    BY <1>1, <2>9, ConfigKeeps
  <2>10. CASE TenMinutes \/ ThreeDays
    BY <1>1, <2>10, TimeKeeps
  <2>11. CASE Crash
    BY <1>1, <2>11, CrashKeeps
  <2>12. CASE Chain
    <3>1. PICK j \in Job : ChainStep(j) /\ UNCHANGED <<slackVars, goroutines, settings, manners>>
      BY <2>12 DEF Chain
    <3>. QED
      BY <1>1, <3>1, ChainKeeps
  <2>. QED
    BY <1>1, <2>1, <2>2, <2>3, <2>4, <2>5, <2>6, <2>7, <2>8, <2>9, <2>10, <2>11,
       <2>12 DEF Next
<1>. QED
  BY <1>1, InitHolds, PTL DEF Spec
-----------------------------------------------------------------------------
(* The theorems.                                                           *)

(* Theorem: every variable keeps its type, however many attempts are lost. *)
THEOREM TypeCorrect == Spec => []TypeOK
<1>1. IInv => TypeOK
  BY DEF IInv
<1>. QED
  BY <1>1, Invariance, PTL

(* Theorem: an answer that is in the outbox or in Slack is in the history  *)
(* of its thread, that the next answer is made from, whatever is repeated. *)
THEOREM WhatIsSaidIsRemembered == Spec => []SaidIsRemembered
<1>1. IInv => SaidIsRemembered
  BY DEF IInv
<1>. QED
  BY <1>1, Invariance, PTL

(* Theorem: a message is answered again only for an attempt that was lost, *)
(* and always on the same way.                                             *)
THEOREM RepeatsHaveACause == Spec => []RepeatsAreExplained
<1>1. IInv => RepeatsAreExplained
  BY DEF IInv
<1>. QED
  BY <1>1, Invariance, PTL

(* Theorem: an event that Slack delivers again starts a second workflow    *)
(* only when the handler's memory of it is gone.                           *)
THEOREM EventsStartOnce == Spec => []OneFlowPerEvent
<1>1. IInv => OneFlowPerEvent
  BY DEF IInv
<1>. QED
  BY <1>1, Invariance, PTL

(* Theorem: a heeded message is answered, in the queue, or accounted for.  *)
THEOREM MessagesAreAccountedFor == Spec => []NoMessageDropped
<1>1. IInv => NoMessageDropped
  BY DEF IInv
<1>. QED
  BY <1>1, Invariance, PTL

(* Theorem: the bot takes part only in threads that it was invited to.     *)
THEOREM TakesPartByInvitation == Spec => []SpeaksWhereInvited
<1>1. IInv => SpeaksWhereInvited
  BY DEF IInv
<1>. QED
  BY <1>1, Invariance, PTL

(* Theorem: a turn is inserted once, and given up only after a failure or  *)
(* AddTurnTries lost races.                                                *)
THEOREM TurnsAreInserted == Spec => []TurnsAreKept
<1>1. IInv => TurnsAreKept
  BY DEF IInv
<1>. QED
  BY <1>1, Invariance, PTL
=============================================================================
