---------------------------- MODULE OutboxProofs ----------------------------
(***************************************************************************)
(* What the outbox promises for every set of rows, every number of         *)
(* delivery jobs, every attempt limit and every number of faults.          *)
(*                                                                         *)
(* The argument: a claim moves a row out of "pending", so a held row has   *)
(* exactly one holder; only the holder writes the row, so the attempt      *)
(* count it remembers is the row's; hence the unconditional UPDATEs of     *)
(* deliver.go never touch a row somebody else has settled.                 *)
(***************************************************************************)
EXTENDS Outbox, TLAPS

(* The verdict a worker is about to write belongs to a row it holds.       *)
CurHeld == \A w \in Worker :
  /\ pc[w] \in {"store_ts", "mark_delivered", "retry", "refuse"} => cur[w] \in batch[w]
  /\ pc[w] = "idle" => batch[w] = {}
  /\ pc[w] \in {"idle", "loop"} => cur[w] = NoEntry

(* The attempt count a worker remembers is still the row's own.            *)
SnapshotFresh ==
  \A w \in Worker : \A e \in batch[w] : snapshot[w][e] = attempts[e]

(* How often the message of a row has been seen, by where the row is: a    *)
(* post that was answered leads to MarkDelivered and to nothing else.      *)
PostsAccounted ==
  /\ \A e \in Entry : status[e] \in {"absent", "pending"} => posts[e] <= lost[e]
  /\ \A w \in Worker : \A e \in batch[w] :
       ~ (cur[w] = e /\ pc[w] \in {"store_ts", "mark_delivered"}) => posts[e] <= lost[e]
  /\ \A w \in Worker :
       pc[w] \in {"store_ts", "mark_delivered"} => posts[cur[w]] = lost[cur[w]] + 1
  /\ \A w \in Worker : pc[w] = "refuse" => cur[w] \in refused

LostBelowPosts == \A e \in Entry : lost[e] <= posts[e]

(* A row nobody has enqueued has never been claimed.                       *)
AbsentUntouched == \A e \in Entry : status[e] = "absent" => attempts[e] = 0

(* Who holds which row, and what the holder remembers of it.               *)
Holding == CurHeld /\ ExclusiveClaim /\ SnapshotFresh

(* Claims are counted and limited.                                         *)
Counting == RetryBudget /\ AbsentUntouched

(* Posts are accounted for.                                                *)
Accounting == PostsAccounted /\ LostBelowPosts /\ DuplicateNeedsLostAnswer

(* The inductive invariant.  HonestVerdict and RetryBudget are not         *)
(* inductive without Holding, nor DuplicateNeedsLostAnswer without         *)
(* PostsAccounted: the verdict of one step rests on what earlier steps of  *)
(* the same job left in its memory.                                        *)
IInv == TypeOK /\ Holding /\ Counting /\ Accounting /\ HonestVerdict

-----------------------------------------------------------------------------
(* Lemma: the empty outbox satisfies the invariant.                        *)
LEMMA InitIInv == Init => IInv
<1> SUFFICES ASSUME Init PROVE IInv
  OBVIOUS
<1>1. TypeOK
  BY OutboxAssumption DEF Init, TypeOK, Status, PC
<1>2. Holding
  BY DEF Init, Holding, CurHeld, ExclusiveClaim, SnapshotFresh
<1>3. Counting
  BY OutboxAssumption DEF Init, Counting, RetryBudget, AbsentUntouched
<1>4. Accounting /\ HonestVerdict
  BY DEF Init, Accounting, PostsAccounted, LostBelowPosts, DuplicateNeedsLostAnswer,
         HonestVerdict
<1>5. QED
  BY <1>1, <1>2, <1>3, <1>4 DEF IInv

(* Lemma: a count that may not pass the limit and has reached it is the    *)
(* limit, as deliver.go's comparison has it.                               *)
LEMMA EqualIfBounded ==
  \A n \in Nat : n <= MaxDeliveryAttempts /\ n >= MaxDeliveryAttempts => n = MaxDeliveryAttempts
  BY OutboxAssumption

(* A claim takes pending rows only, and no pending row is held.            *)
LEMMA ClaimKeepsExclusive ==
  ASSUME TypeOK, ExclusiveClaim, NEW w \in Worker, ClaimPending(w)
  PROVE  ExclusiveClaim'
<1> DEFINE claim == Oldest(Pending)
<1>1. claim \subseteq Entry /\ \A e \in claim : status[e] = "pending"
  BY DEF Oldest, Pending
<1>2. \A v \in Worker : claim \cap batch[v] = {}
  BY <1>1 DEF ExclusiveClaim
<1>3. /\ batch' = [batch EXCEPT ![w] = claim]
      /\ status' = [e \in Entry |-> IF e \in claim THEN "delivering" ELSE status[e]]
  BY DEF ClaimPending
<1> HIDE DEF claim
<1>4. \A v \in Worker : \A e \in batch'[v] : status'[e] = "delivering"
  BY <1>1, <1>2, <1>3 DEF ExclusiveClaim, TypeOK
<1>5. \A u, v \in Worker : u # v => batch'[u] \cap batch'[v] = {}
  BY <1>2, <1>3 DEF ExclusiveClaim, TypeOK
<1>6. QED
  BY <1>4, <1>5 DEF ExclusiveClaim

(* Lemma: every insertion and every step of a delivery job keeps the       *)
(* invariant.                                                              *)
LEMMA StepIInv == IInv /\ [Next]_vars => IInv'
<1> SUFFICES ASSUME IInv, [Next]_vars PROVE IInv'
  OBVIOUS
<1> USE OutboxAssumption DEF IInv, TypeOK
<1> USE DEF Holding, CurHeld, ExclusiveClaim, SnapshotFresh
<1>1. ASSUME NEW e \in Entry, Enqueue(e) PROVE IInv'
  <2>1. TypeOK'
    BY <1>1 DEF Enqueue, memory, slack, Status, PC
  <2>2. Holding'
    BY <1>1 DEF Enqueue, memory, slack, PC
  <2>3. Counting'
    BY <1>1 DEF Enqueue, memory, slack, Counting, RetryBudget, AbsentUntouched
  <2>4. Accounting'
    BY <1>1 DEF Enqueue, memory, slack, Accounting, PostsAccounted, LostBelowPosts, DuplicateNeedsLostAnswer
  <2>5. HonestVerdict'
    BY <1>1 DEF Enqueue, memory, slack, HonestVerdict, Counting, RetryBudget, Accounting, PostsAccounted, LostBelowPosts
  <2>6. QED
    BY <2>1, <2>2, <2>3, <2>4, <2>5
<1>2. ASSUME NEW w \in Worker, ClaimPending(w) PROVE IInv'
  <2>1. TypeOK'
    BY <1>2 DEF ClaimPending, Oldest, Pending, slack, Status, PC
  <2>2. Holding'
    <3>1. CurHeld'
      BY <1>2 DEF ClaimPending, PC
    <3>2. SnapshotFresh'
      <4>1. \A v \in Worker \ {w} : \A e \in batch[v] : e \notin Oldest(Pending)
        BY DEF Oldest, Pending
      <4>2. QED
        BY <1>2, <4>1 DEF ClaimPending, Oldest, Pending
    <3>3. ExclusiveClaim'
      BY <1>2, ClaimKeepsExclusive
    <3>4. QED
      BY <3>1, <3>2, <3>3
  <2>3. Counting'
    BY <1>2 DEF ClaimPending, Oldest, Pending, slack, Counting, RetryBudget, AbsentUntouched
  <2>4. Accounting'
    BY <1>2 DEF ClaimPending, Oldest, Pending, slack, Accounting, PostsAccounted, LostBelowPosts, DuplicateNeedsLostAnswer
  <2>5. HonestVerdict'
    BY <1>2 DEF ClaimPending, Oldest, Pending, slack, HonestVerdict, Counting, RetryBudget, Accounting, PostsAccounted, LostBelowPosts
  <2>6. QED
    BY <2>1, <2>2, <2>3, <2>4, <2>5
<1>3. ASSUME NEW w \in Worker, NEW e \in Entry, PostAccepted(w, e) PROVE IInv'
  <2>1. TypeOK'
    BY <1>3 DEF PostAccepted, Begin, rows, Status, PC
  <2>2. Holding'
    BY <1>3 DEF PostAccepted, Begin, rows, PC
  <2>3. Counting'
    BY <1>3 DEF PostAccepted, Begin, rows, Counting, RetryBudget, AbsentUntouched
  <2>4. Accounting'
    BY <1>3 DEF PostAccepted, Begin, rows, Accounting, PostsAccounted, LostBelowPosts, DuplicateNeedsLostAnswer
  <2>5. HonestVerdict'
    BY <1>3 DEF PostAccepted, Begin, rows, HonestVerdict, Counting, RetryBudget, Accounting, PostsAccounted, LostBelowPosts
  <2>6. QED
    BY <2>1, <2>2, <2>3, <2>4, <2>5
<1>4. ASSUME NEW w \in Worker, NEW e \in Entry, PostAnswerLost(w, e) PROVE IInv'
  <2>1. TypeOK'
    BY <1>4 DEF PostAnswerLost, Begin, rows, Status, PC
  <2>2. Holding'
    BY <1>4 DEF PostAnswerLost, Begin, rows, PC
  <2>3. Counting'
    BY <1>4 DEF PostAnswerLost, Begin, rows, Counting, RetryBudget, AbsentUntouched
  <2>4. Accounting'
    BY <1>4 DEF PostAnswerLost, Begin, rows, Accounting, PostsAccounted, LostBelowPosts, DuplicateNeedsLostAnswer
  <2>5. HonestVerdict'
    BY <1>4 DEF PostAnswerLost, Begin, rows, HonestVerdict, Counting, RetryBudget, Accounting, PostsAccounted, LostBelowPosts
  <2>6. QED
    BY <2>1, <2>2, <2>3, <2>4, <2>5
<1>5. ASSUME NEW w \in Worker, NEW e \in Entry, PostFails(w, e) PROVE IInv'
  <2>1. TypeOK'
    BY <1>5 DEF PostFails, Begin, rows, slack, Status, PC
  <2>2. Holding'
    BY <1>5 DEF PostFails, Begin, rows, slack, PC
  <2>3. Counting'
    BY <1>5 DEF PostFails, Begin, rows, slack, Counting, RetryBudget, AbsentUntouched
  <2>4. Accounting'
    BY <1>5 DEF PostFails, Begin, rows, slack, Accounting, PostsAccounted, LostBelowPosts, DuplicateNeedsLostAnswer
  <2>5. HonestVerdict'
    BY <1>5 DEF PostFails, Begin, rows, slack, HonestVerdict, Counting, RetryBudget, Accounting, PostsAccounted, LostBelowPosts
  <2>6. QED
    BY <2>1, <2>2, <2>3, <2>4, <2>5
<1>6. ASSUME NEW w \in Worker, NEW e \in Entry, PostRefused(w, e) PROVE IInv'
  <2>1. TypeOK'
    BY <1>6 DEF PostRefused, Begin, rows, Status, PC
  <2>2. Holding'
    BY <1>6 DEF PostRefused, Begin, rows, PC
  <2>3. Counting'
    BY <1>6 DEF PostRefused, Begin, rows, Counting, RetryBudget, AbsentUntouched
  <2>4. Accounting'
    BY <1>6 DEF PostRefused, Begin, rows, Accounting, PostsAccounted, LostBelowPosts, DuplicateNeedsLostAnswer
  <2>5. HonestVerdict'
    BY <1>6 DEF PostRefused, Begin, rows, HonestVerdict, Counting, RetryBudget, Accounting, PostsAccounted, LostBelowPosts
  <2>6. QED
    BY <2>1, <2>2, <2>3, <2>4, <2>5
<1>7. ASSUME NEW w \in Worker, SetSlackMessageTS(w) PROVE IInv'
  <2>1. TypeOK'
    <3>1. cur[w] \in Entry
      BY <1>7 DEF SetSlackMessageTS
    <3>2. QED
      BY <1>7, <3>1, ZenonT(30) DEF SetSlackMessageTS, slack, PC
  <2>2. Holding'
    BY <1>7 DEF SetSlackMessageTS, slack, PC
  <2>3. Counting'
    BY <1>7 DEF SetSlackMessageTS, slack, Counting, RetryBudget, AbsentUntouched
  <2>4. Accounting'
    BY <1>7 DEF SetSlackMessageTS, slack, Accounting, PostsAccounted, LostBelowPosts, DuplicateNeedsLostAnswer
  <2>5. HonestVerdict'
    BY <1>7 DEF SetSlackMessageTS, slack, HonestVerdict, Counting, RetryBudget, Accounting, PostsAccounted, LostBelowPosts
  <2>6. QED
    BY <2>1, <2>2, <2>3, <2>4, <2>5
<1>8. ASSUME NEW w \in Worker, SetSlackMessageTSFails(w) PROVE IInv'
  <2>1. TypeOK'
    BY <1>8 DEF SetSlackMessageTSFails, rows, slack, Status, PC
  <2>2. Holding'
    BY <1>8 DEF SetSlackMessageTSFails, rows, slack, PC
  <2>3. Counting'
    BY <1>8 DEF SetSlackMessageTSFails, rows, slack, Counting, RetryBudget, AbsentUntouched
  <2>4. Accounting'
    BY <1>8 DEF SetSlackMessageTSFails, rows, slack, Accounting, PostsAccounted, LostBelowPosts, DuplicateNeedsLostAnswer
  <2>5. HonestVerdict'
    BY <1>8 DEF SetSlackMessageTSFails, rows, slack, HonestVerdict, Counting, RetryBudget, Accounting, PostsAccounted, LostBelowPosts
  <2>6. QED
    BY <2>1, <2>2, <2>3, <2>4, <2>5
<1>9. ASSUME NEW w \in Worker, MarkDelivered(w) PROVE IInv'
  <2>1. TypeOK'
    BY <1>9 DEF MarkDelivered, SetStatus, NextRow, slack, Status, PC
  <2>2. Holding'
    BY <1>9 DEF MarkDelivered, SetStatus, NextRow, slack, PC
  <2>3. Counting'
    BY <1>9 DEF MarkDelivered, SetStatus, NextRow, slack, Counting, RetryBudget, AbsentUntouched
  <2>4. Accounting'
    BY <1>9 DEF MarkDelivered, SetStatus, NextRow, slack, Accounting, PostsAccounted, LostBelowPosts, DuplicateNeedsLostAnswer
  <2>5. HonestVerdict'
    BY <1>9 DEF MarkDelivered, SetStatus, NextRow, slack, HonestVerdict, Counting, RetryBudget, Accounting, PostsAccounted, LostBelowPosts
  <2>6. QED
    BY <2>1, <2>2, <2>3, <2>4, <2>5
<1>10. ASSUME NEW w \in Worker, MarkFailed(w) PROVE IInv'
  <2>1. TypeOK'
    BY <1>10 DEF MarkFailed, OutOfAttempts, SetStatus, NextRow, slack, Status, PC
  <2>2. Holding'
    BY <1>10 DEF MarkFailed, OutOfAttempts, SetStatus, NextRow, slack, PC
  <2>3. Counting'
    BY <1>10 DEF MarkFailed, OutOfAttempts, SetStatus, NextRow, slack, Counting, RetryBudget, AbsentUntouched
  <2>4. Accounting'
    BY <1>10 DEF MarkFailed, OutOfAttempts, SetStatus, NextRow, slack, Accounting, PostsAccounted, LostBelowPosts, DuplicateNeedsLostAnswer
  <2>5. HonestVerdict'
    <3>1. cur[w] \in Entry /\ cur[w] \in batch[w]
      BY <1>10 DEF MarkFailed
    <3>2. cur[w] \in refused \/ attempts[cur[w]] = MaxDeliveryAttempts
      <4>1. CASE pc[w] = "refuse"
        BY <4>1 DEF Accounting, PostsAccounted
      <4>2. CASE pc[w] = "retry" /\ OutOfAttempts(w)
        <5>1. attempts[cur[w]] >= MaxDeliveryAttempts
          BY <4>2, <3>1 DEF OutOfAttempts
        <5>2. attempts[cur[w]] \in Nat /\ attempts[cur[w]] <= MaxDeliveryAttempts
          BY <3>1 DEF Counting, RetryBudget
        <5>3. attempts[cur[w]] = MaxDeliveryAttempts
          BY <5>1, <5>2, EqualIfBounded, ZenonT(30)
        <5>4. QED
          BY <5>3
      <4>3. QED
        BY <1>10, <4>1, <4>2 DEF MarkFailed
    <3>3. QED
      BY <1>10, <3>1, <3>2 DEF MarkFailed, SetStatus, NextRow, slack, HonestVerdict
  <2>6. QED
    BY <2>1, <2>2, <2>3, <2>4, <2>5
<1>11. ASSUME NEW w \in Worker, ResetForRetry(w) PROVE IInv'
  <2>1. TypeOK'
    BY <1>11 DEF ResetForRetry, OutOfAttempts, SetStatus, NextRow, slack, Status, PC
  <2>2. Holding'
    BY <1>11 DEF ResetForRetry, OutOfAttempts, SetStatus, NextRow, slack, PC
  <2>3. Counting'
    BY <1>11 DEF ResetForRetry, OutOfAttempts, SetStatus, NextRow, slack, Counting, RetryBudget, AbsentUntouched
  <2>4. Accounting'
    BY <1>11 DEF ResetForRetry, OutOfAttempts, SetStatus, NextRow, slack, Accounting, PostsAccounted, LostBelowPosts, DuplicateNeedsLostAnswer
  <2>5. HonestVerdict'
    BY <1>11 DEF ResetForRetry, OutOfAttempts, SetStatus, NextRow, slack, HonestVerdict, Counting, RetryBudget, Accounting, PostsAccounted, LostBelowPosts
  <2>6. QED
    BY <2>1, <2>2, <2>3, <2>4, <2>5
<1>12. ASSUME NEW w \in Worker, VerdictNotStored(w) PROVE IInv'
  <2>1. TypeOK'
    <3>1. cur[w] \in batch[w] /\ cur[w] \in Entry
      BY <1>12 DEF VerdictNotStored
    <3>2. stranded' \subseteq Entry /\ batch' \in [Worker -> SUBSET Entry]
      BY <1>12, <3>1, ZenonT(30) DEF VerdictNotStored, NextRow
    <3>3. snapshot' \in [Worker -> [Entry -> Nat]]
      BY <1>12, <3>1 DEF VerdictNotStored, NextRow
    <3>4. QED
      BY <1>12, <3>2, <3>3 DEF VerdictNotStored, NextRow, rows, slack, PC
  <2>2. Holding'
    BY <1>12 DEF VerdictNotStored, NextRow, rows, slack, PC
  <2>3. Counting'
    BY <1>12 DEF VerdictNotStored, NextRow, rows, slack, Counting, RetryBudget, AbsentUntouched
  <2>4. Accounting'
    BY <1>12 DEF VerdictNotStored, NextRow, rows, slack, Accounting, PostsAccounted, LostBelowPosts, DuplicateNeedsLostAnswer
  <2>5. HonestVerdict'
    BY <1>12 DEF VerdictNotStored, NextRow, rows, slack, HonestVerdict, Counting, RetryBudget, Accounting, PostsAccounted, LostBelowPosts
  <2>6. QED
    BY <2>1, <2>2, <2>3, <2>4, <2>5
<1>13. ASSUME NEW w \in Worker, Abandon(w) PROVE IInv'
  <2>1. TypeOK'
    <3>1. stranded' \subseteq Entry /\ batch' \in [Worker -> SUBSET Entry]
      BY <1>13 DEF Abandon
    <3>2. QED
      BY <1>13, <3>1 DEF Abandon, rows, slack, PC
  <2>2. Holding'
    BY <1>13 DEF Abandon, rows, slack, PC
  <2>3. Counting'
    BY <1>13 DEF Abandon, rows, slack, Counting, RetryBudget, AbsentUntouched
  <2>4. Accounting'
    BY <1>13 DEF Abandon, rows, slack, Accounting, PostsAccounted, LostBelowPosts, DuplicateNeedsLostAnswer
  <2>5. HonestVerdict'
    BY <1>13 DEF Abandon, rows, slack, HonestVerdict, Counting, RetryBudget, Accounting, PostsAccounted, LostBelowPosts
  <2>6. QED
    BY <2>1, <2>2, <2>3, <2>4, <2>5
<1>14. ASSUME UNCHANGED vars PROVE IInv'
  BY <1>14 DEF vars, Status, PC, Counting, RetryBudget, AbsentUntouched, Accounting,
     PostsAccounted, LostBelowPosts, DuplicateNeedsLostAnswer, HonestVerdict
<1>15. QED
  BY <1>1, <1>2, <1>3, <1>4, <1>5, <1>6, <1>7, <1>8, <1>9, <1>10, <1>11, <1>12,
     <1>13, <1>14 DEF Next, Deliver, Fault

-----------------------------------------------------------------------------
(* IInv holds in every reachable state, for every value of the constants.  *)
THEOREM InductiveInvariant == Spec => []IInv
<1>1. QED
  BY InitIInv, StepIInv, PTL DEF Spec

(* Every variable keeps its type; in particular a row only ever has one of *)
(* the five status values of table outbox.                                 *)
THEOREM TypeCorrect == Spec => []TypeOK
<1>1. IInv => TypeOK
  BY DEF IInv
<1>2. QED
  BY <1>1, InductiveInvariant, PTL

(* However many delivery jobs overlap, a row has at most one holder.       *)
THEOREM ClaimsAreExclusive == Spec => []ExclusiveClaim
<1>1. IInv => ExclusiveClaim
  BY DEF IInv, Holding
<1>2. QED
  BY <1>1, InductiveInvariant, PTL

(* No row is claimed more than MaxDeliveryAttempts times.                  *)
THEOREM RetriesAreBounded == Spec => []RetryBudget
<1>1. IInv => RetryBudget
  BY DEF IInv, Counting
<1>2. QED
  BY <1>1, InductiveInvariant, PTL

(* A message is posted twice only after a lost answer from Slack.          *)
THEOREM DuplicatesAreExplained == Spec => []DuplicateNeedsLostAnswer
<1>1. IInv => DuplicateNeedsLostAnswer
  BY DEF IInv, Accounting
<1>2. QED
  BY <1>1, InductiveInvariant, PTL

(* The verdict in the row agrees with what happened at Slack.              *)
THEOREM VerdictsAreHonest == Spec => []HonestVerdict
<1>1. IInv => HonestVerdict
  BY DEF IInv
<1>2. QED
  BY <1>1, InductiveInvariant, PTL

(* A verdict is never taken back and nothing is posted after it: the only  *)
(* writers of a row are its holder, and a held row is "delivering".        *)
THEOREM VerdictsAreFinal == Spec => SettledIsFinal
<1>1. IInv /\ [Next]_vars => [KeepsVerdicts]_vars
  <2> SUFFICES ASSUME IInv, NEW e \in Entry, Settled(e), Next
               PROVE  status'[e] = status[e] /\ posts'[e] = posts[e]
    BY DEF KeepsVerdicts, vars
  <2> USE DEF Settled
  <2>1. \A w \in Worker : e \notin batch[w]
    BY DEF IInv, Holding, ExclusiveClaim
  <2>2. \A w \in Worker : pc[w] \in {"mark_delivered", "retry", "refuse"} => cur[w] # e
    BY <2>1 DEF IInv, Holding, CurHeld
  <2>3. CASE \E f \in Entry : Enqueue(f)
    BY <2>3 DEF Enqueue, IInv, TypeOK, slack
  <2>4. ASSUME NEW w \in Worker, ClaimPending(w)
        PROVE  status'[e] = status[e] /\ posts'[e] = posts[e]
    BY <2>4 DEF ClaimPending, Oldest, Pending, slack
  <2>5. ASSUME NEW w \in Worker, NEW f \in Entry,
               \/ PostAccepted(w, f) \/ PostAnswerLost(w, f)
               \/ PostFails(w, f) \/ PostRefused(w, f)
        PROVE  status'[e] = status[e] /\ posts'[e] = posts[e]
    BY <2>1, <2>5 DEF PostAccepted, PostAnswerLost, PostFails, PostRefused, Begin,
       rows, slack, IInv, TypeOK
  <2>6. ASSUME NEW w \in Worker,
               MarkDelivered(w) \/ MarkFailed(w) \/ ResetForRetry(w)
        PROVE  status'[e] = status[e] /\ posts'[e] = posts[e]
    BY <2>2, <2>6 DEF MarkDelivered, MarkFailed, ResetForRetry, SetStatus, slack,
       IInv, TypeOK
  <2>7. ASSUME NEW w \in Worker, SetSlackMessageTS(w) \/ Fault(w)
        PROVE  status'[e] = status[e] /\ posts'[e] = posts[e]
    BY <2>7 DEF SetSlackMessageTS, Fault, SetSlackMessageTSFails, VerdictNotStored,
       Abandon, rows, slack
  <2>8. QED
    BY <2>3, <2>4, <2>5, <2>6, <2>7 DEF Next, Deliver
<1>2. QED
  BY <1>1, InductiveInvariant, PTL DEF Spec, SettledIsFinal
=============================================================================
