--------------------------- MODULE RunnerProofs ---------------------------
(***************************************************************************)
(* What the passes of ponko-runner keep for every configuration of rules,  *)
(* workflows and limits, any number of issues and of overlapping passes,   *)
(* whatever people do meanwhile, and whatever fails.                       *)
(*                                                                         *)
(* The argument: rows change in five ways only (a state, an attempt that   *)
(* failed, a row that is over, one that follows another, one for an issue  *)
(* that is taken in), and each part of the invariant is kept by each way.  *)
(***************************************************************************)
EXTENDS Runner, FiniteSetTheorems, TLAPS

(* A worker that may still take issues in has room for one at least, and   *)
(* every issue with a job is routed to a workflow.                         *)
RoomInv == \A p \in Pass : todo[p] # {} => room[p] # 0
RoutedInv == \A j \in Live : Match(job[j].issue) \in DOMAIN Phases

(* The board counts the room a pass found as taken, while it takes in.     *)
Active == {job[j].issue : j \in Live}
BoardInv ==
  ~ overlapped => /\ Cardinality(Active) <= MaxActiveTasks
                  /\ \A p \in Pass : TakingIn(p) =>
                       Cardinality(Active) + room[p] <= MaxActiveTasks

(* What makes two chains of an issue impossible: as long as one is there,  *)
(* the issue is a duplicate, by the row of its first phase; that row is    *)
(* alone until its phase is done.                                          *)
First  == {j \in Job : job[j].unique}
Undone == {j \in Job : job[j].state # "done"}
ChainOf(i) ==
  /\ \A j, k \in LiveOf(i) \cap Undone : j = k
  /\ LiveOf(i) # {} => i \in completed \/ LiveOf(i) \cap First # {}
  /\ \A j \in LiveOf(i) \cap First \cap Undone : \A k \in LiveOf(i) : j = k
ChainInv == \A i \in Issue \ (repeated \cup forgotten) : ChainOf(i)

(* An issue that is owed has a job that is not done: a job that is done    *)
(* goes away.                                                              *)
OwedInv == \A i \in owed : \E j \in LiveOf(i) : job[j].state # "done"

(* The history knows what is read, and only a phase is executed.           *)
WordInv ==
  /\ \A i \in Issue : /\ ApprovalStatus(i) = "approve" => i \in saidYes
                      /\ "gate" \in labels[i] => i \in gateSeen
  /\ \A j \in Job : job[j].state = "executing" => job[j].kind = "task_phase"

(* A phase was begun within the limits; until its cost is recorded it      *)
(* keeps its part of what the passes may overspend.                        *)
Executing == {p \in Pass : working[p] # NoJob /\ job[working[p]].state = "executing"}
MoneyInv ==
  /\ daySpent + Cardinality(Executing) * Max(Cost) <= PerDay - 1 + Cardinality(Pass) * Max(Cost)
  /\ \A j \in Live : /\ job[j].state = "executing" => job[j].spent <= PerRun - 1
                     /\ job[j].spent <= PerRun - 1 + Max(Cost)

IInv == TypeOK /\ RoomInv /\ RoutedInv /\ BoardInv /\ ChainInv /\ OwedInv /\ WordInv
        /\ PeopleDecide /\ MoneyInv

-----------------------------------------------------------------------------
(* The ways in which rows change.                                          *)

(* The steps that repeat or discard a job that no worker has.              *)
Drops(j) == Rescue(j) \/ \E p \in Pass : PollerNotFollowed(p, j)

(* What a row has spent stays.                                             *)
SpendsNothing(j) == job'[j].spent = job[j].spent

(* A row gets another state.                                               *)
Restated(j, s) ==
  /\ job' \in [Job -> JobRow]
  /\ job[j].state # "free" /\ job'[j].state = s /\ s # "free"
  /\ job'[j].kind = job[j].kind /\ job'[j].issue = job[j].issue
  /\ job'[j].phase = job[j].phase /\ job'[j].unique = job[j].unique
  /\ \A k \in Job \ {j} : job'[k] = job[k]

(* A failed attempt that is not the last.                                  *)
Retried(j, c) ==
  /\ job' \in [Job -> JobRow]
  /\ job[j].state # "free" /\ job'[j].state = "retryable"
  /\ job'[j].kind = job[j].kind /\ job'[j].issue = job[j].issue
  /\ job'[j].phase = job[j].phase /\ job'[j].unique = job[j].unique
  /\ job'[j].spent = job[j].spent + c
  /\ \A k \in Job \ {j} : job'[k] = job[k]

(* A row that is over.                                                     *)
Freed(j) ==
  /\ job' \in [Job -> JobRow]
  /\ job[j].state # "free" /\ job'[j].state = "free"
  /\ \A k \in Job \ {j} : job'[k] = job[k]

(* A new row.                                                              *)
Inserted(n, kind, i, ph) ==
  /\ job[n].state = "free" /\ job'[n].state = "available"
  /\ job'[n].kind = kind /\ job'[n].issue = i /\ job'[n].phase = ph
  /\ job'[n].spent = 0

(* A row is done, and another follows it.                                  *)
Followed(j, n, kind, ph) ==
  /\ job' \in [Job -> JobRow] /\ j # n
  /\ job[j].state # "free" /\ job'[j].state = "done"
  /\ job'[j].kind = job[j].kind /\ job'[j].issue = job[j].issue
  /\ job'[j].phase = job[j].phase /\ job'[j].unique = job[j].unique
  /\ Inserted(n, kind, job[j].issue, ph) /\ ~ job'[n].unique
  /\ \A k \in Job \ {j, n} : job'[k] = job[k]

(* An attempt failed, with all that goes with it.                          *)
Fails(j, c) ==
  /\ \/ Freed(j) /\ owed' = owed \ {job[j].issue}
     \/ Retried(j, c) /\ owed' = owed
  /\ repeated' = IF job[j].state = "done" THEN repeated \cup {job[j].issue} ELSE repeated

-----------------------------------------------------------------------------
(* Free and new rows are rows.                                             *)
LEMMA RowTypes ==
  /\ Free \in JobRow
  /\ \A kind \in {"task_phase", "approval_poller"}, i \in Issue, n \in Nat :
       /\ NewRow(kind, i, n, TRUE) \in JobRow /\ NewRow(kind, i, n, FALSE) \in JobRow
       /\ NewRow(kind, i, n, TRUE).unique /\ ~ NewRow(kind, i, n, FALSE).unique
<1>1. AnyIssue \in Issue
  BY RunnerAssumption DEF AnyIssue
<1>2. 0 \in 0 .. MaxAttempts - 1
  BY RunnerAssumption
<1>3. Free \in JobRow
  BY <1>1, <1>2 DEF Free, JobRow
<1>4. ASSUME NEW kind \in {"task_phase", "approval_poller"}, NEW i \in Issue, NEW n \in Nat
      PROVE  /\ NewRow(kind, i, n, TRUE) \in JobRow /\ NewRow(kind, i, n, FALSE) \in JobRow
             /\ NewRow(kind, i, n, TRUE).unique /\ ~ NewRow(kind, i, n, FALSE).unique
  <2>1. NewRow(kind, i, n, TRUE) \in JobRow /\ NewRow(kind, i, n, FALSE) \in JobRow
    BY <1>3 DEF NewRow, JobRow, Runnable
  <2>2. NewRow(kind, i, n, TRUE).unique /\ ~ NewRow(kind, i, n, FALSE).unique
    BY <1>3 DEF NewRow, JobRow
  <2>3. QED
    BY <2>1, <2>2
<1>5. QED
  BY <1>3, <1>4

(* What the assignments to job say of the rows.                            *)
LEMMA RowRestated ==
  ASSUME job \in [Job -> JobRow], NEW j \in Job, NEW s \in Runnable \cup {"scheduled"},
         job[j].state # "free", job' = [job EXCEPT ![j].state = s]
  PROVE  Restated(j, s) /\ SpendsNothing(j)
<1>1. s # "free"
  BY DEF Runnable, Running
<1>2. job[j] \in JobRow
  OBVIOUS
<1>3. [job[j] EXCEPT !.state = s] \in JobRow
  BY <1>2 DEF JobRow
<1>4. job'[j] = [job[j] EXCEPT !.state = s] /\ job' \in [Job -> JobRow]
  BY <1>3
<1>5. QED
  BY <1>1, <1>2, <1>4 DEF Restated, SpendsNothing, JobRow

(* A row as another one ends.                                              *)
EndOf(r, row) ==
  /\ r \in JobRow /\ r.state = "done"
  /\ r.kind = row.kind /\ r.issue = row.issue
  /\ r.phase = row.phase /\ r.unique = row.unique

(* Two rows are written.                                                   *)
Written(j, r, n, new) ==
  /\ job'[j] = r /\ job'[n] = new
  /\ \A k \in Job \ {j, n} : job'[k] = job[k]
  /\ r \in JobRow /\ new \in JobRow => job' \in [Job -> JobRow]

(* Lemma: a phase is done, and what it cost is added to what it has spent. *)
LEMMA RowDone ==
  ASSUME job \in [Job -> JobRow], NEW j \in Job, NEW c \in Nat
  PROVE  EndOf(Done(j, c), job[j]) /\ Done(j, c).spent = job[j].spent + c
<1>1. job[j] \in JobRow /\ job[j].spent + c \in Nat
  BY DEF JobRow
<1>2. QED
  BY <1>1 DEF Done, EndOf, JobRow, Runnable, Running

(* Lemma: a phase or poller that is done with a row put behind it is such a*)
(* change.                                                                 *)
LEMMA RowFollowed ==
  ASSUME job \in [Job -> JobRow], NEW j \in Job, NEW n \in Slots, job[j].state # "free",
         NEW kind \in {"task_phase", "approval_poller"}, NEW ph \in Nat,
         NEW r, EndOf(r, job[j]),
         Written(j, r, n, NewRow(kind, job[j].issue, ph, FALSE))
  PROVE  Followed(j, n, kind, ph) /\ job'[j] = r
<1>1. n \in Job /\ job[n].state = "free" /\ j # n
  BY DEF Slots, Live
<1>2. job[j] \in JobRow /\ job[j].issue \in Issue
  BY DEF JobRow
<1>4. NewRow(kind, job[j].issue, ph, FALSE) \in JobRow
  BY <1>2, RowTypes
<1>5. /\ job'[j] = r
      /\ job'[n] = NewRow(kind, job[j].issue, ph, FALSE)
      /\ \A k \in Job \ {j, n} : job'[k] = job[k]
  BY DEF Written
<1>6. job' \in [Job -> JobRow]
  BY <1>4 DEF EndOf, Written
<1>7. Inserted(n, kind, job[j].issue, ph) /\ ~ job'[n].unique
  <2>1. ~ NewRow(kind, job[j].issue, ph, FALSE).unique
    BY <1>2, RowTypes
  <2>2. ~ job'[n].unique
    BY <1>5, <2>1, Zenon
  <2>3. Inserted(n, kind, job[j].issue, ph)
    <3> DEFINE new == NewRow(kind, job[j].issue, ph, FALSE)
    <3>1. job'[n] = new
      BY <1>5
    <3>0. /\ new.state = "available" /\ new.kind = kind /\ new.issue = job[j].issue
          /\ new.phase = ph /\ new.spent = 0
      BY DEF NewRow, Free
    <3> HIDE DEF new
    <3>2. /\ job'[n].state = "available" /\ job'[n].kind = kind
          /\ job'[n].issue = job[j].issue /\ job'[n].phase = ph /\ job'[n].spent = 0
      BY <3>0, <3>1, Zenon
    <3>3. QED
      BY <1>1, <3>2 DEF Inserted
  <2>4. QED
    BY <2>2, <2>3
<1>8. QED
  BY <1>1, <1>5, <1>6, <1>7 DEF Followed, EndOf

(* Lemma: a row that is set to Free is over.                               *)
LEMMA RowFreed ==
  ASSUME job \in [Job -> JobRow], NEW j \in Job, job[j].state # "free",
         job' = [job EXCEPT ![j] = Free]
  PROVE  Freed(j)
BY RowTypes DEF Freed, Free

(* Lemma: River discards a job out of attempts and retries the others.     *)
LEMMA AttemptFailed ==
  ASSUME job \in [Job -> JobRow], NEW j \in Job, job[j].state # "free", NEW c \in Nat,
         AfterError(j, c)
  PROVE  Fails(j, c)
<1>1. job[j] \in JobRow
  OBVIOUS
<1>2. CASE job[j].attempt + 1 = MaxAttempts
  BY <1>2, RowFreed DEF AfterError, Fails
<1>3. CASE job[j].attempt + 1 # MaxAttempts
  <2> DEFINE new == [job[j] EXCEPT !.state = "retryable", !.attempt = job[j].attempt + 1,
                                  !.spent = job[j].spent + c]
  <2>0. job'[j] = new
    BY <1>3 DEF AfterError
  <2>1. /\ job'[j].state = "retryable" /\ job'[j].kind = job[j].kind
        /\ job'[j].issue = job[j].issue /\ job'[j].phase = job[j].phase
        /\ job'[j].unique = job[j].unique /\ job'[j].spent = job[j].spent + c
    BY <1>1, <2>0 DEF JobRow
  <2>2. job'[j] \in JobRow
    <3>1. job[j].attempt + 1 \in 0 .. MaxAttempts - 1 /\ job[j].spent + c \in Nat
      BY <1>1, <1>3, RunnerAssumption DEF JobRow
    <3>2. QED
      BY <1>1, <2>0, <3>1 DEF JobRow, Runnable
  <2>3. /\ job' = [job EXCEPT ![j] = job'[j]]
        /\ owed' = owed
    BY <1>3 DEF AfterError
  <2>4. Retried(j, c)
    BY <2>1, <2>2, <2>3 DEF Retried
  <2>5. QED
    BY <2>3, <2>4 DEF AfterError, Fails
<1>4. QED
  BY <1>2, <1>3

-----------------------------------------------------------------------------
(* What each step does to the rows.                                        *)
Taken(n, i) ==
  /\ job' \in [Job -> JobRow]
  /\ Inserted(n, "task_phase", i, 1) /\ job'[n].unique
  /\ \A k \in Job \ {n} : job'[k] = job[k]

(* Intake inserts a row.                                                   *)
LEMMA TakeInRow ==
  ASSUME TypeOK, NEW p \in Pass, NEW i \in Issue, TakeIn(p, i)
  PROVE  \E n \in Job : Taken(n, i)
<1>1. PICK n \in Slots : job' = [job EXCEPT ![n] = NewRow("task_phase", i, 1, TRUE)]
  BY DEF TakeIn
<1>2. n \in Job /\ job[n].state = "free"
  BY DEF Slots, Live
<1> DEFINE r == NewRow("task_phase", i, 1, TRUE)
<1>3. r \in JobRow /\ r.unique
  BY RowTypes
<1>4. r.state = "available" /\ r.kind = "task_phase" /\ r.issue = i /\ r.phase = 1 /\ r.spent = 0
  BY DEF NewRow, Free
<1>5. job' = [job EXCEPT ![n] = r]
  BY <1>1
<1> HIDE DEF r
<1>6. job'[n] = r /\ job' \in [Job -> JobRow] /\ \A k \in Job \ {n} : job'[k] = job[k]
  BY <1>2, <1>3, <1>5 DEF TypeOK
<1>7. job'[n].unique
  BY <1>3, <1>6, Zenon
<1>8. Inserted(n, "task_phase", i, 1)
  BY <1>2, <1>4, <1>6 DEF Inserted
<1>9. QED
  BY <1>2, <1>6, <1>7, <1>8 DEF Taken

(* The steps that give a row another state.                                *)
LEMMA RestatingRows ==
  ASSUME TypeOK, NEW j \in Job
  PROVE  /\ \A p \in Pass : StartPhase(p, j) => Restated(j, "executing") /\ SpendsNothing(j)
         /\ \A p \in Pass : SnoozePhase(p, j) \/ PollerSnoozes(p, j)
                             => Restated(j, "scheduled") /\ SpendsNothing(j)
         /\ \A p \in Pass : PollerRejected(p, j) => Restated(j, "done") /\ SpendsNothing(j)
         /\ \A s \in {"retryable", "scheduled"} :
              Promote(j, s) => Restated(j, "available") /\ SpendsNothing(j)
<1>1. job \in [Job -> JobRow]
  BY DEF TypeOK
<1>2. ASSUME NEW p \in Pass, StartPhase(p, j)
      PROVE  Restated(j, "executing") /\ SpendsNothing(j)
  BY <1>1, <1>2, RowRestated DEF StartPhase, Takes, Runnable, Running
<1>3. ASSUME NEW p \in Pass, SnoozePhase(p, j) \/ PollerSnoozes(p, j)
      PROVE  Restated(j, "scheduled") /\ SpendsNothing(j)
  BY <1>1, <1>3, RowRestated DEF SnoozePhase, PollerSnoozes, Snoozes
<1>4. ASSUME NEW p \in Pass, PollerRejected(p, j)
      PROVE  Restated(j, "done") /\ SpendsNothing(j)
  BY <1>1, <1>4, RowRestated DEF PollerRejected, Takes, Runnable, Running
<1>5. ASSUME NEW s \in {"retryable", "scheduled"}, Promote(j, s)
      PROVE  Restated(j, "available") /\ SpendsNothing(j)
  BY <1>1, <1>5, RowRestated DEF Promote, Runnable
<1>6. QED
  BY <1>2, <1>3, <1>4, <1>5

(* The steps that make a row done and have another follow it.              *)
LEMMA PollerFollowed ==
  ASSUME TypeOK, NEW p \in Pass, NEW j \in Job, PollerApproved(p, j)
  PROVE  (\E n \in Job : Followed(j, n, "task_phase", job[j].phase)) /\ SpendsNothing(j)
<1>1. PICK n \in Slots :
        job' = [job EXCEPT ![j].state = "done",
                  ![n] = NewRow("task_phase", job[j].issue, job[j].phase, FALSE)]
  BY DEF PollerApproved
<1>2. job \in [Job -> JobRow] /\ job[j].state # "free"
  BY DEF TypeOK, PollerApproved, Takes
<1> DEFINE done == [job[j] EXCEPT !.state = "done"]
<1>3. PICK ph \in Nat : ph = job[j].phase
  BY <1>2 DEF JobRow
<1>4. EndOf(done, job[j]) /\ done.spent = job[j].spent
  <2>1. job[j] \in JobRow
    BY <1>2
  <2>2. QED
    BY <2>1 DEF EndOf, JobRow, Runnable, Running
<1>5. job' = [job EXCEPT ![j] = done, ![n] = NewRow("task_phase", job[j].issue, ph, FALSE)]
  BY <1>1, <1>3
<1> HIDE DEF done
<1>6. Followed(j, n, "task_phase", ph) /\ job'[j] = done
  <2>1. Written(j, done, n, NewRow("task_phase", job[j].issue, ph, FALSE))
    BY <1>2, <1>5 DEF Written, Slots, Live
  <2>2. QED
    BY <1>2, <1>4, <2>1, RowFollowed
<1>7. QED
  BY <1>3, <1>4, <1>6 DEF Slots, SpendsNothing

(* A phase ends: the last one ends the task, behind another the next phase *)
(* follows or, if it needs approval, a poller.                             *)
Ends(j) ==
  \/ /\ job[j].phase = Last(job[j].issue)
     /\ Restated(j, "done") /\ owed' = owed \ {job[j].issue}
  \/ /\ job[j].phase # Last(job[j].issue) /\ owed' = owed
     /\ \E n \in Job, kind \in {"task_phase", "approval_poller"} :
          /\ PhaseOf(j).approval => kind = "approval_poller"
          /\ Followed(j, n, kind, job[j].phase + 1)

(* Lemma: a phase that is done ends the chain of its issue, or is followed *)
(* by the next phase, through a poller if it needs an approval; its cost is*)
(* counted for the job.                                                    *)
LEMMA PhaseEnds ==
  ASSUME TypeOK, NEW p \in Pass, PhaseDone(p)
  PROVE  /\ working[p] \in Job /\ job[working[p]].state = "executing"
         /\ Ends(working[p])
         /\ \E c \in Cost \cup {0} : job'[working[p]].spent = job[working[p]].spent + c
<1>1. PICK j \in Job : working[p] = j
  BY DEF PhaseDone, TypeOK
<1>2. job \in [Job -> JobRow] /\ job[j].state = "executing"
  BY <1>1 DEF TypeOK, PhaseDone
<1>3. PICK c \in Cost \cup {0} :
        IF job[j].phase = Last(job[j].issue)
        THEN /\ job' = [job EXCEPT ![j] = Done(j, c)]
             /\ owed' = owed \ {job[j].issue}
        ELSE /\ \E n \in Slots : job' = [job EXCEPT ![j] = Done(j, c), ![n] = Following(j)]
             /\ UNCHANGED owed
  BY <1>1 DEF PhaseDone
<1> DEFINE done == Done(j, c)
<1>4. EndOf(done, job[j]) /\ done.spent = job[j].spent + c
  <2>1. c \in Nat
    BY RunnerAssumption
  <2>2. QED
    BY <1>2, <2>1, RowDone
<1> HIDE DEF done
<1>5. CASE job[j].phase = Last(job[j].issue)
  <2>1. job' = [job EXCEPT ![j] = done] /\ owed' = owed \ {job[j].issue}
    BY <1>3, <1>5 DEF done
  <2>2. job'[j] = done /\ job' \in [Job -> JobRow] /\ \A k \in Job \ {j} : job'[k] = job[k]
    BY <1>2, <1>4, <2>1 DEF EndOf
  <2>3. Restated(j, "done")
    BY <1>2, <1>4, <2>2 DEF Restated, EndOf
  <2>4. QED
    BY <1>1, <1>2, <1>4, <1>5, <2>1, <2>2, <2>3 DEF Ends
<1>6. CASE job[j].phase # Last(job[j].issue)
  <2>1. PICK n \in Slots : job' = [job EXCEPT ![j] = done, ![n] = Following(j)]
    BY <1>3, <1>6 DEF done
  <2>2. owed' = owed
    BY <1>3, <1>6
  <2>3. PICK ph \in Nat : ph = job[j].phase + 1
    BY <1>2 DEF JobRow
  <2>4. ASSUME NEW kind \in {"task_phase", "approval_poller"},
               Following(j) = NewRow(kind, job[j].issue, ph, FALSE),
               PhaseOf(j).approval => kind = "approval_poller"
        PROVE  Ends(j) /\ job'[j] = done
    <3>1. Written(j, done, n, NewRow(kind, job[j].issue, ph, FALSE))
      BY <1>2, <2>1, <2>4 DEF Written, Slots, Live
    <3>2. Followed(j, n, kind, ph) /\ job'[j] = done
      BY <1>2, <1>4, <3>1, RowFollowed
    <3>3. QED
      BY <1>6, <2>2, <2>3, <2>4, <3>2 DEF Ends, Slots
  <2>5. ASSUME PhaseOf(j).approval PROVE Ends(j) /\ job'[j] = done
    <3>1. Following(j) = NewRow("approval_poller", job[j].issue, ph, FALSE)
      BY <2>3, <2>5 DEF Following
    <3>2. QED
      BY <2>4, <3>1
  <2>6. ASSUME ~ PhaseOf(j).approval PROVE Ends(j) /\ job'[j] = done
    <3>1. Following(j) = NewRow("task_phase", job[j].issue, ph, FALSE)
      BY <2>3, <2>6 DEF Following
    <3>2. QED
      BY <2>4, <2>6, <3>1
  <2>7. Ends(j) /\ job'[j] = done
    BY <2>5, <2>6
  <2>8. QED
    BY <1>1, <1>2, <1>4, <2>7
<1>7. QED
  BY <1>5, <1>6

(* The steps in which an attempt fails.                                    *)
LEMMA FailingRows ==
  ASSUME TypeOK
  PROVE  /\ \A p \in Pass : PhaseNotFollowed(p) =>
              /\ working[p] \in Job /\ job[working[p]].state = "executing"
              /\ \E c \in Cost \ {0} : Record(working[p], c) /\ Fails(working[p], c)
         /\ \A p \in Pass : AttemptFails(p) => working[p] \in Job /\ Fails(working[p], 0)
         /\ \A j \in Job : Drops(j) => Fails(j, 0)
<1> USE RunnerAssumption
<1>1. job \in [Job -> JobRow]
  BY DEF TypeOK
<1>2. ASSUME NEW p \in Pass, PhaseNotFollowed(p)
      PROVE  /\ working[p] \in Job /\ job[working[p]].state = "executing"
             /\ \E c \in Cost \ {0} : Record(working[p], c) /\ Fails(working[p], c)
  <2>1. PICK j \in Job : working[p] = j
    BY <1>2 DEF PhaseNotFollowed, TypeOK
  <2>2. job[j].state = "executing"
    BY <1>2, <2>1 DEF PhaseNotFollowed
  <2>3. PICK c \in Cost \ {0} : Record(j, c) /\ AfterError(j, c)
    BY <1>2, <2>1 DEF PhaseNotFollowed
  <2>4. Fails(j, c)
    BY <1>1, <2>2, <2>3, AttemptFailed
  <2>5. QED
    BY <2>1, <2>2, <2>3, <2>4
<1>3. ASSUME NEW p \in Pass, AttemptFails(p)
      PROVE  working[p] \in Job /\ Fails(working[p], 0)
  <2>1. PICK j \in Job : working[p] = j
    BY <1>3 DEF AttemptFails, TypeOK
  <2>2. job[j].state # "free" /\ AfterError(j, 0)
    BY <1>3, <2>1 DEF AttemptFails, TypeOK, Running
  <2>3. QED
    BY <1>1, <2>1, <2>2, AttemptFailed
<1>4. ASSUME NEW j \in Job, Drops(j) PROVE Fails(j, 0)
  <2>1. job[j].state # "free" /\ AfterError(j, 0)
    BY <1>4 DEF Drops, Rescue, PollerNotFollowed, Running
  <2>2. QED
    BY <1>1, <2>1, AttemptFailed
<1>5. QED
  BY <1>2, <1>3, <1>4

(* A job that is completed goes away.                                      *)
LEMMA CompletedRow ==
  ASSUME TypeOK, NEW p \in Pass, CompleteJob(p)
  PROVE  working[p] \in Job /\ job[working[p]].state = "done" /\ Freed(working[p])
BY RowFreed DEF CompleteJob, TypeOK
-----------------------------------------------------------------------------
(* Numbers and sets.                                                       *)

(* A nonempty set of numbers has a least one, which Min is.                *)
LEMMA MinIsMember ==
  ASSUME NEW S \in SUBSET Nat, S # {}
  PROVE  Min(S) \in S /\ \A n \in S : Min(S) <= n
<1> DEFINE R == {ss \in Nat \X Nat : ss[1] < ss[2]}
<1>1. IsWellFoundedOn(R, Nat)
  BY NatLessThanWellFounded, Zenon DEF OpToRel
<1>2. \E x \in S : \A y \in S : ~ (<<y, x>> \in R)
  <2> HIDE DEF R
  <2> QED
    BY <1>1, WFMin
<1>3. PICK x \in S : \A y \in S : ~ (<<y, x>> \in R)
  BY <1>2
<1>4. ASSUME NEW y \in S PROVE x <= y
  <2>1. ~ (<<y, x>> \in R)
    BY <1>3
  <2>2. ~ (y < x)
    BY <2>1
  <2>3. QED
    BY <2>2
<1>5. QED
  BY <1>4 DEF Min


(* Of a finite set that gains an element, or loses one.                    *)
LEMMA Counting ==
  ASSUME NEW S, IsFiniteSet(S)
  PROVE  \A A, B \in SUBSET S :
           /\ Cardinality(A) \in Nat /\ Cardinality(B) \in Nat
           /\ B \subseteq A => Cardinality(B) <= Cardinality(A)
           /\ \A x : B \subseteq A \cup {x} => Cardinality(B) <= Cardinality(A) + 1
           /\ \A x \in A : B \subseteq A \ {x} => Cardinality(B) + 1 <= Cardinality(A)
<1> SUFFICES ASSUME NEW A \in SUBSET S, NEW B \in SUBSET S
             PROVE  /\ Cardinality(A) \in Nat /\ Cardinality(B) \in Nat
                    /\ B \subseteq A => Cardinality(B) <= Cardinality(A)
                    /\ \A x : B \subseteq A \cup {x} => Cardinality(B) <= Cardinality(A) + 1
                    /\ \A x \in A : B \subseteq A \ {x} => Cardinality(B) + 1 <= Cardinality(A)
  OBVIOUS
<1>1. IsFiniteSet(A) /\ IsFiniteSet(B)
  BY FS_Subset
<1>2. Cardinality(A) \in Nat /\ Cardinality(B) \in Nat
  BY <1>1, FS_CardinalityType
<1>3. B \subseteq A => Cardinality(B) <= Cardinality(A)
  BY <1>1, FS_Subset
<1>4. ASSUME NEW x, B \subseteq A \cup {x} PROVE Cardinality(B) <= Cardinality(A) + 1
  <2>1. /\ IsFiniteSet(A \cup {x})
        /\ Cardinality(A \cup {x}) = IF x \in A THEN Cardinality(A) ELSE Cardinality(A) + 1
    BY <1>1, FS_AddElement
  <2>2. Cardinality(B) <= Cardinality(A \cup {x})
    BY <2>1, <1>4, FS_Subset
  <2>3. QED
    BY <2>1, <2>2, <1>2
<1>5. ASSUME NEW x \in A, B \subseteq A \ {x} PROVE Cardinality(B) + 1 <= Cardinality(A)
  <2>1. IsFiniteSet(A \ {x}) /\ Cardinality(A \ {x}) = Cardinality(A) - 1
    BY <1>1, FS_RemoveElement
  <2>2. Cardinality(B) <= Cardinality(A \ {x})
    BY <2>1, <1>5, FS_Subset
  <2>3. QED
    BY <2>1, <2>2, <1>2
<1>6. QED
  BY <1>2, <1>3, <1>4, <1>5

(* A nonempty finite set of numbers has a greatest one, which Max is: the  *)
(* one that has the fewest above it has none.                              *)
LEMMA MaxIsMember ==
  ASSUME NEW S \in SUBSET Nat, S # {}, IsFiniteSet(S)
  PROVE  Max(S) \in S /\ \A n \in S : n <= Max(S)
<1> DEFINE Above(x) == {y \in S : y > x}
           N == {Cardinality(Above(x)) : x \in S}
<1>1. \A x \in S : Above(x) \in SUBSET S /\ Cardinality(Above(x)) \in Nat
  BY Counting
<1>2. N \in SUBSET Nat /\ N # {}
  BY <1>1
<1>3. Min(N) \in N /\ \A n \in N : Min(N) <= n
  <2> HIDE DEF N
  <2> QED
    BY <1>2, MinIsMember
<1>4. PICK x \in S : Cardinality(Above(x)) = Min(N)
  BY <1>3
<1>5. ASSUME NEW y \in S PROVE y <= x
  <2>1. SUFFICES ASSUME y > x PROVE FALSE
    OBVIOUS
  <2>2. y \in Above(x) /\ Above(y) \subseteq Above(x) \ {y}
    <3>1. \A a, b, c \in Nat : b > a /\ c > b => c > a /\ c # b
      OBVIOUS
    <3>2. ASSUME NEW z \in Above(y) PROVE z \in Above(x) /\ z # y
      <4>1. x \in Nat /\ y \in Nat /\ z \in Nat /\ z > y
        OBVIOUS
      <4>2. QED
        BY <2>1, <3>1, <4>1
    <3>3. QED
      BY <2>1, <3>2
  <2>3. Cardinality(Above(y)) + 1 <= Cardinality(Above(x))
    <3>1. Above(x) \in SUBSET S /\ Above(y) \in SUBSET S
      BY <1>1
    <3> HIDE DEF Above
    <3>2. QED
      BY <2>2, <3>1, Counting
  <2>4. Cardinality(Above(x)) <= Cardinality(Above(y))
    BY <1>3, <1>4
  <2>5. Cardinality(Above(x)) \in Nat /\ Cardinality(Above(y)) \in Nat
    BY <1>1
  <2> HIDE DEF Above
  <2>6. QED
    BY <2>3, <2>4, <2>5
<1>6. \E z \in S : \A y \in S : z >= y
  BY <1>5
<1>7. QED
  BY <1>6 DEF Max

(* What a phase may cost at most.                                          *)
LEMMA MaxCost == Max(Cost) \in Nat /\ \A c \in Cost : c \in Nat /\ c <= Max(Cost)
<1>1. Cost \in SUBSET Nat /\ Cost # {} /\ IsFiniteSet(Cost)
  BY RunnerAssumption
<1>2. QED
  BY <1>1, MaxIsMember

(* A workflow has a phase, and what an issue is matched to is a workflow.  *)
LEMMA Workflows ==
  /\ \A w \in DOMAIN Phases : Len(Phases[w]) \in Nat \ {0}
  /\ \A i \in Issue : Match(i) # NoWorkflow => Match(i) \in DOMAIN Phases
<1>1. ASSUME NEW w \in DOMAIN Phases PROVE Len(Phases[w]) \in Nat \ {0}
  BY RunnerAssumption
<1>2. ASSUME NEW i \in Issue, Match(i) # NoWorkflow PROVE Match(i) \in DOMAIN Phases
  <2> DEFINE hits == {n \in DOMAIN Rules : Rules[n].labels \subseteq Tags[i]}
  <2>1. Rules \in Seq([labels : SUBSET Label, workflow : DOMAIN Phases])
    BY RunnerAssumption
  <2>2. hits # {} /\ Match(i) = Rules[Min(hits)].workflow
    BY <1>2 DEF Match
  <2>3. hits \in SUBSET Nat /\ hits \subseteq DOMAIN Rules
    BY <2>1
  <2>4. Min(hits) \in hits
    <3> HIDE DEF hits
    <3> QED
      BY <2>2, <2>3, MinIsMember
  <2>5. Rules[Min(hits)] \in [labels : SUBSET Label, workflow : DOMAIN Phases]
    <3> HIDE DEF hits
    <3>1. QED
      <4>1. Min(hits) \in DOMAIN Rules
        BY <2>3, <2>4
      <4>2. \A n \in DOMAIN Rules : Rules[n] \in [labels : SUBSET Label, workflow : DOMAIN Phases]
        <5> DEFINE R == [labels : SUBSET Label, workflow : DOMAIN Phases]
        <5>1. Rules \in Seq(R)
          BY <2>1
        <5> HIDE DEF R
        <5>2. \A n \in DOMAIN Rules : Rules[n] \in R
          BY <5>1
        <5>3. QED
          BY <5>2 DEF R
      <4>3. QED
        BY <4>1, <4>2
  <2>6. QED
    BY <2>2, <2>5
<1>3. QED
  BY <1>1, <1>2
-----------------------------------------------------------------------------
(* The initial states have the invariant.                                  *)
LEMMA InitIInv == Init => IInv
<1> SUFFICES ASSUME Init PROVE IInv
  OBVIOUS
<1> USE RunnerAssumption
<1>1. job \in [Job -> JobRow] /\ Live = {}
  BY RowTypes DEF Init, Live, Free
<1>2. TypeOK
  <2>1. labels \in [Issue -> SUBSET StateLabel]
    BY DEF Init, StateLabel
  <2>2. /\ \A j \in Live : job[j].phase \in 1 .. Last(job[j].issue)
        /\ \A p \in Pass : working[p] # NoJob =>
             job[working[p]].state \in Running /\ \A q \in Pass \ {p} : working[q] # working[p]
    BY <1>1 DEF Init
  <2>3. /\ lastWord \in [Issue -> {"none", "approve", "reject"}]
        /\ pc \in [Pass -> {"off", "on", "stopping"}]
        /\ room \in [Pass -> 0 .. MaxActiveTasks]
        /\ todo \in [Pass -> SUBSET Issue] /\ working \in [Pass -> Job \cup {NoJob}]
        /\ taskSpent \in [Issue -> Nat] /\ daySpent \in Nat
        /\ starts \in 0 .. MaxPasses /\ human \in 0 .. MaxHuman /\ faults \in 0 .. MaxFaults
    BY DEF Init
  <2>4. completed \cup saidYes \cup gateSeen \cup forgotten \cup repeated \cup owed \subseteq Issue
    BY DEF Init
  <2>5. overlapped \in BOOLEAN
    BY Zenon DEF Init
  <2>6. QED
    BY <1>1, <2>1, <2>2, <2>3, <2>4, <2>5 DEF TypeOK
<1>3. RoomInv /\ RoutedInv /\ ChainInv /\ OwedInv /\ PeopleDecide
  BY <1>1 DEF Init, RoomInv, RoutedInv, ChainInv, ChainOf, LiveOf, OwedInv, PeopleDecide
<1>4. BoardInv
  <2>1. Active = {}
    BY <1>1 DEF Active
  <2>2. Cardinality(Active) = 0
    BY <2>1, FS_EmptySet
  <2>3. QED
    BY <2>2 DEF Init, BoardInv, TakingIn
<1>5. WordInv
  BY DEF Init, WordInv, ApprovalStatus, Free
<1>6. MoneyInv
  <2>1. Executing = {}
    BY DEF Init, Executing
  <2>2. Cardinality(Executing) = 0 /\ Cardinality(Pass) \in Nat /\ Max(Cost) \in Nat
    BY <2>1, FS_EmptySet, FS_CardinalityType, MaxCost
  <2>3. Cardinality(Pass) * Max(Cost) \in Nat
    BY <2>2
  <2>4. \A j \in Job : job[j].state = "free"
    BY DEF Init, Free
  <2>5. daySpent = 0
    BY DEF Init
  <2>6. 0 + 0 * Max(Cost) <= PerDay - 1 + Cardinality(Pass) * Max(Cost)
    <3>1. \A a, b \in Nat : a > 0 => 0 + 0 <= a - 1 + b
      OBVIOUS
    <3>2. \A m \in Nat : 0 * m = 0
      OBVIOUS
    <3>3. 0 * Max(Cost) = 0 /\ PerDay \in Nat /\ PerDay > 0
      BY <2>2, <3>2
    <3>4. QED
      BY <2>3, <3>1, <3>3
  <2>7. QED
    BY <2>2, <2>4, <2>5, <2>6 DEF MoneyInv, Live
<1>7. QED
  BY <1>2, <1>3, <1>4, <1>5, <1>6 DEF IInv

-----------------------------------------------------------------------------
(* Types.                                                                  *)
Types == TypeOK /\ RoomInv /\ RoutedInv

(* Rows in use are of a workflow and in one of its phases.                 *)
InRange == \A j \in Live : job[j].phase \in 1 .. Last(job[j].issue)

(* Any step changes the rows in one of the five ways, or not at all.       *)
LEMMA RowSteps ==
  ASSUME Types, Next
  PROVE  \/ UNCHANGED job
         \/ \E j \in Job : Freed(j)
         \/ \E j \in Job, s \in {"executing", "scheduled", "done", "available"} : Restated(j, s)
         \/ \E j \in Job, c \in Nat : Retried(j, c)
         \/ \E j, n \in Job, kind \in {"task_phase", "approval_poller"} :
              \E ph \in 1 .. Last(job[j].issue) : Followed(j, n, kind, ph)
         \/ \E n \in Job, i \in Issue : Taken(n, i) /\ Match(i) # NoWorkflow
<1> USE RunnerAssumption
<1>1. CASE \E p \in Pass : \/ StartPass(p) \/ PassIsOver(p) \/ Crash(p) \/ IntakeFails(p)
                           \/ \E i \in Issue : SkipIssue(p, i)
  BY <1>1 DEF StartPass, PassIsOver, Crash, IntakeFails, SkipIssue, queue
<1>2. CASE \/ \E i \in Issue : CleanCompleted(i)
           \/ \E i \in Watched : Answer(i) \/ ChangeLabel(i)
           \/ NewDay
  BY <1>2 DEF CleanCompleted, Answer, ChangeLabel, ByHand, NewDay, queue
<1>3. ASSUME NEW p \in Pass, NEW i \in Issue, TakeIn(p, i)
      PROVE  \E n \in Job : Taken(n, i) /\ Match(i) # NoWorkflow
  BY <1>3, TakeInRow DEF Types, TakeIn
<1>4. ASSUME NEW p \in Pass, NEW j \in Job,
             StartPhase(p, j) \/ SnoozePhase(p, j) \/ PollerRejected(p, j) \/ PollerSnoozes(p, j)
      PROVE  \E s \in {"executing", "scheduled", "done", "available"} : Restated(j, s)
  BY <1>4, RestatingRows DEF Types
<1>5. ASSUME NEW p \in Pass, NEW j \in Job, PollerApproved(p, j)
      PROVE  \E n \in Job, ph \in 1 .. Last(job[j].issue) : Followed(j, n, "task_phase", ph)
  <2>1. j \in Live
    BY <1>5 DEF PollerApproved, Takes, Live
  <2>2. QED
    BY <1>5, <2>1, PollerFollowed DEF Types, TypeOK
<1>6. ASSUME NEW p \in Pass, PhaseDone(p)
      PROVE  \E j \in Job :
               \/ Restated(j, "done")
               \/ \E n \in Job, kind \in {"task_phase", "approval_poller"} :
                    \E ph \in 1 .. Last(job[j].issue) : Followed(j, n, kind, ph)
  <2>1. PICK j \in Job : Ends(j) /\ job[j].state = "executing"
    BY <1>6, PhaseEnds DEF Types
  <2>2. CASE Restated(j, "done")
    BY <2>2
  <2>3. CASE /\ job[j].phase # Last(job[j].issue)
             /\ \E n \in Job, kind \in {"task_phase", "approval_poller"} :
                  Followed(j, n, kind, job[j].phase + 1)
    <3>1. job[j].phase \in 1 .. Last(job[j].issue) /\ Match(job[j].issue) \in DOMAIN Phases
      BY <2>1 DEF Types, TypeOK, RoutedInv, Live
    <3>2. Last(job[j].issue) \in Nat
      BY <3>1, Workflows DEF Last
    <3>3. job[j].phase + 1 \in 1 .. Last(job[j].issue)
      BY <2>3, <3>1, <3>2
    <3>4. QED
      BY <2>3, <3>3
  <2>4. QED
    BY <2>1, <2>2, <2>3 DEF Ends
<1>7. ASSUME NEW p \in Pass, CompleteJob(p) PROVE \E j \in Job : Freed(j)
  BY <1>7, CompletedRow DEF Types
<1>8. ASSUME NEW p \in Pass, PhaseNotFollowed(p) \/ AttemptFails(p)
      PROVE  \E j \in Job : Freed(j) \/ \E c \in Nat : Retried(j, c)
  BY <1>8, FailingRows DEF Types, Fails
<1>9. ASSUME NEW j \in Job, Drops(j)
      PROVE  Freed(j) \/ \E c \in Nat : Retried(j, c)
  BY <1>9, FailingRows DEF Types, Fails
<1>10. ASSUME NEW j \in Job, Promote(j, "retryable") \/ Promote(j, "scheduled")
       PROVE  Restated(j, "available")
  BY <1>10, RestatingRows DEF Types
<1>11. QED
  BY <1>1, <1>2, <1>3, <1>4, <1>5, <1>6, <1>7, <1>8, <1>9, <1>10
     DEF Next, Drops, Intake, Work

(* Rows stay rows, of a workflow and in one of its phases.                 *)
LEMMA RowsStayTyped ==
  ASSUME Types, Next
  PROVE  job' \in [Job -> JobRow] /\ RoutedInv' /\ InRange'
<1> USE RunnerAssumption
<1>1. job \in [Job -> JobRow] /\ RoutedInv /\ InRange
  BY DEF Types, TypeOK, InRange
<1>2. CASE UNCHANGED job
  BY <1>1, <1>2 DEF RoutedInv, InRange, Live
<1>3. ASSUME NEW j \in Job, Freed(j) \/ (\E c \in Nat : Retried(j, c))
                            \/ \E s \in {"executing", "scheduled", "done", "available"} : Restated(j, s)
      PROVE  job' \in [Job -> JobRow] /\ RoutedInv' /\ InRange'
  <2>1. job' \in [Job -> JobRow]
    BY <1>3 DEF Freed, Retried, Restated
  <2>2. \A k \in Job : job'[k].state # "free" =>
           /\ job[k].state # "free"
           /\ job'[k].issue = job[k].issue /\ job'[k].phase = job[k].phase
    BY <1>3 DEF Freed, Retried, Restated
  <2>3. QED
    BY <1>1, <2>1, <2>2 DEF RoutedInv, InRange, Live
<1>4. ASSUME NEW j \in Job, NEW n \in Job, NEW kind \in {"task_phase", "approval_poller"},
             NEW ph \in 1 .. Last(job[j].issue), Followed(j, n, kind, ph)
      PROVE  job' \in [Job -> JobRow] /\ RoutedInv' /\ InRange'
  <2>1. job' \in [Job -> JobRow] /\ j \in Live
    BY <1>4 DEF Followed, Live
  <2>2. \A k \in Job \ {n} : job'[k].state # "free" =>
           /\ job[k].state # "free"
           /\ job'[k].issue = job[k].issue /\ job'[k].phase = job[k].phase
    BY <1>4 DEF Followed
  <2>3. job'[n].issue = job[j].issue /\ job'[n].phase = ph
    BY <1>4 DEF Followed, Inserted
  <2>4. RoutedInv'
    BY <1>1, <2>1, <2>2, <2>3 DEF RoutedInv, Live
  <2>5. InRange'
    BY <1>1, <2>1, <2>2, <2>3 DEF InRange, Live
  <2>6. QED
    BY <2>1, <2>4, <2>5
<1>5. ASSUME NEW n \in Job, NEW i \in Issue, Taken(n, i), Match(i) # NoWorkflow
      PROVE  job' \in [Job -> JobRow] /\ RoutedInv' /\ InRange'
  <2>1. /\ job' \in [Job -> JobRow] /\ job'[n].issue = i /\ job'[n].phase = 1
        /\ \A k \in Job \ {n} : job'[k] = job[k]
    BY <1>5 DEF Taken, Inserted
  <2>2. Match(i) \in DOMAIN Phases /\ 1 \in 1 .. Last(i)
    BY <1>5, Workflows DEF Last
  <2>3. RoutedInv'
    BY <1>1, <2>1, <2>2 DEF RoutedInv, Live
  <2>4. InRange'
    BY <1>1, <2>1, <2>2 DEF InRange, Live
  <2>5. QED
    BY <2>1, <2>3, <2>4
<1>6. QED
  BY <1>2, <1>3, <1>4, <1>5, RowSteps
(* A worker's job is running, and nobody else's.                           *)
Workers ==
  /\ working \in [Pass -> Job \cup {NoJob}]
  /\ \A p \in Pass : working[p] # NoJob =>
       job[working[p]].state \in Running /\ \A q \in Pass \ {p} : working[q] # working[p]

(* A worker takes a job that was not running.                              *)
LEMMA WorkersTake ==
  ASSUME Workers, NEW p \in Pass, NEW j \in Job, job[j].state \notin Running,
         working' = [working EXCEPT ![p] = j], job'[j].state \in Running,
         \A k \in Job \ {j} : job[k].state \in Running => job'[k].state \in Running
  PROVE  Workers'
<1> USE RunnerAssumption
<1>1. \A q \in Pass : working[q] # j
  BY DEF Workers
<1>2. working' \in [Pass -> Job \cup {NoJob}]
  BY DEF Workers
<1>3. \A q \in Pass \ {p} : working'[q] = working[q] /\ working'[p] = j
  BY DEF Workers
<1>4. \A q \in Pass \ {p} : working[q] # NoJob => job'[working[q]].state \in Running
  BY <1>1 DEF Workers
<1>5. QED
  BY <1>1, <1>2, <1>3, <1>4 DEF Workers

(* Every step keeps the workers apart.                                     *)
LEMMA WorkersStayApart == ASSUME Types, Next PROVE Workers'
<1> USE RunnerAssumption
<1>1. Workers
  BY DEF Types, TypeOK, Workers
<1>2. ASSUME UNCHANGED working,
             \A j \in Job : job[j].state \in Running /\ (\E p \in Pass : working[p] = j)
                              => job'[j].state \in Running
      PROVE  Workers'
  BY <1>1, <1>2 DEF Workers
<1>3. ASSUME NEW p \in Pass, working' = [working EXCEPT ![p] = NoJob],
             NEW j \in Job, working[p] = j, \A k \in Job \ {j} : job'[k] = job[k]
      PROVE  Workers'
  BY <1>1, <1>3 DEF Workers
<1>4. CASE \E p \in Pass : \/ StartPass(p) \/ PassIsOver(p) \/ IntakeFails(p)
                           \/ \E i \in Issue : SkipIssue(p, i)
  BY <1>2, <1>4 DEF StartPass, PassIsOver, IntakeFails, SkipIssue, queue
<1>5. CASE \/ \E i \in Issue : CleanCompleted(i)
           \/ \E i \in Watched : Answer(i) \/ ChangeLabel(i)
           \/ NewDay
  BY <1>2, <1>5 DEF CleanCompleted, Answer, ChangeLabel, ByHand, NewDay, queue, passes
<1>6. ASSUME NEW p \in Pass, NEW i \in Issue, TakeIn(p, i) PROVE Workers'
  <2>1. PICK n \in Job : Taken(n, i)
    BY <1>6, TakeInRow DEF Types
  <2>2. working' = working
    BY <1>6 DEF TakeIn
  <2>3. QED
    BY <1>2, <2>1, <2>2 DEF Taken, Inserted, Running
<1>7. ASSUME NEW p \in Pass, NEW j \in Job, StartPhase(p, j) \/ PollerRejected(p, j)
      PROVE  Workers'
  <2>1. \E s \in {"executing", "done"} : Restated(j, s)
    BY <1>7, RestatingRows DEF Types
  <2>2. working' = [working EXCEPT ![p] = j] /\ job[j].state = "available"
    BY <1>7 DEF StartPhase, PollerRejected, Takes
  <2>3. QED
    BY <1>1, <2>1, <2>2, WorkersTake DEF Restated, Running
<1>8. ASSUME NEW p \in Pass, NEW j \in Job, PollerApproved(p, j) PROVE Workers'
  <2>1. PICK n \in Job : Followed(j, n, "task_phase", job[j].phase)
    BY <1>8, PollerFollowed DEF Types
  <2>2. working' = [working EXCEPT ![p] = j] /\ job[j].state = "available"
    BY <1>8 DEF PollerApproved, Takes
  <2>3. job'[j].state \in Running /\ job[j].state \notin Running
    BY <2>1, <2>2 DEF Followed, Running
  <2>4. \A k \in Job \ {j} : job[k].state \in Running => job'[k].state \in Running
    BY <2>1 DEF Followed, Inserted, Running
  <2>5. QED
    BY <1>1, <2>2, <2>3, <2>4, WorkersTake
<1>9. ASSUME NEW p \in Pass, NEW j \in Job, SnoozePhase(p, j) \/ PollerSnoozes(p, j)
      PROVE  Workers'
  <2>1. Restated(j, "scheduled") /\ job[j].state = "available" /\ working' = working
    BY <1>9, RestatingRows DEF Types, SnoozePhase, PollerSnoozes, Snoozes, passes
  <2>2. QED
    BY <1>2, <2>1 DEF Restated, Running
<1>10. ASSUME NEW j \in Job, NEW s \in {"retryable", "scheduled"}, Promote(j, s) PROVE Workers'
  <2>1. Restated(j, "available") /\ job[j].state = s /\ working' = working
    BY <1>10, RestatingRows DEF Types, Promote, passes
  <2>2. QED
    BY <1>2, <2>1 DEF Restated, Running
<1>11. ASSUME NEW p \in Pass, PhaseDone(p) PROVE Workers'
  <2>1. PICK j \in Job : Ends(j)
    BY <1>11, PhaseEnds DEF Types
  <2>2. working' = working
    BY <1>11 DEF PhaseDone, passes
  <2>3. \A k \in Job : job[k].state \in Running => job'[k].state \in Running
    BY <2>1 DEF Ends, Restated, Followed, Inserted, Running
  <2>4. QED
    BY <1>2, <2>2, <2>3
<1>12. ASSUME NEW p \in Pass, PhaseNotFollowed(p) \/ AttemptFails(p) PROVE Workers'
  <2>1. PICK j \in Job, c \in Nat : working[p] = j /\ Fails(j, c)
    BY <1>12, FailingRows DEF Types
  <2>2. working' = [working EXCEPT ![p] = NoJob]
    BY <1>12 DEF PhaseNotFollowed, AttemptFails
  <2>3. QED
    BY <1>3, <2>1, <2>2 DEF Fails, Freed, Retried
<1>13. ASSUME NEW p \in Pass, CompleteJob(p) PROVE Workers'
  <2>1. PICK j \in Job : working[p] = j /\ Freed(j)
    BY <1>13, CompletedRow DEF Types
  <2>2. working' = [working EXCEPT ![p] = NoJob]
    BY <1>13 DEF CompleteJob
  <2>3. QED
    BY <1>3, <2>1, <2>2 DEF Freed
<1>14. ASSUME NEW p \in Pass, Crash(p) PROVE Workers'
  <2>1. working' = [working EXCEPT ![p] = NoJob] /\ job' = job
    BY <1>14 DEF Crash, queue
  <2>2. QED
    BY <1>1, <2>1 DEF Workers
<1>15. ASSUME NEW j \in Job, Drops(j) PROVE Workers'
  <2>1. PICK c \in Nat : Fails(j, c)
    BY <1>15, FailingRows DEF Types
  <2>2. working' = working /\ \A p \in Pass : working[p] # j
    <3>1. working' = working
      BY <1>15 DEF Drops, Rescue, PollerNotFollowed, passes
    <3>2. job[j].state = "available" \/ \A p \in Pass : working[p] # j
      BY <1>15 DEF Drops, Rescue, PollerNotFollowed
    <3>3. QED
      BY <1>1, <3>1, <3>2, RunnerAssumption DEF Workers, Running
  <2>3. \A k \in Job \ {j} : job'[k] = job[k]
    BY <2>1 DEF Fails, Freed, Retried
  <2>4. QED
    BY <1>2, <2>2, <2>3
<1>16. QED
  BY <1>4, <1>5, <1>6, <1>7, <1>8, <1>9, <1>10, <1>11, <1>12, <1>13, <1>14, <1>15
     DEF Next, Drops, Intake, Work
(* The work on jobs leaves GitHub alone, and the passes' intake.           *)
Elsewhere == <<labels, lastWord, saidYes, gateSeen, overlapped, pc, room, todo>>

(* Lemma: neither the work on jobs nor River's maintenance touches GitHub  *)
(* or what a pass found.                                                   *)
LEMMA WorkFrames ==
  /\ \A p \in Pass : Work(p) \/ PhaseNotFollowed(p) \/ AttemptFails(p) => UNCHANGED Elsewhere
  /\ \A j \in Job : Drops(j) \/ Promote(j, "retryable") \/ Promote(j, "scheduled")
                     => UNCHANGED Elsewhere
<1> USE DEF Elsewhere, github, passes, history
<1>1. ASSUME NEW p \in Pass, NEW j \in Job, NEW kind, Takes(p, j, kind) \/ Snoozes(p, j, kind)
      PROVE  UNCHANGED Elsewhere
  BY <1>1 DEF Takes, Snoozes
<1>2. ASSUME NEW p \in Pass, PhaseDone(p) \/ CompleteJob(p) PROVE UNCHANGED Elsewhere
  BY <1>2 DEF PhaseDone, CompleteJob
<1>3. ASSUME NEW p \in Pass, NEW j \in Job, StartPhase(p, j) \/ SnoozePhase(p, j)
      PROVE  UNCHANGED Elsewhere
  BY <1>1, <1>3 DEF StartPhase, SnoozePhase
<1>4. ASSUME NEW p \in Pass, NEW j \in Job,
             PollerApproved(p, j) \/ PollerRejected(p, j) \/ PollerSnoozes(p, j)
      PROVE  UNCHANGED Elsewhere
  BY <1>1, <1>4 DEF PollerApproved, PollerRejected, PollerSnoozes
<1>5. ASSUME NEW p \in Pass, PhaseNotFollowed(p) \/ AttemptFails(p) PROVE UNCHANGED Elsewhere
  BY <1>5 DEF PhaseNotFollowed, AttemptFails
<1>6. ASSUME NEW j \in Job, Drops(j) \/ Promote(j, "retryable") \/ Promote(j, "scheduled")
      PROVE  UNCHANGED Elsewhere
  BY <1>6 DEF Drops, Rescue, PollerNotFollowed, Promote
<1> HIDE DEF Elsewhere
<1>7. QED
  BY <1>2, <1>3, <1>4, <1>5, <1>6 DEF Work

(* The types of what is not a row or a worker.                             *)
Plain ==
  /\ labels \in [Issue -> SUBSET StateLabel]
  /\ lastWord \in [Issue -> {"none", "approve", "reject"}]
  /\ pc \in [Pass -> {"off", "on", "stopping"}]
  /\ room \in [Pass -> 0 .. MaxActiveTasks]
  /\ todo \in [Pass -> SUBSET Issue]
  /\ RoomInv
  /\ taskSpent \in [Issue -> Nat] /\ daySpent \in Nat
  /\ completed \cup saidYes \cup gateSeen \cup forgotten \cup repeated \cup owed \subseteq Issue
  /\ starts \in 0 .. MaxPasses /\ human \in 0 .. MaxHuman /\ faults \in 0 .. MaxFaults

(* Intake has room as long as it has something to look at.                 *)
LEMMA IntakesTyped ==
  ASSUME Plain, NEW p \in Pass, NEW issues \in SUBSET Issue, NEW n \in 0 .. MaxActiveTasks,
         Intakes(p, issues, n)
  PROVE  /\ room' \in [Pass -> 0 .. MaxActiveTasks] /\ todo' \in [Pass -> SUBSET Issue]
         /\ RoomInv'
<1> USE RunnerAssumption
<1>1. room' \in [Pass -> 0 .. MaxActiveTasks]
  BY DEF Plain, Intakes
<1>2. todo' \in [Pass -> SUBSET Issue]
  BY DEF Plain, Intakes
<1>3. todo'[p] # {} => room'[p] # 0
  BY DEF Plain, Intakes
<1>4. \A q \in Pass \ {p} : todo'[q] = todo[q] /\ room'[q] = room[q]
  BY DEF Plain, Intakes
<1>5. QED
  BY <1>1, <1>2, <1>3, <1>4 DEF Plain, RoomInv

(* Every step keeps them.                                                  *)
LEMMA PlainTypes == ASSUME Types, Next PROVE Plain'
<1> USE RunnerAssumption
<1>1. Plain /\ job \in [Job -> JobRow]
  BY DEF Types, TypeOK, Plain
<1> USE DEF github, queue, passes, budget, history
<1>2. ASSUME NEW p \in Pass, StartPass(p) PROVE Plain'
  <2>1. CountActive \in Nat
    BY FS_Subset, FS_CardinalityType DEF CountActive, Live
  <2>2. PICK n \in 0 .. MaxActiveTasks : Intakes(p, PollRaw, n)
    <3>1. (IF CountActive < MaxActiveTasks THEN MaxActiveTasks - CountActive ELSE 0)
            \in 0 .. MaxActiveTasks
      BY <2>1
    <3>2. QED
      BY <1>2, <3>1 DEF StartPass
  <2>3. /\ room' \in [Pass -> 0 .. MaxActiveTasks] /\ todo' \in [Pass -> SUBSET Issue]
        /\ RoomInv'
    BY <1>1, <2>2, IntakesTyped DEF PollRaw
  <2>4. starts' \in 0 .. MaxPasses /\ pc' \in [Pass -> {"off", "on", "stopping"}]
    BY <1>1, <1>2 DEF StartPass, Plain
  <2>5. QED
    BY <1>1, <1>2, <2>3, <2>4 DEF StartPass, Plain
<1>3. ASSUME NEW p \in Pass, NEW i \in Issue, SkipIssue(p, i) PROVE Plain'
  <2>1. /\ room' \in [Pass -> 0 .. MaxActiveTasks] /\ todo' \in [Pass -> SUBSET Issue]
        /\ RoomInv'
    <3>1. todo[p] \ {i} \in SUBSET Issue /\ room[p] \in 0 .. MaxActiveTasks
      BY <1>1 DEF Plain
    <3>2. QED
      BY <1>1, <1>3, <3>1, IntakesTyped DEF SkipIssue
  <2>2. QED
    BY <1>1, <1>3, <2>1 DEF SkipIssue, Plain
<1>4. ASSUME NEW p \in Pass, NEW i \in Issue, TakeIn(p, i) PROVE Plain'
  <2>1. /\ room' \in [Pass -> 0 .. MaxActiveTasks] /\ todo' \in [Pass -> SUBSET Issue]
        /\ RoomInv'
    <3>1. todo[p] \ {i} \in SUBSET Issue /\ room[p] - 1 \in 0 .. MaxActiveTasks
      BY <1>1, <1>4 DEF Plain, RoomInv, TakeIn, TakingIn
    <3>2. QED
      BY <1>1, <1>4, <3>1, IntakesTyped DEF TakeIn
  <2>2. labels' \in [Issue -> SUBSET StateLabel]
    <3>1. labels \in [Issue -> SUBSET StateLabel]
      BY <1>1 DEF Plain
    <3>2. labels' = labels \/ labels' = [labels EXCEPT ![i] = @ \ {"ready"}]
      BY <1>4 DEF TakeIn, MarkInProgress
    <3>3. QED
      BY <3>1, <3>2
  <2>3. faults' \in 0 .. MaxFaults
    BY <1>1, <1>4 DEF TakeIn, Plain
  <2>4. owed' \subseteq Issue
    BY <1>1, <1>4 DEF TakeIn, Plain
  <2>5. QED
    BY <1>1, <1>4, <2>1, <2>2, <2>3, <2>4 DEF TakeIn, Plain
<1>5. ASSUME NEW p \in Pass, IntakeFails(p) \/ Crash(p) PROVE Plain'
  <2>1. /\ room' \in [Pass -> 0 .. MaxActiveTasks] /\ todo' \in [Pass -> SUBSET Issue]
        /\ RoomInv'
    BY <1>1, <1>5, IntakesTyped DEF IntakeFails, Crash
  <2>2. faults' \in 0 .. MaxFaults
    BY <1>1, <1>5 DEF IntakeFails, Crash, Fault, Plain
  <2>3. pc' \in [Pass -> {"off", "on", "stopping"}]
    BY <1>1, <1>5 DEF IntakeFails, Crash, Plain
  <2>4. QED
    BY <1>1, <1>5, <2>1, <2>2, <2>3 DEF IntakeFails, Crash, Plain
<1>6. ASSUME NEW p \in Pass, PassIsOver(p) PROVE Plain'
  BY <1>1, <1>6 DEF PassIsOver, Plain, RoomInv
<1>7. ASSUME NEW p \in Pass, NEW j \in Job,
             StartPhase(p, j) \/ PollerApproved(p, j) \/ PollerRejected(p, j)
      PROVE  Plain'
  <2>1. owed' \subseteq Issue
    BY <1>1, <1>7 DEF StartPhase, PollerApproved, PollerRejected, Plain
  <2>2. QED
    BY <1>1, <1>7, <2>1 DEF StartPhase, PollerApproved, PollerRejected, Takes, Plain,
       RoomInv
<1>8. ASSUME NEW p \in Pass, NEW j \in Job, SnoozePhase(p, j) \/ PollerSnoozes(p, j)
      PROVE  Plain'
  <2>1. faults' \in 0 .. MaxFaults
    BY <1>1, <1>8 DEF SnoozePhase, PollerSnoozes, Fault, Plain
  <2>2. QED
    BY <1>1, <1>8, <2>1 DEF SnoozePhase, PollerSnoozes, Snoozes, Plain, RoomInv
<1>9. ASSUME NEW j \in Job, NEW c \in Cost, Record(j, c)
      PROVE  taskSpent' \in [Issue -> Nat] /\ daySpent' \in Nat
  <2>1. c \in Nat /\ job[j].issue \in Issue
    BY <1>1, MaxCost DEF JobRow
  <2>2. QED
    BY <1>1, <1>9, <2>1 DEF Record, Plain
<1>10. ASSUME NEW p \in Pass, PhaseDone(p) PROVE Plain'
  <2>1. PICK j \in Job : working[p] = j /\ Ends(j)
    BY <1>10, PhaseEnds DEF Types
  <2>2. taskSpent' \in [Issue -> Nat] /\ daySpent' \in Nat
    BY <1>1, <1>9, <1>10, <2>1 DEF PhaseDone, Plain
  <2>3. faults' \in 0 .. MaxFaults
    <3>1. faults' = faults \/ (faults < MaxFaults /\ faults' = faults + 1)
      BY <1>10 DEF PhaseDone, Fault
    <3>2. QED
      BY <1>1, <3>1 DEF Plain
  <2>4. owed' \subseteq Issue
    BY <1>1, <2>1 DEF Ends, Plain
  <2>5. QED
    BY <1>1, <1>10, <2>2, <2>3, <2>4 DEF PhaseDone, Plain, RoomInv
<1>11. ASSUME NEW j \in Job, NEW c, Fails(j, c) PROVE owed' \cup repeated' \subseteq Issue
  <2>1. job[j].issue \in Issue
    BY <1>1 DEF JobRow
  <2>2. QED
    BY <1>1, <1>11, <2>1 DEF Fails, Plain
<1>12. ASSUME NEW p \in Pass, PhaseNotFollowed(p) PROVE Plain'
  <2>1. PICK j \in Job, c \in Cost : working[p] = j /\ Record(j, c) /\ Fails(j, c)
    BY <1>12, FailingRows DEF Types
  <2>2. /\ taskSpent' \in [Issue -> Nat] /\ daySpent' \in Nat
        /\ owed' \cup repeated' \subseteq Issue
    BY <1>9, <1>11, <2>1
  <2>3. faults' \in 0 .. MaxFaults
    BY <1>1, <1>12 DEF PhaseNotFollowed, Fault, Plain
  <2>4. QED
    BY <1>1, <1>12, <2>2, <2>3 DEF PhaseNotFollowed, Plain, RoomInv
<1>13. ASSUME NEW p \in Pass, AttemptFails(p) PROVE Plain'
  <2>1. owed' \cup repeated' \subseteq Issue
    BY <1>11, <1>13, FailingRows DEF Types
  <2>2. faults' \in 0 .. MaxFaults
    BY <1>1, <1>13 DEF AttemptFails, Fault, Plain
  <2>3. QED
    BY <1>1, <1>13, <2>1, <2>2 DEF AttemptFails, Plain, RoomInv
<1>14. ASSUME NEW j \in Job, Drops(j) PROVE Plain'
  <2>1. owed' \cup repeated' \subseteq Issue
    BY <1>11, <1>14, FailingRows DEF Types
  <2>2. QED
    <3>1. faults' \in 0 .. MaxFaults
      BY <1>1, <1>14 DEF Drops, Rescue, PollerNotFollowed, Fault, Plain
    <3>2. QED
      BY <1>1, <1>14, <2>1, <3>1 DEF Drops, Rescue, PollerNotFollowed, Plain, RoomInv
<1>15. ASSUME NEW p \in Pass, CompleteJob(p) PROVE Plain'
  <2>1. PICK j \in Job : working[p] = j /\ job[j].issue \in Issue
    BY <1>1, <1>15, CompletedRow DEF Types, JobRow
  <2>2. completed' \subseteq Issue
    BY <1>1, <1>15, <2>1 DEF CompleteJob, Plain
  <2>3. QED
    BY <1>1, <1>15, <2>2 DEF CompleteJob, Plain, RoomInv
<1>16. ASSUME NEW j \in Job, NEW s \in {"retryable", "scheduled"}, Promote(j, s) PROVE Plain'
  BY <1>1, <1>16 DEF Promote, Plain, RoomInv
<1>17. ASSUME NEW i \in Issue, CleanCompleted(i) PROVE Plain'
  <2>1. completed' \subseteq Issue /\ forgotten' \subseteq Issue
    BY <1>1, <1>17 DEF CleanCompleted, Plain
  <2>2. QED
    BY <1>1, <1>17, <2>1 DEF CleanCompleted, Plain, RoomInv
<1>18. ASSUME NewDay PROVE Plain'
  BY <1>1, <1>18 DEF NewDay, Plain, RoomInv
<1>19. ASSUME NEW i \in Watched, Answer(i) PROVE Plain'
  <2>1. i \in Issue
    OBVIOUS
  <2>2. lastWord' \in [Issue -> {"none", "approve", "reject"}]
    BY <1>1, <1>19, <2>1 DEF Answer, Plain
  <2>3. saidYes' \subseteq Issue
    BY <1>1, <1>19, <2>1 DEF Answer, Plain
  <2>4. human' \in 0 .. MaxHuman
    BY <1>1, <1>19 DEF Answer, ByHand, Plain
  <2>5. QED
    BY <1>1, <1>19, <2>2, <2>3, <2>4 DEF Answer, ByHand, Plain, RoomInv
<1>20. ASSUME NEW i \in Watched, ChangeLabel(i) PROVE Plain'
  <2>1. i \in Issue
    OBVIOUS
  <2>2. labels' \in [Issue -> SUBSET StateLabel]
    BY <1>1, <1>20, <2>1 DEF ChangeLabel, Plain, SymDiff
  <2>3. saidYes' \cup gateSeen' \subseteq Issue
    BY <1>1, <1>20, <2>1 DEF ChangeLabel, Plain
  <2>4. human' \in 0 .. MaxHuman
    BY <1>1, <1>20 DEF ChangeLabel, ByHand, Plain
  <2>5. QED
    BY <1>1, <1>20, <2>2, <2>3, <2>4 DEF ChangeLabel, ByHand, Plain, RoomInv
<1>21. QED
  BY <1>2, <1>3, <1>4, <1>5, <1>6, <1>7, <1>8, <1>10, <1>12, <1>13, <1>14, <1>15, <1>16,
     <1>17, <1>18, <1>19, <1>20 DEF Next, Drops, Intake, Work

(* Types are kept.                                                         *)
LEMMA StepTypes == Types /\ [Next]_vars => Types'
<1> SUFFICES ASSUME Types, [Next]_vars PROVE Types'
  OBVIOUS
<1>1. CASE UNCHANGED vars
  BY <1>1 DEF Types, TypeOK, RoomInv, RoutedInv, Live, vars, github, queue, passes,
     budget, history
<1>2. CASE Next
  <2>1. job' \in [Job -> JobRow] /\ RoutedInv' /\ InRange'
    BY <1>2, RowsStayTyped
  <2>2. Workers'
    BY <1>2, WorkersStayApart
  <2>3. Plain'
    BY <1>2, PlainTypes
  <2>4. overlapped' \in BOOLEAN
    <3>1. overlapped \in BOOLEAN
      BY DEF Types, TypeOK
    <3>2. UNCHANGED overlapped \/ \E p \in Pass, i \in Issue : TakeIn(p, i)
      <4>1. CASE \/ \E p \in Pass : \/ StartPass(p) \/ PassIsOver(p) \/ Crash(p) \/ IntakeFails(p)
                                    \/ \E i \in Issue : SkipIssue(p, i)
                 \/ \E i \in Issue : CleanCompleted(i)
                 \/ \E i \in Watched : Answer(i) \/ ChangeLabel(i)
                 \/ NewDay
        BY <4>1 DEF StartPass, IntakeFails, SkipIssue, PassIsOver, Crash, CleanCompleted,
           Answer, ChangeLabel, ByHand, NewDay, history
      <4>2. CASE \/ \E p \in Pass : Work(p) \/ PhaseNotFollowed(p) \/ AttemptFails(p)
                 \/ \E j \in Job : Drops(j) \/ Promote(j, "retryable") \/ Promote(j, "scheduled")
        BY <4>2, WorkFrames DEF Elsewhere
      <4>3. QED
        BY <1>2, <4>1, <4>2 DEF Next, Drops, Intake
    <3>3. CASE \E p \in Pass, i \in Issue : TakeIn(p, i)
      BY <3>3, Zenon DEF TakeIn
    <3>4. QED
      BY <3>1, <3>2, <3>3
  <2>5. TypeOK'
    BY <2>1, <2>2, <2>3, <2>4 DEF TypeOK, Plain, Workers, InRange
  <2>6. QED
    BY <2>1, <2>3, <2>5 DEF Types, Plain
<1>3. QED
  BY <1>1, <1>2
-----------------------------------------------------------------------------
(* The chains of jobs.                                                     *)

(* What a step does to the rows, and to what is known of their issues.     *)
OldRows ==
  \/ UNCHANGED <<job, completed, forgotten, repeated, owed>>
  \/ \E i \in Issue :
       /\ completed' = completed \ {i}
       /\ forgotten' = IF LiveOf(i) # {} THEN forgotten \cup {i} ELSE forgotten
       /\ UNCHANGED <<job, repeated, owed>>
  \/ \E j \in Job, s \in {"executing", "scheduled", "done", "available"} :
       /\ Restated(j, s) /\ job[j].state # "done"
       /\ owed' = IF s = "done" THEN owed \ {job[j].issue} ELSE owed
       /\ UNCHANGED <<completed, forgotten, repeated>>
  \/ \E j, n \in Job, kind \in {"task_phase", "approval_poller"}, ph \in Nat :
       /\ Followed(j, n, kind, ph) /\ job[j].state # "done"
       /\ UNCHANGED <<completed, forgotten, repeated, owed>>
  \/ \E j \in Job, c \in Nat :
       /\ Fails(j, c)
       /\ UNCHANGED <<completed, forgotten>>
  \/ \E j \in Job :
       /\ Freed(j) /\ job[j].state = "done"
       /\ completed' = IF job[j].unique THEN completed \cup {job[j].issue} ELSE completed
       /\ UNCHANGED <<forgotten, repeated, owed>>
NewIssue == \E p \in Pass, i \in Issue : TakeIn(p, i) /\ \E n \in Job : Taken(n, i)

(* Every step is one of those.                                             *)
LEMMA ChainSteps == ASSUME Types, Next PROVE OldRows \/ NewIssue
<1> USE RunnerAssumption DEF github, queue, passes, budget, history
<1>1. job \in [Job -> JobRow]
  BY DEF Types, TypeOK
<1>2. CASE \/ \E p \in Pass : \/ StartPass(p) \/ PassIsOver(p) \/ Crash(p) \/ IntakeFails(p)
                              \/ \E i \in Issue : SkipIssue(p, i)
           \/ \E i \in Watched : Answer(i) \/ ChangeLabel(i)
           \/ NewDay
  <2>1. UNCHANGED <<job, completed, forgotten, repeated, owed>>
    BY <1>2 DEF StartPass, PassIsOver, Crash, IntakeFails, SkipIssue, Answer, ChangeLabel,
         ByHand, NewDay
  <2>2. QED
    BY <2>1 DEF OldRows
<1>3. ASSUME NEW i \in Issue, CleanCompleted(i) PROVE OldRows
  <2>1. /\ completed' = completed \ {i}
        /\ forgotten' = IF LiveOf(i) # {} THEN forgotten \cup {i} ELSE forgotten
        /\ UNCHANGED <<job, repeated, owed>>
    BY <1>3 DEF CleanCompleted
  <2>2. QED
    BY <2>1 DEF OldRows
<1>4. ASSUME NEW p \in Pass, NEW i \in Issue, TakeIn(p, i) PROVE NewIssue
  BY <1>4, TakeInRow DEF Types, NewIssue
<1>5. ASSUME NEW j \in Job, NEW s \in {"executing", "scheduled", "done", "available"},
             Restated(j, s), job[j].state # "done",
             owed' = IF s = "done" THEN owed \ {job[j].issue} ELSE owed,
             UNCHANGED <<completed, forgotten, repeated>>
      PROVE  OldRows
  BY <1>5 DEF OldRows
<1>6. ASSUME NEW p \in Pass, NEW j \in Job, StartPhase(p, j) PROVE OldRows
  BY <1>5, <1>6, RestatingRows DEF Types, StartPhase, Takes
<1>7. ASSUME NEW p \in Pass, NEW j \in Job, SnoozePhase(p, j) \/ PollerSnoozes(p, j)
      PROVE  OldRows
  BY <1>5, <1>7, RestatingRows DEF Types, SnoozePhase, PollerSnoozes, Snoozes
<1>8. ASSUME NEW p \in Pass, NEW j \in Job, PollerRejected(p, j) PROVE OldRows
  BY <1>5, <1>8, RestatingRows DEF Types, PollerRejected, Takes
<1>9. ASSUME NEW j \in Job, NEW s \in {"retryable", "scheduled"}, Promote(j, s) PROVE OldRows
  BY <1>5, <1>9, RestatingRows DEF Types, Promote
<1>10. ASSUME NEW p \in Pass, NEW j \in Job, PollerApproved(p, j) PROVE OldRows
  <2>1. PICK n \in Job : Followed(j, n, "task_phase", job[j].phase)
    BY <1>10, PollerFollowed DEF Types
  <2>2. job[j].state # "done" /\ UNCHANGED <<completed, forgotten, repeated, owed>>
    BY <1>10 DEF PollerApproved, Takes
  <2>3. job[j].phase \in Nat
    BY <1>1 DEF JobRow
  <2>4. QED
    BY <2>1, <2>2, <2>3 DEF OldRows
<1>11. ASSUME NEW p \in Pass, PhaseDone(p) PROVE OldRows
  <2>1. PICK j \in Job : Ends(j) /\ job[j].state = "executing"
    BY <1>11, PhaseEnds DEF Types
  <2>2. UNCHANGED <<completed, forgotten, repeated>>
    BY <1>11 DEF PhaseDone
  <2>3. job[j].phase + 1 \in Nat
    BY <1>1 DEF JobRow
  <2>4. CASE Restated(j, "done") /\ owed' = owed \ {job[j].issue}
    BY <1>5, <2>1, <2>2, <2>4
  <2>5. CASE /\ owed' = owed
             /\ \E n \in Job, kind \in {"task_phase", "approval_poller"} :
                  Followed(j, n, kind, job[j].phase + 1)
    BY <2>1, <2>2, <2>3, <2>5 DEF OldRows
  <2>6. QED
    BY <2>1, <2>4, <2>5 DEF Ends
<1>12. ASSUME NEW j \in Job, NEW c \in Nat, Fails(j, c), UNCHANGED <<completed, forgotten>>
       PROVE  OldRows
  BY <1>12 DEF OldRows
<1>13. ASSUME NEW p \in Pass, PhaseNotFollowed(p) \/ AttemptFails(p) PROVE OldRows
  <2>1. PICK j \in Job, c \in Nat : Fails(j, c)
    BY <1>13, FailingRows DEF Types
  <2>2. UNCHANGED <<completed, forgotten>>
    BY <1>13 DEF PhaseNotFollowed, AttemptFails
  <2>3. QED
    BY <1>12, <2>1, <2>2
<1>14. ASSUME NEW j \in Job, Drops(j) PROVE OldRows
  BY <1>12, <1>14, FailingRows DEF Types, Drops, Rescue, PollerNotFollowed
<1>15. ASSUME NEW p \in Pass, CompleteJob(p) PROVE OldRows
  <2>1. PICK j \in Job : working[p] = j /\ job[j].state = "done" /\ Freed(j)
    BY <1>15, CompletedRow DEF Types
  <2>2. /\ completed' = IF job[j].unique THEN completed \cup {job[j].issue} ELSE completed
        /\ UNCHANGED <<forgotten, repeated, owed>>
    BY <1>15, <2>1 DEF CompleteJob
  <2>3. QED
    BY <2>1, <2>2 DEF OldRows
<1>16. QED
  BY <1>2, <1>3, <1>4, <1>6, <1>7, <1>8, <1>9, <1>10, <1>11, <1>13, <1>14, <1>15
     DEF Next, Drops, Intake, Work

(* An owed issue keeps a job that is not done.                             *)
LEMMA StepOwed == ASSUME Types, OwedInv, OldRows \/ NewIssue PROVE OwedInv'
<1> SUFFICES ASSUME NEW i \in owed'
             PROVE  \E j \in Job : /\ job'[j].state # "free" /\ job'[j].issue = i
                                   /\ job'[j].state # "done"
  BY DEF OwedInv, LiveOf, Live
<1>1. i \in owed => \E k \in Job : /\ job[k].state # "free" /\ job[k].issue = i
                                   /\ job[k].state # "done"
  BY DEF OwedInv, LiveOf, Live
<1>2. CASE UNCHANGED <<job, owed>>
  BY <1>1, <1>2
<1>3. ASSUME NEW j \in Job, NEW s \in {"executing", "scheduled", "done", "available"},
             Restated(j, s), owed' = IF s = "done" THEN owed \ {job[j].issue} ELSE owed
      PROVE  \E k \in Job : /\ job'[k].state # "free" /\ job'[k].issue = i
                            /\ job'[k].state # "done"
  BY <1>1, <1>3 DEF Restated
<1>4. ASSUME NEW j \in Job, NEW n \in Job, NEW kind, NEW ph, Followed(j, n, kind, ph),
             owed' = owed
      PROVE  \E k \in Job : /\ job'[k].state # "free" /\ job'[k].issue = i
                            /\ job'[k].state # "done"
  BY <1>1, <1>4 DEF Followed, Inserted
<1>5. ASSUME NEW j \in Job, NEW c \in Nat, Fails(j, c)
      PROVE  \E k \in Job : /\ job'[k].state # "free" /\ job'[k].issue = i
                            /\ job'[k].state # "done"
  BY <1>1, <1>5 DEF Fails, Freed, Retried
<1>6. ASSUME NEW j \in Job, Freed(j), job[j].state = "done", owed' = owed
      PROVE  \E k \in Job : /\ job'[k].state # "free" /\ job'[k].issue = i
                            /\ job'[k].state # "done"
  BY <1>1, <1>6 DEF Freed
<1>7. ASSUME NEW n \in Job, NEW h \in Issue, Taken(n, h), owed' = owed \cup {h}
      PROVE  \E k \in Job : /\ job'[k].state # "free" /\ job'[k].issue = i
                            /\ job'[k].state # "done"
  BY <1>1, <1>7 DEF Taken, Inserted
<1>8. QED
  BY <1>2, <1>3, <1>4, <1>5, <1>6, <1>7 DEF OldRows, NewIssue, TakeIn

(* An issue keeps a single chain.                                          *)
LEMMA StepChain == ASSUME Types, ChainInv, OldRows \/ NewIssue PROVE ChainInv'
<1> SUFFICES ASSUME NEW i \in Issue, i \notin repeated', i \notin forgotten'
             PROVE  ChainOf(i)'
  BY DEF ChainInv
<1>1. repeated \subseteq repeated' /\ forgotten \subseteq forgotten'
  BY DEF OldRows, NewIssue, TakeIn, Fails
<1>2. ChainOf(i)
  BY <1>1 DEF ChainInv
<1>3. LiveOf(i) \subseteq Job /\ LiveOf(i)' \subseteq Job /\ First \subseteq Job /\ Undone \subseteq Job
  BY DEF LiveOf, Live, First, Undone
(* Rows that are the same are the same in the sets.                        *)
<1>4. ASSUME NEW T \in SUBSET Job, \A k \in Job \ T : job'[k] = job[k]
      PROVE  /\ LiveOf(i)' \ T = LiveOf(i) \ T
             /\ First' \ T = First \ T /\ Undone' \ T = Undone \ T
  <2>1. LiveOf(i)' \ T = LiveOf(i) \ T
    BY <1>4 DEF LiveOf, Live
  <2>2. Undone' \ T = Undone \ T
    BY <1>4 DEF Undone
  <2>3. First' \ T = First \ T
    <3>1. \A k \in Job \ T : job'[k].unique = job[k].unique
      BY <1>4
    <3>2. ASSUME NEW k \in Job \ T PROVE k \in First' <=> k \in First
      BY <3>1, Zenon DEF First
    <3>3. QED
      BY <1>3, <3>2 DEF First
  <2>4. QED
    BY <2>1, <2>2, <2>3
<1>5. CASE UNCHANGED <<job, completed, forgotten, repeated, owed>>
  BY <1>2, <1>5 DEF ChainOf, LiveOf, Live, First, Undone
<1>6. ASSUME NEW h \in Issue, completed' = completed \ {h}, job' = job,
             forgotten' = IF LiveOf(h) # {} THEN forgotten \cup {h} ELSE forgotten
      PROVE  ChainOf(i)'
  <2>1. LiveOf(i)' = LiveOf(i) /\ First' = First /\ Undone' = Undone
    BY <1>6 DEF LiveOf, Live, First, Undone
  <2>2. i = h => LiveOf(i) = {}
    BY <1>6
  <2>3. QED
    BY <1>2, <1>6, <2>1, <2>2 DEF ChainOf
<1>7. ASSUME NEW j \in Job, NEW s \in {"executing", "scheduled", "done", "available"},
             Restated(j, s), job[j].state # "done", completed' = completed
      PROVE  ChainOf(i)'
  <2>1. LiveOf(i)' = LiveOf(i)
    BY <1>7 DEF LiveOf, Live, Restated
  <2>2. Undone' \subseteq Undone
    BY <1>7 DEF Undone, Restated
  <2>3. First' = First
    BY <1>7, Zenon DEF First, Restated
  <2>4. QED
    BY <1>2, <1>7, <2>1, <2>2, <2>3 DEF ChainOf
<1>8. ASSUME NEW j \in Job, NEW n \in Job, NEW kind, NEW ph, Followed(j, n, kind, ph),
             job[j].state # "done", completed' = completed
      PROVE  ChainOf(i)'
  <2>1. /\ LiveOf(i)' \subseteq LiveOf(i) \cup {n} /\ LiveOf(i) \subseteq LiveOf(i)'
        /\ n \in LiveOf(i)' => j \in LiveOf(i)
    BY <1>8 DEF LiveOf, Live, Followed, Inserted
  <2>2. Undone' \subseteq (Undone \ {j}) \cup {n} /\ j \in Undone
    BY <1>8 DEF Undone, Followed
  <2>3. First' \ {n} = First \ {n} /\ n \notin First' /\ n \notin LiveOf(i)
    <3>1. \A k \in Job \ {n} : job'[k].unique = job[k].unique
      BY <1>8 DEF Followed
    <3>2. ~ job'[n].unique
      BY <1>8 DEF Followed
    <3>3. First' \ {n} = First \ {n}
      BY <3>1, Zenon DEF First
    <3>4. n \notin First'
      BY <3>2, Zenon DEF First
    <3>5. n \notin LiveOf(i)
      BY <1>8 DEF Followed, Inserted, LiveOf, Live
    <3>6. QED
      BY <3>3, <3>4, <3>5
  <2>4. QED
    BY <1>2, <1>8, <2>1, <2>2, <2>3 DEF ChainOf
<1>9. ASSUME NEW j \in Job, Freed(j),
             j \in LiveOf(i) => j \in Undone \/ j \notin First \/ i \in completed',
             completed \subseteq completed'
      PROVE  ChainOf(i)'
  <2>1. LiveOf(i)' = LiveOf(i) \ {j}
    BY <1>9 DEF LiveOf, Live, Freed
  <2>2. First' \ {j} = First \ {j} /\ Undone' \ {j} = Undone \ {j}
    BY <1>4, <1>9 DEF Freed
  <2>3. QED
    BY <1>2, <1>9, <2>1, <2>2 DEF ChainOf
<1>10. ASSUME NEW j \in Job, NEW c \in Nat, Fails(j, c), completed' = completed
       PROVE  ChainOf(i)'
  <2>1. j \in LiveOf(i) => j \in Undone
    BY <1>10 DEF Fails, LiveOf, Live, Undone
  <2>2. CASE Freed(j)
    BY <1>9, <1>10, <2>1, <2>2
  <2>3. CASE Retried(j, c)
    <3>1. LiveOf(i)' = LiveOf(i)
      BY <2>3 DEF LiveOf, Live, Retried
    <3>2. Undone' \ {j} = Undone \ {j}
      BY <1>4, <2>3 DEF Retried
    <3>3. First' = First
      BY <2>3, Zenon DEF First, Retried
    <3>4. QED
      BY <1>2, <1>10, <2>1, <3>1, <3>2, <3>3 DEF ChainOf
  <2>4. QED
    BY <1>10, <2>2, <2>3 DEF Fails
<1>11. ASSUME NEW j \in Job, Freed(j), job[j].state = "done",
              completed' = IF job[j].unique THEN completed \cup {job[j].issue} ELSE completed
       PROVE  ChainOf(i)'
  <2>1. j \in First => job[j].unique
    BY Zenon DEF First
  <2>2. completed \subseteq completed'
    BY <1>11
  <2>3. j \in LiveOf(i) => job[j].issue = i
    BY DEF LiveOf
  <2>4. job[j].unique => job[j].issue \in completed'
    BY <1>11
  <2>5. QED
    BY <1>9, <1>11, <2>1, <2>2, <2>3, <2>4
<1>12. ASSUME NEW n \in Job, NEW h \in Issue, Taken(n, h), ~ IsDuplicate(h),
              completed' = completed
       PROVE  ChainOf(i)'
  <2>1. \A k \in Job \ {n} : job'[k] = job[k]
    BY <1>12 DEF Taken
  <2>2. /\ First' \ {n} = First \ {n} /\ Undone' \ {n} = Undone \ {n}
        /\ LiveOf(i)' \ {n} = LiveOf(i) \ {n}
    BY <1>4, <2>1
  <2>3. n \notin LiveOf(i) /\ (n \in LiveOf(i)' <=> i = h)
    BY <1>12 DEF Taken, Inserted, LiveOf, Live
  <2>4. n \in First'
    BY <1>12 DEF Taken, First
  <2>5. i = h => i \notin completed /\ LiveOf(i) \cap First = {}
    BY <1>12, Zenon DEF IsDuplicate, First
  <2>6. QED
    BY <1>2, <1>12, <2>2, <2>3, <2>4, <2>5 DEF ChainOf
<1>13. QED
  BY <1>5, <1>6, <1>7, <1>8, <1>10, <1>11, <1>12 DEF OldRows, NewIssue, TakeIn
-----------------------------------------------------------------------------
(* The board.                                                              *)

(* The issues with jobs are no more than the jobs that a pass counts.      *)
LEMMA Actives ==
  ASSUME Types
  PROVE  /\ IsFiniteSet(Active) /\ Cardinality(Active) \in Nat /\ CountActive \in Nat
         /\ Cardinality(Active) <= CountActive
<1> USE RunnerAssumption
<1>1. IsFiniteSet(Live)
  BY FS_Subset DEF Live
<1>2. CountActive \in Nat
  BY <1>1, FS_CardinalityType DEF CountActive
<1> DEFINE f == [j \in Live |-> job[j].issue]
<1>3. f \in Surjection(Live, Active)
  BY DEF Surjection, Active
<1>4. IsFiniteSet(Active) /\ Cardinality(Active) <= Cardinality(Live)
  BY <1>1, <1>3, FS_Surjection
<1>5. QED
  BY <1>2, <1>4, FS_CardinalityType DEF CountActive

(* Only intake makes an issue active.                                      *)
LEMMA ActivesShrink == ASSUME OldRows PROVE Active' \subseteq Active
<1>1. CASE UNCHANGED job
  BY <1>1 DEF Active, Live
<1>2. ASSUME NEW j \in Job, Freed(j) \/ (\E c \in Nat : Retried(j, c))
                            \/ \E s \in {"executing", "scheduled", "done", "available"} : Restated(j, s)
      PROVE  Active' \subseteq Active
  <2>1. \A k \in Job : job'[k].state # "free" =>
           job[k].state # "free" /\ job'[k].issue = job[k].issue
    BY <1>2 DEF Freed, Retried, Restated
  <2>2. QED
    BY <2>1 DEF Active, Live
<1>3. ASSUME NEW j \in Job, NEW n \in Job, NEW kind, NEW ph, Followed(j, n, kind, ph)
      PROVE  Active' \subseteq Active
  <2>1. \A k \in Job : job'[k].state # "free" =>
           \E l \in Job : job[l].state # "free" /\ job'[k].issue = job[l].issue
    BY <1>3 DEF Followed, Inserted
  <2>2. QED
    BY <2>1 DEF Active, Live
<1>4. QED
  BY <1>1, <1>2, <1>3 DEF OldRows, Fails

(* Otherwise a pass that takes in did so before, and has the room it had.  *)
Narrow ==
  /\ overlapped' = overlapped
  /\ \A p \in Pass : TakingIn(p)' => TakingIn(p) /\ room'[p] = room[p]

(* Every step is one of the three.                                         *)
LEMMA PassFrames ==
  ASSUME Types, Next
  PROVE  Narrow \/ NewIssue \/ \E p \in Pass : StartPass(p)
<1> USE RunnerAssumption DEF passes, history
<1>1. /\ pc \in [Pass -> {"off", "on", "stopping"}]
      /\ room \in [Pass -> 0 .. MaxActiveTasks] /\ todo \in [Pass -> SUBSET Issue]
  BY DEF Types, TypeOK
<1>2. CASE UNCHANGED <<overlapped, pc, room, todo>>
  BY <1>2 DEF Narrow, TakingIn
<1>3. ASSUME NEW p \in Pass, NEW i \in Issue, SkipIssue(p, i) PROVE Narrow
  BY <1>1, <1>3 DEF SkipIssue, Intakes, Narrow, TakingIn
<1>4. ASSUME NEW p \in Pass, IntakeFails(p) \/ Crash(p) PROVE Narrow
  BY <1>1, <1>4 DEF IntakeFails, Crash, Intakes, Narrow, TakingIn
<1>5. ASSUME NEW p \in Pass, PassIsOver(p) PROVE Narrow
  BY <1>1, <1>5 DEF PassIsOver, Narrow, TakingIn
<1>6. ASSUME NEW p \in Pass, NEW i \in Issue, TakeIn(p, i) PROVE NewIssue
  BY <1>6, TakeInRow DEF Types, NewIssue
<1>7. CASE \/ \E p \in Pass : \/ Work(p) \/ PhaseNotFollowed(p) \/ AttemptFails(p)
           \/ \E j \in Job : Drops(j) \/ Promote(j, "retryable") \/ Promote(j, "scheduled")
           \/ \E i \in Issue : CleanCompleted(i)
           \/ \E i \in Watched : Answer(i) \/ ChangeLabel(i)
           \/ NewDay
  <2>1. CASE \/ \E p \in Pass : Work(p) \/ PhaseNotFollowed(p) \/ AttemptFails(p)
             \/ \E j \in Job : Drops(j) \/ Promote(j, "retryable") \/ Promote(j, "scheduled")
    BY <1>2, <2>1, WorkFrames DEF Elsewhere
  <2>2. CASE \/ \E i \in Issue : CleanCompleted(i)
             \/ \E i \in Watched : Answer(i) \/ ChangeLabel(i)
             \/ NewDay
    <3>1. UNCHANGED <<overlapped, pc, room, todo>>
      BY <2>2 DEF CleanCompleted, Answer, ChangeLabel, ByHand, NewDay
    <3>2. QED
      BY <1>2, <3>1
  <2>3. QED
    BY <1>7, <2>1, <2>2
<1>8. QED
  BY <1>3, <1>4, <1>5, <1>6, <1>7 DEF Next, Drops, Intake

(* The board is kept.                                                      *)
LEMMA StepBoard == ASSUME Types, BoardInv, Next PROVE BoardInv'
<1> USE RunnerAssumption
<1> DEFINE A == Cardinality(Active)
           B == Cardinality(Active)'
<1>1. Types'
  BY StepTypes
<1>2. A \in Nat /\ IsFiniteSet(Active)
  BY Actives
<1>3. Active' \subseteq Active => B \in Nat /\ B <= A
  BY <1>2, FS_Subset, FS_CardinalityType
<1>4. \A i : Active' \subseteq Active \cup {i} => B \in Nat /\ B <= A + 1
  <2> SUFFICES ASSUME NEW i, Active' \subseteq Active \cup {i} PROVE B \in Nat /\ B <= A + 1
    OBVIOUS
  <2>1. /\ IsFiniteSet(Active \cup {i})
        /\ Cardinality(Active \cup {i}) = IF i \in Active THEN A ELSE A + 1
    BY <1>2, FS_AddElement
  <2>2. B \in Nat /\ B <= Cardinality(Active \cup {i})
    BY <2>1, FS_Subset, FS_CardinalityType
  <2> HIDE DEF A, B
  <2>3. QED
    BY <1>2, <2>1, <2>2
<1>5. room \in [Pass -> 0 .. MaxActiveTasks] /\ room' \in [Pass -> 0 .. MaxActiveTasks]
  BY <1>1 DEF Types, TypeOK
<1>6. ~ overlapped => /\ A <= MaxActiveTasks
                      /\ \A p \in Pass : TakingIn(p) => A + room[p] <= MaxActiveTasks
  BY DEF BoardInv
<1>7. SUFFICES ASSUME ~ overlapped'
               PROVE  /\ B <= MaxActiveTasks
                      /\ \A p \in Pass : TakingIn(p)' => B + room'[p] <= MaxActiveTasks
  BY DEF BoardInv
<1>8. \A a, b, r, m \in Nat : b <= a /\ a <= m => b <= m
  OBVIOUS
<1>9. \A a, b, r, m \in Nat : b <= a /\ a + r <= m => b + r <= m
  OBVIOUS
<1>10. CASE OldRows /\ Narrow
  <2>1. ~ overlapped /\ B <= A /\ B \in Nat
    BY <1>3, <1>7, <1>10, ActivesShrink DEF Narrow
  <2>2. \A p \in Pass : TakingIn(p)' => TakingIn(p) /\ room'[p] = room[p]
    BY <1>10 DEF Narrow
  <2> HIDE DEF A, B
  <2>3. B <= MaxActiveTasks
    BY <1>2, <1>6, <1>8, <2>1
  <2>4. ASSUME NEW p \in Pass, TakingIn(p)' PROVE B + room'[p] <= MaxActiveTasks
    <3>1. A + room[p] <= MaxActiveTasks /\ room[p] \in Nat /\ room'[p] = room[p]
      BY <1>5, <1>6, <2>1, <2>2, <2>4
    <3>2. QED
      BY <1>2, <1>9, <2>1, <3>1
  <2>5. QED
    BY <2>3, <2>4
<1>11. ASSUME NEW p \in Pass, StartPass(p)
       PROVE  /\ B <= MaxActiveTasks
              /\ \A q \in Pass : TakingIn(q)' => B + room'[q] <= MaxActiveTasks
  <2>1. ~ overlapped /\ job' = job
    BY <1>7, <1>11 DEF StartPass, history, queue
  <2>2. B = A
    BY <2>1 DEF Active, Live
  <2>3. \A q \in Pass \ {p} : TakingIn(q)' => TakingIn(q) /\ room'[q] = room[q]
    BY <1>11 DEF StartPass, Intakes, TakingIn, Types, TypeOK
  <2>4. TakingIn(p)' => CountActive < MaxActiveTasks /\ room'[p] = MaxActiveTasks - CountActive
    BY <1>11 DEF StartPass, Intakes, TakingIn, Types, TypeOK
  <2>5. CountActive \in Nat /\ A <= CountActive
    BY Actives
  <2> HIDE DEF A, B
  <2>6. TakingIn(p)' => B + room'[p] <= MaxActiveTasks
    <3>1. \A a, c, m \in Nat : a <= c => a + (m - c) <= m
      OBVIOUS
    <3>2. QED
      BY <1>2, <2>2, <2>4, <2>5, <3>1
  <2>7. QED
    BY <1>6, <2>1, <2>2, <2>3, <2>6
<1>12. CASE NewIssue
  <2>1. PICK p \in Pass, i \in Issue : TakeIn(p, i) /\ \E n \in Job : Taken(n, i)
    BY <1>12 DEF NewIssue
  <2>2. ~ overlapped /\ TakingIn(p) /\ \A q \in Pass \ {p} : ~ TakingIn(q)
    BY <1>7, <2>1 DEF TakeIn
  <2>3. Active' \subseteq Active \cup {i}
    BY <2>1 DEF Taken, Inserted, Active, Live
  <2>4. B \in Nat /\ B <= A + 1
    BY <1>4, <2>3
  <2>5. /\ \A q \in Pass \ {p} : ~ TakingIn(q)'
        /\ TakingIn(p)' => room'[p] = room[p] - 1
    BY <2>1, <2>2 DEF TakeIn, Intakes, TakingIn, Types, TypeOK
  <2>6. A + room[p] <= MaxActiveTasks
    BY <1>6, <2>2
  <2>7. room[p] \in Nat \ {0}
    BY <1>5, <2>2 DEF Types, RoomInv, TakingIn
  <2> HIDE DEF A, B
  <2>8. \A a, b, r, m \in Nat : b <= a + 1 /\ a + r <= m /\ r # 0 => b <= m /\ b + (r - 1) <= m
    OBVIOUS
  <2>9. B <= MaxActiveTasks /\ B + (room[p] - 1) <= MaxActiveTasks
    BY <1>2, <2>4, <2>6, <2>7, <2>8
  <2>10. QED
    BY <2>5, <2>9
<1>13. QED
  BY <1>10, <1>11, <1>12, ChainSteps, PassFrames
-----------------------------------------------------------------------------
(* What people decide.                                                     *)

(* What a phase lies behind.                                               *)
Behind(i, n) == \E m \in 1 .. n - 1 : Phases[Match(i)][m].approval
Gated(i, n)  == Phases[Match(i)][n].gate

(* A row is of PeopleDecide, and only a phase is executed.                 *)
Decided(k) ==
  /\ job[k].state = "executing" => job[k].kind = "task_phase"
  /\ job[k].state # "free" /\ job[k].kind = "task_phase" =>
       /\ Behind(job[k].issue, job[k].phase) => job[k].issue \in saidYes
       /\ Gated(job[k].issue, job[k].phase) /\ job[k].state \in Running
            => job[k].issue \in gateSeen

(* The history knows what GitHub has.                                      *)
Known == \A i \in Issue : /\ ApprovalStatus(i) = "approve" => i \in saidYes
                          /\ "gate" \in labels[i] => i \in gateSeen

(* Lemma: PeopleDecide and WordInv, said row by row.                       *)
LEMMA PeopleAre == WordInv /\ PeopleDecide <=> Known /\ \A k \in Job : Decided(k)
<1>1. \A k \in Job :
        /\ (\E n \in 1 .. job[k].phase - 1 : Phases[Match(job[k].issue)][n].approval)
              <=> Behind(job[k].issue, job[k].phase)
        /\ PhaseOf(k).gate <=> Gated(job[k].issue, job[k].phase)
  BY Zenon DEF Behind, Gated, PhaseOf
<1>2. PeopleDecide <=>
        \A k \in Job : job[k].state # "free" /\ job[k].kind = "task_phase" =>
          /\ Behind(job[k].issue, job[k].phase) => job[k].issue \in saidYes
          /\ Gated(job[k].issue, job[k].phase) /\ job[k].state \in Running
               => job[k].issue \in gateSeen
  BY <1>1, Zenon DEF PeopleDecide, Live
<1>3. QED
  BY <1>2, Zenon DEF WordInv, Known, Decided

(* A first phase is behind nothing, and the next phase after one without   *)
(* approval is behind the same ones.                                       *)
LEMMA BehindNext ==
  ASSUME NEW i, NEW n \in Nat
  PROVE  /\ ~ Behind(i, 1)
         /\ ~ Phases[Match(i)][n].approval /\ Behind(i, n + 1) => Behind(i, n)
<1>1. ~ Behind(i, 1)
  BY DEF Behind
<1>2. ASSUME ~ Phases[Match(i)][n].approval, Behind(i, n + 1) PROVE Behind(i, n)
  <2>1. PICK m \in 1 .. n + 1 - 1 : Phases[Match(i)][m].approval
    BY <1>2 DEF Behind
  <2>2. m # n
    BY <1>2, <2>1, Zenon
  <2>3. m \in 1 .. n - 1
    BY <2>2
  <2>4. QED
    BY <2>1, <2>3, Zenon DEF Behind
<1>3. QED
  BY <1>1, <1>2

(* What the history knows is kept.                                         *)
LEMMA StepKnown ==
  ASSUME Types, Known, Next
  PROVE  Known' /\ saidYes \subseteq saidYes' /\ gateSeen \subseteq gateSeen'
<1> USE RunnerAssumption DEF github
<1>1. /\ labels \in [Issue -> SUBSET StateLabel]
      /\ lastWord \in [Issue -> {"none", "approve", "reject"}]
  BY DEF Types, TypeOK
<1>2. CASE UNCHANGED <<labels, lastWord, saidYes, gateSeen>>
  BY <1>2 DEF Known, ApprovalStatus
<1>3. ASSUME NEW p \in Pass, NEW i \in Issue, TakeIn(p, i)
      PROVE  Known' /\ saidYes \subseteq saidYes' /\ gateSeen \subseteq gateSeen'
  <2>1. labels' = labels \/ labels' = [labels EXCEPT ![i] = @ \ {"ready"}]
    BY <1>3 DEF TakeIn, MarkInProgress
  <2>2. \A k \in Issue : /\ "approved" \in labels'[k] <=> "approved" \in labels[k]
                         /\ "gate" \in labels'[k] <=> "gate" \in labels[k]
    BY <1>1, <2>1
  <2>3. UNCHANGED <<lastWord, saidYes, gateSeen>>
    BY <1>3 DEF TakeIn
  <2>4. QED
    BY <2>2, <2>3 DEF Known, ApprovalStatus
<1>4. ASSUME NEW i \in Watched, Answer(i)
      PROVE  Known' /\ saidYes \subseteq saidYes' /\ gateSeen \subseteq gateSeen'
  <2>1. PICK word \in {"approve", "reject"} :
          /\ lastWord' = [lastWord EXCEPT ![i] = word]
          /\ saidYes' = IF word = "approve" THEN saidYes \cup {i} ELSE saidYes
    BY <1>4 DEF Answer
  <2>2. UNCHANGED <<labels, gateSeen>>
    BY <1>4 DEF Answer
  <2>3. saidYes \subseteq saidYes' /\ (lastWord'[i] = "approve" => i \in saidYes')
    BY <1>1, <2>1
  <2>4. \A k \in Issue \ {i} : lastWord'[k] = lastWord[k]
    BY <1>1, <2>1
  <2>5. QED
    BY <2>2, <2>3, <2>4 DEF Known, ApprovalStatus
<1>5. ASSUME NEW i \in Watched, ChangeLabel(i)
      PROVE  Known' /\ saidYes \subseteq saidYes' /\ gateSeen \subseteq gateSeen'
  <2>1. PICK l \in StateLabel :
          /\ labels' = [labels EXCEPT ![i] = SymDiff(@, {l})]
          /\ saidYes' = IF l = "approved" THEN saidYes \cup {i} ELSE saidYes
          /\ gateSeen' = IF l = "gate" THEN gateSeen \cup {i} ELSE gateSeen
    BY <1>5 DEF ChangeLabel
  <2>2. lastWord' = lastWord
    BY <1>5 DEF ChangeLabel
  <2>3. \A k \in Issue \ {i} : labels'[k] = labels[k]
    BY <1>1, <2>1
  <2>4. \A m \in labels'[i] : m \in labels[i] \/ m = l
    BY <1>1, <2>1 DEF SymDiff
  <2>5. saidYes \subseteq saidYes' /\ gateSeen \subseteq gateSeen'
    BY <2>1
  <2>6. /\ "approved" \in labels'[i] => "approved" \in labels[i] \/ i \in saidYes'
        /\ "gate" \in labels'[i] => "gate" \in labels[i] \/ i \in gateSeen'
    BY <2>1, <2>4
  <2>7. "approved" \notin labels'[i] /\ lastWord[i] = "approve" => i \in saidYes'
    BY <2>1, <2>5 DEF Known, ApprovalStatus
  <2>8. QED
    BY <2>2, <2>3, <2>5, <2>6, <2>7 DEF Known, ApprovalStatus
<1>6. CASE \/ \E p \in Pass : \/ StartPass(p) \/ PassIsOver(p) \/ Crash(p) \/ IntakeFails(p)
                              \/ \E i \in Issue : SkipIssue(p, i)
           \/ \E i \in Issue : CleanCompleted(i)
           \/ NewDay
  <2>1. UNCHANGED github
    BY <1>6 DEF StartPass, PassIsOver, Crash, IntakeFails, SkipIssue, CleanCompleted,
       NewDay
  <2>2. QED
    BY <1>2, <2>1
<1>7. CASE \/ \E p \in Pass : Work(p) \/ PhaseNotFollowed(p) \/ AttemptFails(p)
           \/ \E j \in Job : Drops(j) \/ Promote(j, "retryable") \/ Promote(j, "scheduled")
  <2>1. UNCHANGED <<labels, lastWord, saidYes, gateSeen>>
    BY <1>7, WorkFrames DEF Elsewhere
  <2>2. QED
    BY <1>2, <2>1
<1>8. QED
  BY <1>3, <1>4, <1>5, <1>6, <1>7 DEF Next, Drops, Intake

(* Every row stays decided.                                                *)
LEMMA StepDecided ==
  ASSUME Types, Known, \A k \in Job : Decided(k), Next
  PROVE  \A k \in Job : Decided(k)'
<1> USE RunnerAssumption
<1>1. job \in [Job -> JobRow]
  BY DEF Types, TypeOK
<1>2. saidYes \subseteq saidYes' /\ gateSeen \subseteq gateSeen'
  BY StepKnown
<1>3. ASSUME NEW k \in Job, job'[k] = job[k] PROVE Decided(k)'
  BY <1>2, <1>3 DEF Decided
<1>4. ASSUME NEW k \in Job, job'[k].state = "free" PROVE Decided(k)'
  BY <1>4 DEF Decided
(* A row that is kept, or changes its state without being begun.           *)
<1>5. ASSUME NEW k \in Job, job[k].state # "free", job'[k].state # "executing",
             job'[k].kind = job[k].kind, job'[k].issue = job[k].issue,
             job'[k].phase = job[k].phase,
             job'[k].state \in Running => job[k].state \in Running \/ job[k].kind # "task_phase"
      PROVE  Decided(k)'
  BY <1>2, <1>5 DEF Decided
(* A row of an issue whose phases may go as far as this.                   *)
<1>6. ASSUME NEW k \in Job, NEW kind, NEW i, NEW n, Inserted(k, kind, i, n),
             kind = "task_phase" /\ Behind(i, n) => i \in saidYes'
      PROVE  Decided(k)'
  BY <1>6 DEF Decided, Inserted, Running
<1>7. CASE UNCHANGED job
  BY <1>3, <1>7
<1>8. ASSUME NEW p \in Pass, NEW i \in Issue, TakeIn(p, i) PROVE \A k \in Job : Decided(k)'
  <2>1. PICK n \in Job : Taken(n, i)
    BY <1>8, TakeInRow DEF Types
  <2>2. ~ Behind(i, 1)
    BY BehindNext
  <2>3. QED
    BY <1>3, <1>6, <2>1, <2>2 DEF Taken
<1>9. ASSUME NEW p \in Pass, NEW j \in Job, StartPhase(p, j) PROVE \A k \in Job : Decided(k)'
  <2>1. Restated(j, "executing") /\ job[j].kind = "task_phase" /\ GateOpen(j) /\ Decided(j)
    BY <1>9, RestatingRows DEF Types, StartPhase, Takes
  <2>2. Gated(job[j].issue, job[j].phase) => "gate" \in labels[job[j].issue]
    BY <2>1, Zenon DEF GateOpen, PhaseOf, Gated
  <2>3. job[j].issue \in Issue
    BY <1>1 DEF JobRow
  <2>4. Gated(job[j].issue, job[j].phase) => job[j].issue \in gateSeen
    BY <2>2, <2>3 DEF Known
  <2>5. Decided(j)'
    BY <1>2, <2>1, <2>4 DEF Decided, Restated
  <2>6. QED
    BY <1>3, <2>1, <2>5 DEF Restated
<1>10. ASSUME NEW p \in Pass, NEW j \in Job,
              SnoozePhase(p, j) \/ PollerSnoozes(p, j) \/ PollerRejected(p, j)
       PROVE  \A k \in Job : Decided(k)'
  <2>1. Restated(j, "scheduled") \/ (Restated(j, "done") /\ job[j].kind = "approval_poller")
    BY <1>10, RestatingRows DEF Types, PollerRejected, Takes
  <2>2. Decided(j)'
    BY <1>5, <2>1 DEF Restated, Running
  <2>3. QED
    BY <1>3, <2>1, <2>2 DEF Restated
<1>11. ASSUME NEW j \in Job, NEW s \in {"retryable", "scheduled"}, Promote(j, s)
       PROVE  \A k \in Job : Decided(k)'
  <2>1. Restated(j, "available")
    BY <1>11, RestatingRows DEF Types
  <2>2. Decided(j)'
    BY <1>5, <2>1 DEF Restated, Running
  <2>3. QED
    BY <1>3, <2>1, <2>2 DEF Restated
<1>12. ASSUME NEW p \in Pass, NEW j \in Job, PollerApproved(p, j) PROVE \A k \in Job : Decided(k)'
  <2>1. PICK n \in Job : Followed(j, n, "task_phase", job[j].phase)
    BY <1>12, PollerFollowed DEF Types
  <2>2. job[j].issue \in saidYes' /\ job[j].kind = "approval_poller"
    BY <1>1, <1>2, <1>12 DEF PollerApproved, Takes, Known, JobRow
  <2>3. Decided(j)'
    BY <1>5, <2>1, <2>2 DEF Followed, Running
  <2>4. Decided(n)'
    BY <1>6, <2>1, <2>2 DEF Followed
  <2>5. QED
    BY <1>3, <2>1, <2>3, <2>4 DEF Followed
<1>13. ASSUME NEW p \in Pass, PhaseDone(p) PROVE \A k \in Job : Decided(k)'
  <2>1. PICK j \in Job : Ends(j) /\ job[j].state = "executing"
    BY <1>13, PhaseEnds DEF Types
  <2>2. CASE Restated(j, "done")
    <3>1. Decided(j)'
      BY <1>5, <2>1, <2>2 DEF Restated, Running
    <3>2. QED
      BY <1>3, <2>2, <3>1 DEF Restated
  <2>3. CASE \E n \in Job, kind \in {"task_phase", "approval_poller"} :
               /\ PhaseOf(j).approval => kind = "approval_poller"
               /\ Followed(j, n, kind, job[j].phase + 1)
    <3>1. PICK n \in Job, kind \in {"task_phase", "approval_poller"} :
            /\ PhaseOf(j).approval => kind = "approval_poller"
            /\ Followed(j, n, kind, job[j].phase + 1)
      BY <2>3
    <3>2. PICK i \in Issue, ph \in Nat : i = job[j].issue /\ ph = job[j].phase
      BY <1>1 DEF JobRow
    <3>3. Decided(j)'
      BY <1>5, <2>1, <3>1 DEF Followed, Running
    <3>4. kind = "task_phase" => ~ Phases[Match(i)][ph].approval
      BY <3>1, <3>2, Zenon DEF PhaseOf
    <3>5. Behind(i, ph) => i \in saidYes
      BY <2>1, <3>2 DEF Decided
    <3>6. kind = "task_phase" /\ Behind(i, ph + 1) => i \in saidYes'
      BY <1>2, <3>4, <3>5, BehindNext
    <3>7. Inserted(n, kind, i, ph + 1)
      BY <3>1, <3>2 DEF Followed
    <3>8. Decided(n)'
      BY <1>6, <3>6, <3>7
    <3>9. QED
      BY <1>3, <3>1, <3>3, <3>8 DEF Followed
  <2>4. QED
    BY <2>1, <2>2, <2>3 DEF Ends
<1>14. ASSUME NEW j \in Job, NEW c \in Nat, Fails(j, c) PROVE \A k \in Job : Decided(k)'
  <2>1. Decided(j)' /\ \A k \in Job \ {j} : job'[k] = job[k]
    BY <1>4, <1>5, <1>14 DEF Fails, Freed, Retried, Running
  <2>2. QED
    BY <1>3, <2>1
<1>15. ASSUME NEW p \in Pass, PhaseNotFollowed(p) \/ AttemptFails(p)
       PROVE  \A k \in Job : Decided(k)'
  BY <1>14, <1>15, FailingRows DEF Types
<1>16. ASSUME NEW j \in Job, Drops(j) PROVE \A k \in Job : Decided(k)'
  BY <1>14, <1>16, FailingRows DEF Types
<1>17. ASSUME NEW p \in Pass, CompleteJob(p) PROVE \A k \in Job : Decided(k)'
  <2>1. PICK j \in Job : Freed(j)
    BY <1>17, CompletedRow DEF Types
  <2>2. QED
    BY <1>3, <1>4, <2>1 DEF Freed
<1>18. CASE \/ \E p \in Pass : \/ StartPass(p) \/ PassIsOver(p) \/ Crash(p) \/ IntakeFails(p)
                               \/ \E i \in Issue : SkipIssue(p, i)
            \/ \E i \in Issue : CleanCompleted(i)
            \/ \E i \in Watched : Answer(i) \/ ChangeLabel(i)
            \/ NewDay
  <2>1. UNCHANGED job
    BY <1>18 DEF StartPass, PassIsOver, Crash, IntakeFails, SkipIssue, CleanCompleted,
       Answer,
         ChangeLabel, ByHand, NewDay, queue
  <2>2. QED
    BY <1>7, <2>1
<1>19. QED
  BY <1>8, <1>9, <1>10, <1>11, <1>12, <1>13, <1>15, <1>16, <1>17, <1>18
     DEF Next, Drops, Intake, Work
-----------------------------------------------------------------------------
(* Money.                                                                  *)

(* What a job has spent: a phase is begun below the limit only.            *)
Thrifty == \A j \in Live : /\ job[j].state = "executing" => job[j].spent <= PerRun - 1
                           /\ job[j].spent <= PerRun - 1 + Max(Cost)

(* Every step keeps that.                                                  *)
LEMMA StepThrifty == ASSUME Types, Thrifty, Next PROVE Thrifty'
<1> USE RunnerAssumption
<1>1. job \in [Job -> JobRow] /\ Max(Cost) \in Nat
  BY MaxCost DEF Types, TypeOK
<1>2. /\ \A a, c, m \in Nat : m > 0 /\ a <= m - 1 => a <= m - 1 + c
      /\ \A a, b, c, m \in Nat : m > 0 /\ a <= m - 1 /\ b <= c => a + b <= m - 1 + c
      /\ \A a, m \in Nat : m > 0 /\ a + 1 <= m => a <= m - 1
      /\ \A c, m \in Nat : m > 0 => 0 <= m - 1 + c
  OBVIOUS
<1>3. ASSUME NEW k \in Job
      PROVE  Thrifty => /\ job[k].state = "executing" => job[k].spent <= PerRun - 1
                        /\ job[k].state # "free" => job[k].spent <= PerRun - 1 + Max(Cost)
  BY DEF Thrifty, Live
<1> DEFINE Fine(k) == /\ job'[k].state = "executing" => job'[k].spent <= PerRun - 1
                      /\ job'[k].state # "free" => job'[k].spent <= PerRun - 1 + Max(Cost)
<1> SUFFICES ASSUME NEW k \in Job PROVE Fine(k)
  BY DEF Thrifty, Live
<1>4. ASSUME job'[k] = job[k] \/ job'[k].state = "free" PROVE Fine(k)
  BY <1>3, <1>4
<1>5. ASSUME NEW n \in Job, NEW kind, NEW i, NEW ph, Inserted(n, kind, i, ph) PROVE k = n => Fine(k)
  BY <1>1, <1>2, <1>5 DEF Inserted
<1>6. ASSUME job[k].state # "free", job'[k].state # "executing", job'[k].spent = job[k].spent
      PROVE  Fine(k)
  BY <1>3, <1>6
<1>7. CASE UNCHANGED job
  BY <1>4, <1>7
<1>8. ASSUME NEW p \in Pass, NEW i \in Issue, TakeIn(p, i) PROVE Fine(k)
  <2>1. PICK n \in Job : Taken(n, i)
    BY <1>8, TakeInRow DEF Types
  <2>2. QED
    BY <1>4, <1>5, <2>1 DEF Taken
<1>9. ASSUME NEW p \in Pass, NEW j \in Job, StartPhase(p, j) PROVE Fine(k)
  <2>1. Restated(j, "executing") /\ CanAfford(j)
    BY <1>9, RestatingRows DEF Types, StartPhase
  <2>2. job[j].spent \in Nat /\ job[j].spent + 1 <= PerRun
    BY <1>1, <2>1 DEF CanAfford, JobRow
  <2>3. job[j].spent <= PerRun - 1 /\ job[j].spent <= PerRun - 1 + Max(Cost)
    BY <1>1, <1>2, <2>2
  <2>4. job'[j].spent = job[j].spent
    BY <1>9, RestatingRows DEF Types, SpendsNothing
  <2>5. k = j => Fine(k)
    BY <2>3, <2>4
  <2>6. QED
    BY <1>4, <2>1, <2>5 DEF Restated
<1>10. ASSUME NEW j \in Job, NEW s \in {"scheduled", "available", "done"}, Restated(j, s),
              SpendsNothing(j)
       PROVE  Fine(k)
  BY <1>4, <1>6, <1>10 DEF Restated, SpendsNothing
<1>11. ASSUME NEW p \in Pass, NEW j \in Job,
              SnoozePhase(p, j) \/ PollerSnoozes(p, j) \/ PollerRejected(p, j)
       PROVE  Fine(k)
  BY <1>10, <1>11, RestatingRows DEF Types
<1>12. ASSUME NEW j \in Job, NEW s \in {"retryable", "scheduled"}, Promote(j, s) PROVE Fine(k)
  BY <1>10, <1>12, RestatingRows DEF Types
<1>13. ASSUME NEW j \in Job, NEW n \in Job, NEW kind, NEW ph, Followed(j, n, kind, ph),
              k = j => Fine(k)
       PROVE  Fine(k)
  BY <1>4, <1>5, <1>13 DEF Followed
<1>14. ASSUME NEW p \in Pass, NEW j \in Job, PollerApproved(p, j) PROVE Fine(k)
  <2>1. PICK n \in Job : Followed(j, n, "task_phase", job[j].phase)
    BY <1>14, PollerFollowed DEF Types
  <2>2. job'[j].spent = job[j].spent
    BY <1>14, PollerFollowed DEF Types, SpendsNothing
  <2>3. k = j => Fine(k)
    BY <1>6, <2>1, <2>2 DEF Followed
  <2>4. QED
    BY <1>13, <2>1, <2>3
<1>15. ASSUME NEW p \in Pass, PhaseDone(p) PROVE Fine(k)
  <2>1. PICK j \in Job, c \in Cost \cup {0} :
          /\ job[j].state = "executing" /\ Ends(j)
          /\ job'[j].spent = job[j].spent + c
    BY <1>15, PhaseEnds DEF Types
  <2>2. job[j].spent \in Nat /\ c \in Nat /\ c <= Max(Cost)
    BY <1>1, MaxCost DEF JobRow
  <2>3. job'[j].state = "done"
    BY <2>1 DEF Ends, Restated, Followed
  <2>4. k = j => job'[k].spent <= PerRun - 1 + Max(Cost)
    BY <1>1, <1>2, <1>3, <2>1, <2>2
  <2>5. k = j => Fine(k)
    BY <2>3, <2>4
  <2>6. CASE Restated(j, "done")
    BY <1>4, <2>5, <2>6 DEF Restated
  <2>7. CASE \E n \in Job, kind \in {"task_phase", "approval_poller"} :
               Followed(j, n, kind, job[j].phase + 1)
    BY <1>13, <2>5, <2>7
  <2>8. QED
    BY <2>1, <2>6, <2>7 DEF Ends
<1>16. ASSUME NEW j \in Job, NEW c \in Cost, Fails(j, c), job[j].state = "executing"
       PROVE  Fine(k)
  <2>1. k # j => job'[k] = job[k]
    BY <1>16 DEF Fails, Freed, Retried
  <2>2. CASE Freed(j)
    BY <1>4, <2>1, <2>2 DEF Freed
  <2>3. CASE Retried(j, c)
    <3>1. job[j].spent \in Nat /\ c \in Nat /\ c <= Max(Cost)
      BY <1>1, MaxCost DEF JobRow
    <3>2. job[j].spent + c <= PerRun - 1 + Max(Cost)
      BY <1>1, <1>2, <1>3, <1>16, <3>1
    <3>3. job'[j].state # "executing" /\ job'[j].spent = job[j].spent + c
      BY <2>3 DEF Retried
    <3>4. QED
      BY <1>4, <2>1, <3>2, <3>3
  <2>4. QED
    BY <1>16, <2>2, <2>3 DEF Fails
<1>17. ASSUME NEW j \in Job, Fails(j, 0) PROVE Fine(k)
  <2>1. k # j => job'[k] = job[k]
    BY <1>17 DEF Fails, Freed, Retried
  <2>2. CASE Freed(j)
    BY <1>4, <2>1, <2>2 DEF Freed
  <2>3. CASE Retried(j, 0)
    <3>1. job'[j].spent = job[j].spent
      BY <1>1, <2>3 DEF Retried, JobRow
    <3>2. QED
      BY <1>4, <1>6, <2>1, <2>3, <3>1 DEF Retried
  <2>4. QED
    BY <1>17, <2>2, <2>3 DEF Fails
<1>18. ASSUME NEW p \in Pass, PhaseNotFollowed(p) PROVE Fine(k)
  BY <1>16, <1>18, FailingRows DEF Types
<1>19. ASSUME NEW p \in Pass, AttemptFails(p) PROVE Fine(k)
  BY <1>17, <1>19, FailingRows DEF Types
<1>20. ASSUME NEW j \in Job, Drops(j) PROVE Fine(k)
  BY <1>17, <1>20, FailingRows DEF Types
<1>21. ASSUME NEW p \in Pass, CompleteJob(p) PROVE Fine(k)
  BY <1>4, <1>21, CompletedRow DEF Types, Freed
<1>22. CASE \/ \E p \in Pass : \/ StartPass(p) \/ PassIsOver(p) \/ Crash(p) \/ IntakeFails(p)
                               \/ \E i \in Issue : SkipIssue(p, i)
            \/ \E i \in Issue : CleanCompleted(i)
            \/ \E i \in Watched : Answer(i) \/ ChangeLabel(i)
            \/ NewDay
  <2>1. UNCHANGED job
    BY <1>22 DEF StartPass, PassIsOver, Crash, IntakeFails, SkipIssue, CleanCompleted,
       Answer,
         ChangeLabel, ByHand, NewDay, queue
  <2>2. QED
    BY <1>7, <2>1
<1>23. QED
  BY <1>8, <1>9, <1>11, <1>12, <1>14, <1>15, <1>18, <1>19, <1>20, <1>21, <1>22
     DEF Next, Drops, Intake, Work
(* What a day has spent, with what the phases that are executed may cost.  *)
DayInv ==
  daySpent + Cardinality(Executing) * Max(Cost) <= PerDay - 1 + Cardinality(Pass) * Max(Cost)

(* Products of numbers.                                                    *)
LEMMA Products ==
  /\ \A a, m \in Nat : a * m \in Nat
  /\ \A a, b, m \in Nat : a <= b => a * m <= b * m
  /\ \A a, b, m \in Nat : a + 1 <= b => a * m + m <= b * m
<1>1. \A a, m \in Nat : a * m \in Nat
  OBVIOUS
<1>2. ASSUME NEW a \in Nat, NEW b \in Nat, NEW m \in Nat, a <= b PROVE a * m <= b * m
  <2>1. PICK d \in Nat : b = a + d
    <3>1. b - a \in Nat /\ b = a + (b - a)
      BY <1>2
    <3>2. QED
      BY <3>1
  <2>2. b * m = a * m + d * m
    BY <2>1
  <2>3. a * m \in Nat /\ d * m \in Nat
    BY <1>1
  <2>4. QED
    BY <2>2, <2>3
<1>3. ASSUME NEW a \in Nat, NEW b \in Nat, NEW m \in Nat, a + 1 <= b PROVE a * m + m <= b * m
  <2>1. (a + 1) * m <= b * m
    BY <1>2, <1>3
  <2>2. (a + 1) * m = a * m + m
    OBVIOUS
  <2>3. QED
    BY <2>1, <2>2
<1>4. QED
  BY <1>1, <1>2, <1>3

(* No phase is begun, and nobody gets one.                                 *)
NoneBegun ==
  /\ \A k \in Job : job'[k].state = "executing" => job[k].state = "executing"
  /\ \A q \in Pass : \/ working'[q] = working[q] \/ working'[q] = NoJob
                     \/ job'[working'[q]].state # "executing"

(* Every step keeps that.                                                  *)
LEMMA StepDay == ASSUME Types, DayInv, Next PROVE DayInv'
<1> USE RunnerAssumption
<1> DEFINE M == Max(Cost)
           P == Cardinality(Pass)
           E == Cardinality(Executing)
           F == Cardinality(Executing)'
<1>1. /\ job \in [Job -> JobRow] /\ working \in [Pass -> Job \cup {NoJob}]
      /\ daySpent \in Nat
  BY DEF Types, TypeOK
<1>2. M \in Nat /\ P \in Nat /\ E \in Nat /\ F \in Nat /\ F <= P
  <2>1. Executing \in SUBSET Pass /\ Executing' \in SUBSET Pass
    BY DEF Executing
  <2>2. QED
    BY <2>1, Counting, MaxCost
<1>3. daySpent + E * M <= PerDay - 1 + P * M
  BY DEF DayInv
<1>4. SUFFICES daySpent' + F * M <= PerDay - 1 + P * M
  BY DEF DayInv
<1>5. F * M \in Nat /\ E * M \in Nat /\ P * M \in Nat /\ F * M <= P * M
  BY <1>2, Products
<1>6. ASSUME NoneBegun PROVE Executing' \subseteq Executing
  BY <1>1, <1>6 DEF Executing, NoneBegun
<1>7. ASSUME Executing' \subseteq Executing, daySpent' = daySpent
      PROVE  daySpent' + F * M <= PerDay - 1 + P * M
  <2>1. Executing \in SUBSET Pass /\ Executing' \in SUBSET Pass
    BY DEF Executing
  <2>2. F <= E
    BY <1>7, <2>1, Counting
  <2>3. F * M <= E * M
    BY <1>2, <2>2, Products
  <2>4. \A d, f, e, r, s \in Nat : f <= e /\ d + e <= r - 1 + s => d + f <= r - 1 + s
    OBVIOUS
  <2> HIDE DEF M, P, E, F
  <2>5. QED
    BY <1>1, <1>3, <1>5, <1>7, <2>3, <2>4
(* A phase whose cost is recorded is over.                                 *)
<1>8. ASSUME NEW p \in Executing, NEW c \in Cost, daySpent' = daySpent + c,
             Executing' \subseteq Executing \ {p}
      PROVE  daySpent' + F * M <= PerDay - 1 + P * M
  <2>1. Executing \in SUBSET Pass /\ Executing' \in SUBSET Pass
    BY DEF Executing
  <2>2. F + 1 <= E
    BY <1>8, <2>1, Counting
  <2>3. F * M + M <= E * M
    BY <1>2, <2>2, Products
  <2>4. c \in Nat /\ c <= M
    BY MaxCost
  <2>5. \A d, f, e, r, s, m, k \in Nat :
          k <= m /\ f + m <= e /\ d + e <= r - 1 + s => (d + k) + f <= r - 1 + s
    OBVIOUS
  <2> HIDE DEF M, P, E, F
  <2>6. QED
    BY <1>1, <1>2, <1>3, <1>5, <1>8, <2>3, <2>4, <2>5
(* Below the limit there is room for every pass.                           *)
<1>9. ASSUME daySpent' \in Nat, daySpent' <= PerDay - 1
      PROVE  daySpent' + F * M <= PerDay - 1 + P * M
  <2>1. \A d, f, r, s \in Nat : d <= r - 1 /\ f <= s => d + f <= r - 1 + s
    OBVIOUS
  <2> HIDE DEF M, P, E, F
  <2>2. QED
    BY <1>5, <1>9, <2>1
<1>10. ASSUME NEW p \in Pass, NEW j \in Job, StartPhase(p, j)
       PROVE  daySpent' + F * M <= PerDay - 1 + P * M
  <2>1. daySpent' = daySpent /\ daySpent + 1 <= PerDay
    BY <1>10 DEF StartPhase, Takes, CanAfford, budget
  <2>2. daySpent' \in Nat /\ daySpent' <= PerDay - 1
    BY <1>1, <2>1
  <2>3. QED
    BY <1>9, <2>2
<1>11. CASE NewDay
  <2>1. daySpent' = 0 /\ 0 <= PerDay - 1
    BY <1>11 DEF NewDay
  <2>2. QED
    BY <1>9, <2>1
<1>12. CASE \/ \E p \in Pass : \/ StartPass(p) \/ PassIsOver(p) \/ Crash(p) \/ IntakeFails(p)
                               \/ \E i \in Issue : SkipIssue(p, i)
            \/ \E i \in Issue : CleanCompleted(i)
            \/ \E i \in Watched : Answer(i) \/ ChangeLabel(i)
  <2>1. UNCHANGED <<job, daySpent>>
    BY <1>12 DEF StartPass, PassIsOver, Crash, IntakeFails, SkipIssue, CleanCompleted,
       Answer,
         ChangeLabel, ByHand, queue, budget
  <2>2. \A q \in Pass : working'[q] = working[q] \/ working'[q] = NoJob
    BY <1>1, <1>12 DEF StartPass, PassIsOver, Crash, IntakeFails, SkipIssue,
       CleanCompleted,
         Answer, ChangeLabel, ByHand, passes
  <2>3. QED
    BY <1>6, <1>7, <2>1, <2>2 DEF NoneBegun
<1>13. ASSUME NEW p \in Pass, NEW i \in Issue, TakeIn(p, i)
       PROVE  daySpent' + F * M <= PerDay - 1 + P * M
  <2>1. PICK n \in Job : Taken(n, i)
    BY <1>13, TakeInRow DEF Types
  <2>2. UNCHANGED <<working, daySpent>>
    BY <1>13 DEF TakeIn, budget
  <2>3. QED
    BY <1>6, <1>7, <2>1, <2>2 DEF NoneBegun, Taken, Inserted
<1>14. ASSUME NEW p \in Pass, NEW j \in Job, PollerApproved(p, j) \/ PollerRejected(p, j)
       PROVE  daySpent' + F * M <= PerDay - 1 + P * M
  <2>1. Restated(j, "done") \/ \E n \in Job : Followed(j, n, "task_phase", job[j].phase)
    BY <1>14, PollerFollowed, RestatingRows DEF Types
  <2>2. working' = [working EXCEPT ![p] = j] /\ daySpent' = daySpent
    BY <1>14 DEF PollerApproved, PollerRejected, Takes, budget
  <2>3. /\ job'[j].state = "done"
        /\ \A k \in Job : job'[k].state = "executing" => job[k].state = "executing"
    BY <2>1 DEF Restated, Followed, Inserted
  <2>4. QED
    BY <1>1, <1>6, <1>7, <2>2, <2>3 DEF NoneBegun
<1>15. ASSUME NEW p \in Pass, NEW j \in Job, SnoozePhase(p, j) \/ PollerSnoozes(p, j)
       PROVE  daySpent' + F * M <= PerDay - 1 + P * M
  <2>1. Restated(j, "scheduled") /\ UNCHANGED <<working, daySpent>>
    BY <1>15, RestatingRows DEF Types, SnoozePhase, PollerSnoozes, Snoozes, passes, budget
  <2>2. QED
    BY <1>6, <1>7, <2>1 DEF NoneBegun, Restated
<1>16. ASSUME NEW j \in Job, NEW s \in {"retryable", "scheduled"}, Promote(j, s)
       PROVE  daySpent' + F * M <= PerDay - 1 + P * M
  <2>1. Restated(j, "available") /\ UNCHANGED <<working, daySpent>>
    BY <1>16, RestatingRows DEF Types, Promote, passes, budget
  <2>2. QED
    BY <1>6, <1>7, <2>1 DEF NoneBegun, Restated
<1>17. ASSUME NEW p \in Pass, PhaseDone(p)
       PROVE  daySpent' + F * M <= PerDay - 1 + P * M
  <2>1. PICK j \in Job : working[p] = j /\ job[j].state = "executing" /\ Ends(j)
    BY <1>17, PhaseEnds DEF Types
  <2>2. working' = working
    BY <1>17 DEF PhaseDone, passes
  <2>3. /\ job'[j].state = "done"
        /\ \A k \in Job : job'[k].state = "executing" => job[k].state = "executing"
    BY <2>1 DEF Ends, Restated, Followed, Inserted
  <2>4. Executing' \subseteq Executing /\ p \in Executing /\ p \notin Executing'
    BY <1>1, <2>1, <2>2, <2>3 DEF Executing
  <2>5. daySpent' = daySpent \/ \E c \in Cost : daySpent' = daySpent + c
    BY <1>17 DEF PhaseDone, Record, budget
  <2>6. QED
    BY <1>7, <1>8, <2>4, <2>5
<1>18. ASSUME NEW p \in Pass, PhaseNotFollowed(p)
       PROVE  daySpent' + F * M <= PerDay - 1 + P * M
  <2>1. PICK j \in Job, c \in Cost :
          working[p] = j /\ job[j].state = "executing" /\ Record(j, c) /\ Fails(j, c)
    BY <1>18, FailingRows DEF Types
  <2>2. working' = [working EXCEPT ![p] = NoJob]
    BY <1>18 DEF PhaseNotFollowed
  <2>3. \A k \in Job : job'[k].state = "executing" => job[k].state = "executing"
    BY <2>1 DEF Fails, Freed, Retried
  <2>4. Executing' \subseteq Executing /\ p \in Executing /\ p \notin Executing'
    BY <1>1, <2>1, <2>2, <2>3 DEF Executing
  <2>5. daySpent' = daySpent + c
    BY <2>1 DEF Record
  <2>6. QED
    BY <1>8, <2>4, <2>5
<1>19. ASSUME NEW j \in Job, Drops(j)
       PROVE  daySpent' + F * M <= PerDay - 1 + P * M
  <2>1. Fails(j, 0) /\ UNCHANGED <<working, daySpent>>
    BY <1>19, FailingRows DEF Types, Drops, Rescue, PollerNotFollowed, passes, budget
  <2>2. QED
    BY <1>6, <1>7, <2>1 DEF NoneBegun, Fails, Freed, Retried
<1>20. ASSUME NEW p \in Pass, AttemptFails(p) \/ CompleteJob(p)
       PROVE  daySpent' + F * M <= PerDay - 1 + P * M
  <2>1. \E j \in Job : Fails(j, 0) \/ Freed(j)
    BY <1>20, FailingRows, CompletedRow DEF Types
  <2>2. working' = [working EXCEPT ![p] = NoJob] /\ daySpent' = daySpent
    BY <1>20 DEF AttemptFails, CompleteJob, budget
  <2>3. \A k \in Job : job'[k].state = "executing" => job[k].state = "executing"
    BY <2>1 DEF Fails, Freed, Retried
  <2>4. QED
    BY <1>1, <1>6, <1>7, <2>2, <2>3 DEF NoneBegun
<1>21. QED
  BY <1>10, <1>11, <1>12, <1>13, <1>14, <1>15, <1>16, <1>17, <1>18, <1>19, <1>20
     DEF Next, Drops, Intake, Work

-----------------------------------------------------------------------------
(* Every step keeps the invariant.                                         *)
LEMMA StepIInv == IInv /\ [Next]_vars => IInv'
<1> SUFFICES ASSUME IInv, [Next]_vars PROVE IInv'
  OBVIOUS
<1>1. CASE UNCHANGED vars
  BY <1>1 DEF IInv, TypeOK, RoomInv, RoutedInv, BoardInv, ChainInv, ChainOf, OwedInv,
     WordInv,
       PeopleDecide, MoneyInv, Executing, Active, TakingIn, Live, LiveOf, First, Undone,
       ApprovalStatus, PhaseOf, vars, github, queue, passes, budget, history
<1>2. CASE Next
  <2>1. Types /\ Types'
    BY <1>2, StepTypes DEF IInv, Types
  <2>2. BoardInv'
    BY <1>2, <2>1, StepBoard DEF IInv
  <2>3. ChainInv' /\ OwedInv'
    BY <1>2, <2>1, ChainSteps, StepChain, StepOwed DEF IInv
  <2>4. Known /\ \A k \in Job : Decided(k)
    BY PeopleAre DEF IInv
  <2>5. Known' /\ \A k \in Job : Decided(k)'
    BY <1>2, <2>1, <2>4, StepKnown, StepDecided
  <2>6. WordInv' /\ PeopleDecide'
    <3>1. (WordInv /\ PeopleDecide <=> Known /\ \A k \in Job : Decided(k))'
      BY PeopleAre, PTL
    <3>2. QED
      BY <2>5, <3>1
  <2>7. MoneyInv'
    <3>1. DayInv /\ Thrifty
      BY DEF IInv, MoneyInv, DayInv, Thrifty
    <3>2. DayInv' /\ Thrifty'
      BY <1>2, <2>1, <3>1, StepDay, StepThrifty
    <3>3. QED
      BY <3>2 DEF MoneyInv, DayInv, Thrifty
  <2>8. QED
    BY <2>1, <2>2, <2>3, <2>6, <2>7 DEF IInv, Types
<1>3. QED
  BY <1>1, <1>2

(* The invariant holds at all times.                                       *)
LEMMA Invariance == Spec => []IInv
BY InitIInv, StepIInv, PTL DEF Spec

-----------------------------------------------------------------------------
(* Types; a worker's job is its own and running.                           *)
THEOREM TypeCorrect == Spec => []TypeOK
<1>1. IInv => TypeOK
  BY DEF IInv
<1>2. QED
  BY <1>1, Invariance, PTL

(* doIntake keeps max_active_tasks, counting what waits for people or for  *)
(* money, unless passes took in at the same time.                          *)
THEOREM TheBoardIsLimited == Spec => []ActiveTasksBounded
<1>1. IInv => ActiveTasksBounded
  BY DEF IInv, BoardInv, Active, ActiveTasksBounded
<1>2. QED
  BY <1>1, Invariance, PTL

(* An issue is worked by one job at a time, unless an attempt was lost     *)
(* after it inserted, or the row that made the issue unique was deleted.   *)
THEOREM IssuesAreWorkedOnce == Spec => []OneChainPerIssue
<1>1. ASSUME IInv, NEW i \in Issue \ (repeated \cup forgotten)
      PROVE  Cardinality({j \in LiveOf(i) : job[j].state # "done"}) <= 1
  <2> DEFINE S == {j \in LiveOf(i) : job[j].state # "done"}
  <2>1. \A j, k \in S : j = k
    BY <1>1 DEF IInv, ChainInv, ChainOf, Undone, LiveOf, Live
  <2> HIDE DEF S
  <2>2. ASSUME S = {} PROVE Cardinality(S) <= 1
    BY <2>2, FS_EmptySet
  <2>3. ASSUME NEW j \in S PROVE Cardinality(S) <= 1
    <3>1. S = {j}
      BY <2>1
    <3>2. Cardinality({j}) = 1
      BY FS_Singleton
    <3>3. QED
      BY <3>1, <3>2
  <2>4. Cardinality(S) <= 1
    BY <2>2, <2>3
  <2>5. QED
    BY <2>4 DEF S
<1>2. IInv => OneChainPerIssue
  BY <1>1 DEF OneChainPerIssue
<1>3. QED
  BY <1>2, Invariance, PTL

(* An issue that was taken in has a job until its workflow is over, it is  *)
(* rejected, or the attempts of a job are used up.                         *)
THEOREM TasksAreKept == Spec => []NoTaskLost
<1>1. IInv => NoTaskLost
  BY DEF IInv, OwedInv, NoTaskLost
<1>2. QED
  BY <1>1, Invariance, PTL

(* Nothing behind an approval phase runs unless somebody approved the      *)
(* issue, and nothing behind the gate unless the issue had its label.      *)
THEOREM PeopleAreAsked == Spec => []PeopleDecide
<1>1. IInv => PeopleDecide
  BY DEF IInv
<1>2. QED
  BY <1>1, Invariance, PTL

(* A day is overspent by a phase of each pass at most, and a job by its    *)
(* last attempt.                                                           *)
THEOREM TheBudgetHolds == Spec => []SpendingBounded
<1>1. ASSUME IInv PROVE SpendingBounded
  <2> DEFINE e == Cardinality(Executing) * Max(Cost)
             s == Cardinality(Pass) * Max(Cost)
  <2>1. daySpent + e <= PerDay - 1 + s
    BY <1>1 DEF IInv, MoneyInv
  <2>2. Executing \in SUBSET Pass /\ IsFiniteSet(Pass)
    BY RunnerAssumption DEF Executing
  <2>3. Cardinality(Executing) \in Nat /\ Cardinality(Pass) \in Nat
    BY <2>2, Counting
  <2>4. e \in Nat /\ s \in Nat /\ daySpent \in Nat /\ PerDay \in Nat
    BY <1>1, <2>3, Products, MaxCost, RunnerAssumption DEF IInv, TypeOK
  <2>5. \A d, f, r, t \in Nat : d + f <= r - 1 + t => d <= r - 1 + t
    OBVIOUS
  <2> HIDE DEF e, s
  <2>6. daySpent <= PerDay - 1 + s
    BY <2>1, <2>4, <2>5
  <2>7. QED
    BY <1>1, <2>6 DEF s, IInv, MoneyInv, SpendingBounded
<1>2. IInv => SpendingBounded
  BY <1>1
<1>3. QED
  BY <1>2, Invariance, PTL
=============================================================================
