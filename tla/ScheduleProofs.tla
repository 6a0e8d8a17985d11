--------------------------- MODULE ScheduleProofs ---------------------------
(***************************************************************************)
(* What the recurring messages of a channel keep for every set of          *)
(* schedules and crons, any number of overlapping creators, ticks and      *)
(* jobs, every quota, every limit of GetDue and every number of faults.    *)
(*                                                                         *)
(* The argument about repetitions: an occurrence is the schedule with the  *)
(* next_run_at it was found at.  The next run a job computes lies after    *)
(* the occurrence it has, so MarkRun moves next_run_at past that one; from *)
(* then on next_run_at is past it, unless the UPDATE of another job, which *)
(* read the clock earlier, sets it back.  An occurrence that next_run_at   *)
(* is past is not found again; a second holder of one that was not set     *)
(* back was therefore found while the first had it unmarked.               *)
(***************************************************************************)
EXTENDS Schedule, FiniteSetTheorems, TLAPS

(* What a job or a tick has in hand.                                       *)
Held(o) == (\E j \in Job : of[j] = o) \/ (\E t \in Tick : o \in due[t])

(* A slot of Job has an occurrence and an attempt as long as it is in use. *)
JobsInHand ==
  \A j \in Job :
    /\ state[j] = "none" <=> of[j] = NoOccurrence
    /\ state[j] # "none" => attempt[j] > 0
    /\ state[j] = "computed" => of[j][2] < next[j]
    /\ state[j] = "marked" /\ of[j] \notin setBack => of[j][2] < next_run_at[of[j][1]]

(* What was posted has been marked: it is not due any more, if next_run_at *)
(* was not set back.                                                       *)
SentIsMarked ==
  \A o \in sent : /\ o[1] \in rows /\ o[2] <= now
                  /\ o \notin setBack => o[2] < next_run_at[o[1]]

HeldIsDue == \A o \in Occurrence : Held(o) => o[1] \in rows /\ o[2] <= now

(* Nobody else has an occurrence, unless it was found due a second time.   *)
HoldersExplained ==
  \A o \in Occurrence \ overtaken :
    /\ \A j, k \in Job : of[j] = o /\ of[k] = o => j = k
    /\ \A t, u \in Tick : o \in due[t] /\ o \in due[u] => t = u
    /\ \A j \in Job, t \in Tick : ~ (of[j] = o /\ o \in due[t])

(* Who still has an occurrence that was posted lost the answer to it, is   *)
(* one of several, or found it after next_run_at was set back.             *)
SentAgain == \A o \in sent : Held(o) => o \in lost \cup overtaken \cup setBack

(* Each statement of CreateWithQuota that found room adds a row at most,   *)
(* and one that was alone found room for it.                               *)
RoomIsCounted ==
  /\ Cardinality(enabled) + Cardinality(counted)
       <= maxSchedulesPerChannel + Cardinality(Creator) - 1
  /\ ~ overlapped => /\ Cardinality(enabled) <= maxSchedulesPerChannel
                     /\ counted # {} => Cardinality(enabled) < maxSchedulesPerChannel

(* The inductive invariant.                                                *)
HoldersInv == JobsInHand /\ SentIsMarked /\ HeldIsDue /\ HoldersExplained
                 /\ SentAgain /\ TwiceIsExplained
IInv == TypeOK /\ HoldersInv /\ RoomIsCounted

-----------------------------------------------------------------------------
(* A nonempty set of numbers has a least one, which Min is.                *)
LEMMA MinIsMember ==
  ASSUME NEW S \in SUBSET Nat, S # {}
  PROVE  Min(S) \in S /\ \A n \in S : Min(S) <= n
<1> DEFINE R == {ss \in Nat \X Nat : ss[1] < ss[2]}
<1>1. IsWellFoundedOn(R, Nat)
  BY NatLessThanWellFounded, Zenon DEF OpToRel
<1>2. \E x \in S : \A y \in S : ~ (<<y, x>> \in R)
  <2> HIDE DEF R
  <2> QED
    BY <1>1, WFMin
<1>3. PICK x \in S : \A y \in S : ~ (<<y, x>> \in R)
  BY <1>2
<1>4. ASSUME NEW y \in S PROVE x <= y
  <2>1. ~ (<<y, x>> \in R)
    BY <1>3
  <2>2. ~ (y < x)
    BY <2>1
  <2>3. QED
    BY <2>2
<1>5. QED
  BY <1>4 DEF Min

(* The next run lies in the future, or past the end of the clock.          *)
LEMMA NextRunIsLater ==
  ASSUME NEW s \in Message, NEW t \in 0 .. MaxTime
  PROVE  NextRunAt(s, t) \in Time /\ t < NextRunAt(s, t)
<1> USE ScheduleAssumption
<1> DEFINE S == {n \in Cron[s] : n > t /\ n <= MaxTime} \cup {MaxTime + 1}
<1>1. S \in SUBSET Nat /\ S # {}
  OBVIOUS
<1>2. Min(S) \in S
  BY <1>1, MinIsMember
<1>3. \A n \in S : n \in Time /\ t < n
  BY DEF Time
<1>4. QED
  BY <1>2, <1>3 DEF NextRunAt

(* The schedules that are due, and a selection of them, are finitely many, *)
(* and GetDue selects Limit at most.                                       *)
LEMMA SelectionIsLimited ==
  ASSUME NEW S, TypeOK, IsOldest(S, DueOccurrences)
  PROVE  S \subseteq Occurrence /\ IsFiniteSet(S) /\ Cardinality(S) <= Limit
<1> USE ScheduleAssumption
<1>1. DueOccurrences \subseteq Occurrence
  BY DEF TypeOK, DueOccurrences, Occurrence
<1>2. IsFiniteSet(Time)
  BY FS_Interval DEF Time
<1>3. IsFiniteSet(Occurrence)
  BY <1>2, FS_Product DEF Occurrence
<1>4. IsFiniteSet(DueOccurrences)
  BY <1>1, <1>3, FS_Subset
<1>5. Cardinality(DueOccurrences) \in Nat
  BY <1>4, FS_CardinalityType
<1>6. QED
  BY <1>1, <1>4, <1>5, FS_Subset DEF IsOldest

(* Of a finite set of occurrences, no more remain without some.            *)
LEMMA FewerRemain ==
  ASSUME NEW S \in SUBSET Occurrence, NEW T \in SUBSET S, Cardinality(S) <= Limit
  PROVE  Cardinality(T) <= Limit
<1> USE ScheduleAssumption
<1>1. IsFiniteSet(Time)
  BY FS_Interval DEF Time
<1>2. IsFiniteSet(Occurrence)
  BY <1>1, FS_Product DEF Occurrence
<1>3. IsFiniteSet(S)
  BY <1>2, FS_Subset
<1>4. Cardinality(T) <= Cardinality(S) /\ Cardinality(T) \in Nat /\ Cardinality(S) \in Nat
  BY <1>3, FS_Subset, FS_CardinalityType
<1>5. QED
  BY <1>4

-----------------------------------------------------------------------------
(* The initial states have the invariant.                                  *)
LEMMA InitIInv == Init => IInv
<1> SUFFICES ASSUME Init PROVE IInv
  OBVIOUS
<1> USE ScheduleAssumption
<1>1. Cardinality({}) = 0
  BY FS_EmptySet
<1>2. TypeOK
  <2>1. /\ due \in [Tick -> SUBSET Occurrence]
        /\ \A t \in Tick : Cardinality(due[t]) <= Limit
    BY <1>1 DEF Init
  <2>2. next_run_at \in [Message -> Time] /\ attempt \in [Job -> 0 .. MaxAttempts]
        /\ next \in [Job -> Time]
    BY DEF Init, Time
  <2>3. /\ state \in [Job -> {"none", "waiting", "computed", "marked"}]
        /\ of \in [Job -> Occurrence \cup {NoOccurrence}]
    BY DEF Init
  <2>4. overlapped \in BOOLEAN
    BY DEF Init
  <2>5. now \in 0 .. MaxTime /\ faults \in 0 .. MaxFaults
    BY DEF Init
  <2>6. QED
    BY <2>1, <2>2, <2>3, <2>4, <2>5 DEF Init, TypeOK
<1>3. HoldersInv
  BY DEF Init, HoldersInv, JobsInHand, SentIsMarked, HeldIsDue, HoldersExplained,
         SentAgain, TwiceIsExplained, Held, Occurrence, Time
<1>4. Cardinality(Creator) \in Nat
  BY FS_CardinalityType
<1>5. RoomIsCounted
  BY <1>1, <1>4 DEF Init, RoomIsCounted
<1>6. QED
  BY <1>2, <1>3, <1>5 DEF IInv

(* Every step preserves the types.                                         *)
LEMMA StepTypeOK == IInv /\ [Next]_vars => TypeOK'
<1> SUFFICES ASSUME IInv, [Next]_vars PROVE TypeOK'
  OBVIOUS
<1> TypeOK /\ JobsInHand /\ HeldIsDue
  BY DEF IInv, HoldersInv
<1> USE ScheduleAssumption DEF table, creation, jobs, history
<1>1. ASSUME NEW o \in Occurrence PROVE o[1] \in Message /\ o[2] \in Time
  BY DEF Occurrence
<1>2. ASSUME NEW j \in Job, state[j] # "none"
      PROVE  of[j] \in Occurrence /\ of[j][1] \in rows
  BY <1>2 DEF TypeOK, JobsInHand, HeldIsDue, Held
<1>3. CASE TimePasses
  BY <1>3 DEF TimePasses, TypeOK
<1>4. ASSUME NEW c \in Creator, CountEnabled(c) \/ SlugTaken(c) PROVE TypeOK'
  BY <1>4 DEF CountEnabled, SlugTaken, TypeOK
<1>5. ASSUME NEW c \in Creator, InsertRow(c) PROVE TypeOK'
  BY <1>5 DEF InsertRow, TypeOK, Time
<1>6. ASSUME NEW s \in Message, Cancel(s) PROVE TypeOK'
  BY <1>6 DEF Cancel, TypeOK
<1>7. ASSUME NEW t \in Tick, GetDue(t) PROVE TypeOK'
  <2>1. PICK S \in SUBSET DueOccurrences : IsOldest(S, DueOccurrences) /\ Finds(t, S)
    BY <1>7 DEF GetDue
  <2>2. S \subseteq Occurrence /\ Cardinality(S) <= Limit
    BY <2>1, SelectionIsLimited
  <2>3. QED
    BY <2>1, <2>2 DEF Finds, TypeOK
<1>8. ASSUME NEW t \in Tick, InsertProactive(t) PROVE TypeOK'
  <2>1. PICK o \in due[t], j \in Job :
          /\ state[j] = "none"
          /\ state' = [state EXCEPT ![j] = "waiting"]
          /\ of' = [of EXCEPT ![j] = o]
          /\ attempt' = [attempt EXCEPT ![j] = 1]
          /\ due' = [due EXCEPT ![t] = @ \ {o}]
          /\ UNCHANGED <<now, table, creation, next, history, faults>>
    BY <1>8 DEF InsertProactive
  <2>2. Cardinality(due[t] \ {o}) <= Limit
    BY FewerRemain DEF TypeOK
  <2>3. QED
    BY <2>1, <2>2 DEF TypeOK
<1>9. ASSUME NEW t \in Tick, InsertFails(t) PROVE TypeOK'
  <2>1. PICK S \in SUBSET due[t] : due' = [due EXCEPT ![t] = S]
    BY <1>9 DEF InsertFails
  <2>2. Cardinality(S) <= Limit
    BY FewerRemain DEF TypeOK
  <2>3. QED
    BY <1>9, <2>1, <2>2 DEF InsertFails, Fault, TypeOK
<1>10. ASSUME NEW j \in Job, ComputeNext(j) \/ MarkRun(j) PROVE TypeOK'
  <2>1. of[j] \in Occurrence /\ of[j][1] \in rows /\ of[j][1] \in Message
    BY <1>1, <1>2, <1>10 DEF ComputeNext, MarkRun, Marks
  <2>2. CASE ComputeNext(j)
    <3>1. NextRunAt(of[j][1], now) \in Time
      BY <2>1, NextRunIsLater DEF TypeOK
    <3>2. QED
      BY <2>2, <3>1 DEF ComputeNext, TypeOK
  <2>3. CASE MarkRun(j)
    <3>1. {of[j][1]} \X (next[j] .. next_run_at[of[j][1]] - 1) \subseteq Occurrence
      BY <2>1 DEF TypeOK, Occurrence, Time
    <3>2. QED
      BY <2>1, <2>3, <3>1 DEF MarkRun, Marks, TypeOK, Time
  <2>4. QED
    BY <1>10, <2>2, <2>3
<1>11. ASSUME NEW j \in Job, PostAccepted(j) PROVE TypeOK'
  BY <1>2, <1>11 DEF PostAccepted, Posts, Ends, TypeOK, Time
<1>12. ASSUME NEW j \in Job, PostAnswerLost(j) PROVE TypeOK'
  BY <1>2, <1>12 DEF PostAnswerLost, Posts, AfterError, Ends, Fault, TypeOK, Time
<1>13. ASSUME NEW j \in Job, AttemptFails(j) PROVE TypeOK'
  BY <1>2, <1>13 DEF AttemptFails, AfterError, Ends, Fault, TypeOK, Time
<1>14. CASE UNCHANGED vars
  BY <1>14 DEF vars, TypeOK
<1>15. QED
  BY <1>3, <1>4, <1>5, <1>6, <1>7, <1>8, <1>9, <1>10, <1>11, <1>12, <1>13, <1>14 DEF Next

(* A step that takes nothing in hand and marks, posts and forgets nothing  *)
(* leaves the occurrences as they are; a clock that moves on, too.         *)
LEMMA HoldersKept ==
  ASSUME TypeOK, HoldersInv, now' \in Nat, now <= now', rows \subseteq rows',
         \A s \in rows : next_run_at'[s] = next_run_at[s],
         \A t \in Tick : due'[t] \subseteq due[t],
         UNCHANGED <<state, of, next, sent, twice, lost, overtaken, setBack>>,
         \A j \in Job : attempt'[j] = attempt[j]
  PROVE  HoldersInv'
<1> USE ScheduleAssumption DEF HoldersInv
<1>1. \A o \in Occurrence : Held(o)' => Held(o)
  BY DEF Held
<1>2. JobsInHand'
  BY DEF JobsInHand, HeldIsDue, Held, TypeOK
<1>3. SentIsMarked' /\ HeldIsDue'
  BY <1>1 DEF SentIsMarked, HeldIsDue, TypeOK, Occurrence, Time
<1>4. HoldersExplained'
  BY DEF HoldersExplained
<1>5. SentAgain' /\ TwiceIsExplained'
  BY <1>1 DEF SentAgain, TwiceIsExplained, TypeOK
<1>6. QED
  BY <1>2, <1>3, <1>4, <1>5

(* A job whose attempt ended has the occurrence for the next, or nothing.  *)
LEMMA HoldersAfterAttempt ==
  ASSUME TypeOK, HoldersInv, NEW j \in Job, state[j] # "none", AfterError(j) \/ Ends(j),
         UNCHANGED <<now, rows, next_run_at, due, setBack>>
  PROVE  /\ JobsInHand' /\ HeldIsDue'
         /\ \A o \in Occurrence : Held(o)' => Held(o)
         /\ \A k \in Job : of'[k] = of[k] \/ (k = j /\ of'[k] = NoOccurrence)
<1> USE ScheduleAssumption DEF HoldersInv
<1>1. NoOccurrence \notin Occurrence
  BY DEF Occurrence, Time
<1>2. \A k \in Job : /\ k # j => of'[k] = of[k] /\ state'[k] = state[k]
                               /\ attempt'[k] = attempt[k] /\ next'[k] = next[k]
                     /\ \/ of'[j] = of[j] /\ state'[j] = "waiting" /\ attempt'[j] > 0
                        \/ of'[j] = NoOccurrence /\ state'[j] = "none"
  BY DEF AfterError, Ends, TypeOK
<1>3. \A o \in Occurrence : Held(o)' => Held(o)
  BY <1>1, <1>2 DEF Held
<1>4. JobsInHand'
  BY <1>2 DEF JobsInHand
<1>5. HeldIsDue'
  BY <1>3 DEF HeldIsDue
<1>6. QED
  BY <1>2, <1>3, <1>4, <1>5

(* Every step preserves what is said of occurrences.                       *)
LEMMA StepHoldersInv == IInv /\ [Next]_vars => HoldersInv'
<1> SUFFICES ASSUME IInv, [Next]_vars PROVE HoldersInv'
  OBVIOUS
<1> TypeOK /\ HoldersInv /\ TypeOK'
  BY StepTypeOK DEF IInv
<1> USE ScheduleAssumption DEF table, creation, jobs, history
<1>1. CASE TimePasses
  BY <1>1, HoldersKept DEF TimePasses, TypeOK
<1>2. ASSUME NEW c \in Creator, CountEnabled(c) \/ SlugTaken(c) PROVE HoldersInv'
  BY <1>2, HoldersKept DEF CountEnabled, SlugTaken, TypeOK
<1>3. ASSUME NEW c \in Creator, InsertRow(c) PROVE HoldersInv'
  BY <1>3, HoldersKept DEF InsertRow, TypeOK
<1>4. ASSUME NEW s \in Message, Cancel(s) PROVE HoldersInv'
  BY <1>4, HoldersKept DEF Cancel, TypeOK
<1>5. ASSUME NEW t \in Tick, InsertFails(t) PROVE HoldersInv'
  <2>1. \A u \in Tick : due'[u] \subseteq due[u]
    BY <1>5 DEF InsertFails, TypeOK
  <2>2. QED
    BY <1>5, <2>1, HoldersKept DEF InsertFails, TypeOK
<1>6. ASSUME NEW t \in Tick, GetDue(t) PROVE HoldersInv'
  <2>1. PICK S \in SUBSET DueOccurrences : Finds(t, S)
    BY <1>6 DEF GetDue
  <2>2. S \subseteq Occurrence
        /\ \A o \in S : o[1] \in rows /\ o[2] <= now /\ next_run_at[o[1]] = o[2]
    BY DEF DueOccurrences, Due, TypeOK, Occurrence
  <2>3. \A o \in Occurrence : Held(o)' => Held(o) \/ o \in S
    BY <2>1 DEF Finds, Held, TypeOK
  <2>4. due[t] = {} /\ \A o \in S : Held(o) => o \in overtaken'
    BY <1>6, <2>1 DEF GetDue, Finds, Held
  <2>5. JobsInHand' /\ HeldIsDue' /\ SentIsMarked'
    BY <2>1, <2>2, <2>3
    DEF Finds, HoldersInv, JobsInHand, HeldIsDue, SentIsMarked, TypeOK
  <2>6. HoldersExplained'
    BY <2>1, <2>4 DEF Finds, HoldersInv, HoldersExplained, Held, TypeOK
  <2>7. \A o \in sent : o \notin setBack => o \notin S
    BY <2>2 DEF HoldersInv, SentIsMarked, TypeOK, Occurrence, Time
  <2>8. SentAgain' /\ TwiceIsExplained'
    BY <2>1, <2>3, <2>7 DEF Finds, HoldersInv, SentAgain, TwiceIsExplained, TypeOK
  <2>9. QED
    BY <2>5, <2>6, <2>8 DEF HoldersInv
<1>7. ASSUME NEW t \in Tick, InsertProactive(t) PROVE HoldersInv'
  <2>1. PICK o \in due[t], j \in Job :
          /\ state[j] = "none"
          /\ state' = [state EXCEPT ![j] = "waiting"]
          /\ of' = [of EXCEPT ![j] = o]
          /\ attempt' = [attempt EXCEPT ![j] = 1]
          /\ due' = [due EXCEPT ![t] = @ \ {o}]
          /\ UNCHANGED <<now, table, creation, next, history, faults>>
    BY <1>7 DEF InsertProactive
  <2>2. o \in Occurrence /\ o # NoOccurrence /\ of[j] = NoOccurrence
    BY <2>1 DEF TypeOK, HoldersInv, JobsInHand, Occurrence, Time
  <2>3. \A p \in Occurrence : Held(p)' => Held(p)
    BY <2>1, <2>2 DEF Held, TypeOK
  <2>4. JobsInHand' /\ HeldIsDue' /\ SentIsMarked'
    BY <2>1, <2>2, <2>3 DEF HoldersInv, JobsInHand, HeldIsDue, SentIsMarked, TypeOK
  <2>5. HoldersExplained'
    <3> SUFFICES ASSUME NEW p \in Occurrence \ overtaken
                 PROVE  /\ \A k, l \in Job : of'[k] = p /\ of'[l] = p => k = l
                        /\ \A u, v \in Tick : p \in due'[u] /\ p \in due'[v] => u = v
                        /\ \A k \in Job, u \in Tick : ~ (of'[k] = p /\ p \in due'[u])
      BY <2>1 DEF HoldersExplained
    <3>1. /\ \A k, l \in Job : of[k] = p /\ of[l] = p => k = l
          /\ \A u, v \in Tick : p \in due[u] /\ p \in due[v] => u = v
          /\ \A k \in Job, u \in Tick : ~ (of[k] = p /\ p \in due[u])
      BY DEF HoldersInv, HoldersExplained
    <3>2. /\ \A k \in Job : of'[k] = IF k = j THEN o ELSE of[k]
          /\ \A u \in Tick : due'[u] = IF u = t THEN due[t] \ {o} ELSE due[u]
      BY <2>1 DEF TypeOK
    <3>3. QED
      BY <2>1, <3>1, <3>2
  <2>6. SentAgain' /\ TwiceIsExplained'
    BY <2>1, <2>3 DEF HoldersInv, SentAgain, TwiceIsExplained, TypeOK
  <2>7. QED
    BY <2>4, <2>5, <2>6 DEF HoldersInv
<1>8. ASSUME NEW j \in Job, ComputeNext(j) \/ MarkRun(j) PROVE HoldersInv'
  <2>1. PICK o \in Occurrence : o = of[j] /\ o[1] \in Message /\ o[2] \in Nat
    BY <1>8 DEF ComputeNext, MarkRun, Marks, TypeOK, HoldersInv, JobsInHand, Occurrence, Time
  <2>2. /\ UNCHANGED <<now, rows, due, of, attempt, sent, twice, lost, overtaken>>
        /\ setBack \subseteq setBack'
    BY <1>8 DEF ComputeNext, MarkRun, Marks
  <2>3. \A p \in Occurrence : Held(p)' <=> Held(p)
    BY <2>2 DEF Held
  <2>4. Held(o) /\ o[2] <= now
    BY <2>1 DEF Held, HoldersInv, HeldIsDue
  <2>5. HeldIsDue' /\ HoldersExplained' /\ SentAgain' /\ TwiceIsExplained'
    BY <2>2, <2>3
    DEF HoldersInv, HeldIsDue, HoldersExplained, SentAgain, TwiceIsExplained, TypeOK
  <2>6. CASE ComputeNext(j)
    <3>1. /\ state[j] = "waiting" /\ UNCHANGED <<next_run_at, setBack>>
          /\ state' = [state EXCEPT ![j] = "computed"]
          /\ next' = [next EXCEPT ![j] = NextRunAt(o[1], now)]
      BY <2>1, <2>6 DEF ComputeNext
    <3>2. NextRunAt(o[1], now) \in Time /\ now < NextRunAt(o[1], now)
      BY <2>1, NextRunIsLater DEF TypeOK
    <3>3. o[2] < NextRunAt(o[1], now)
      BY <2>1, <2>4, <3>2 DEF TypeOK, Time
    <3>4. JobsInHand' /\ SentIsMarked'
      BY <2>1, <2>2, <3>1, <3>3 DEF HoldersInv, JobsInHand, SentIsMarked, TypeOK
    <3>5. QED
      BY <2>5, <3>4 DEF HoldersInv
  <2>7. CASE MarkRun(j)
    <3>1. /\ state[j] = "computed" /\ next[j] \in Nat /\ next_run_at[o[1]] \in Nat
          /\ state' = [state EXCEPT ![j] = "marked"]
          /\ next' = [next EXCEPT ![j] = 0]
          /\ next_run_at' = [next_run_at EXCEPT ![o[1]] = next[j]]
          /\ setBack' = setBack \cup ({o[1]} \X (next[j] .. next_run_at[o[1]] - 1))
      BY <2>1, <2>7 DEF MarkRun, Marks, TypeOK, Time
    <3>2. \A p \in Occurrence : p = <<p[1], p[2]>> /\ p[1] \in Message /\ p[2] \in Nat
      BY DEF Occurrence, Time
    <3>3. ASSUME NEW p \in Occurrence, p \notin setBack', p[2] < next_run_at[p[1]]
          PROVE  p[2] < next_run_at'[p[1]]
      <4>1. CASE p[1] = o[1]
        <5>1. p \notin {o[1]} \X (next[j] .. next_run_at[o[1]] - 1)
          BY <3>1, <3>3
        <5>2. p[2] \notin next[j] .. next_run_at[o[1]] - 1
          BY <3>2, <4>1, <5>1
        <5>3. QED
          BY <2>1, <3>1, <3>2, <3>3, <4>1, <5>2 DEF TypeOK
      <4>2. CASE p[1] # o[1]
        BY <3>1, <3>3, <4>2 DEF TypeOK
      <4>3. QED
        BY <4>1, <4>2
    <3>4. SentIsMarked'
      BY <2>2, <3>3 DEF HoldersInv, SentIsMarked, TypeOK
    <3>5. o[2] < next_run_at'[o[1]]
      BY <2>1, <3>1 DEF HoldersInv, JobsInHand, TypeOK
    <3>6. JobsInHand'
      <4>1. \A k \in Job : /\ state'[k] = IF k = j THEN "marked" ELSE state[k]
                           /\ next'[k] = IF k = j THEN 0 ELSE next[k]
        BY <3>1 DEF TypeOK
      <4>2. \A k \in Job : state[k] = "marked" => of[k] \in Occurrence
        BY DEF HoldersInv, JobsInHand, TypeOK
      <4>3. ASSUME NEW k \in Job, state'[k] = "marked", of[k] \notin setBack'
            PROVE  of[k][2] < next_run_at'[of[k][1]]
        BY <2>1, <2>2, <3>3, <3>5, <4>1, <4>2, <4>3 DEF HoldersInv, JobsInHand
      <4>4. QED
        BY <2>2, <3>1, <4>1, <4>3 DEF HoldersInv, JobsInHand
    <3>7. QED
      BY <2>5, <3>4, <3>6 DEF HoldersInv
  <2>8. QED
    BY <1>8, <2>6, <2>7
<1>9. ASSUME NEW j \in Job, PostAccepted(j) \/ PostAnswerLost(j) PROVE HoldersInv'
  <2>1. state[j] = "marked"
    BY <1>9 DEF PostAccepted, PostAnswerLost
  <2>2. PICK o \in Occurrence : o = of[j] /\ o # NoOccurrence
    BY <2>1 DEF TypeOK, HoldersInv, JobsInHand
  <2>3. /\ sent' = sent \cup {o} /\ twice' = twice \cup (sent \cap {o})
        /\ \/ Ends(j) /\ UNCHANGED lost
           \/ AfterError(j) /\ lost' = lost \cup {o}
        /\ UNCHANGED <<now, rows, next_run_at, due, overtaken, setBack>>
    BY <1>9, <2>2 DEF PostAccepted, PostAnswerLost, Posts
  <2>4. /\ JobsInHand' /\ HeldIsDue'
        /\ \A p \in Occurrence : Held(p)' => Held(p)
        /\ \A k \in Job : of'[k] = of[k] \/ (k = j /\ of'[k] = NoOccurrence)
    BY <2>1, <2>3, HoldersAfterAttempt
  <2>5. Held(o) /\ lost \subseteq lost' /\ sent \subseteq Occurrence
    BY <2>2, <2>3 DEF Held, TypeOK
  <2>6. SentIsMarked'
    BY <2>1, <2>2, <2>3, <2>5 DEF HoldersInv, SentIsMarked, HeldIsDue, JobsInHand
  <2>7. HoldersExplained'
    BY <2>3, <2>4 DEF HoldersInv, HoldersExplained, Occurrence, Time
  <2>8. Held(o)' => o \in lost' \cup overtaken \cup setBack
    <3>1. CASE lost' = lost \cup {o}
      BY <3>1
    <3>2. ASSUME Ends(j), o \notin overtaken PROVE ~ Held(o)'
      <4>1. \A k \in Job : of'[k] # o
        BY <2>2, <3>2 DEF HoldersInv, HoldersExplained, Ends, TypeOK
      <4>2. \A t \in Tick : o \notin due'[t]
        BY <2>2, <2>3, <3>2 DEF HoldersInv, HoldersExplained
      <4>3. QED
        BY <4>1, <4>2 DEF Held
    <3>3. QED
      BY <2>3, <3>1, <3>2
  <2>9. SentAgain'
    <3>1. ASSUME NEW p \in sent', Held(p)' PROVE p \in lost' \cup overtaken \cup setBack
      <4>1. CASE p = o
        BY <2>8, <3>1, <4>1
      <4>2. CASE p \in sent
        BY <2>4, <2>5, <3>1, <4>2 DEF HoldersInv, SentAgain
      <4>3. QED
        BY <2>3, <4>1, <4>2
    <3>2. QED
      BY <2>3, <3>1 DEF SentAgain
  <2>10. TwiceIsExplained'
    BY <2>3, <2>5 DEF HoldersInv, SentAgain, TwiceIsExplained
  <2>11. QED
    BY <2>4, <2>6, <2>7, <2>9, <2>10 DEF HoldersInv
<1>10. ASSUME NEW j \in Job, AttemptFails(j) PROVE HoldersInv'
  <2>1. /\ state[j] # "none" /\ AfterError(j)
        /\ UNCHANGED <<now, rows, next_run_at, due, sent, twice, lost, overtaken, setBack>>
    BY <1>10 DEF AttemptFails
  <2>2. /\ JobsInHand' /\ HeldIsDue'
        /\ \A o \in Occurrence : Held(o)' => Held(o)
        /\ \A k \in Job : of'[k] = of[k] \/ (k = j /\ of'[k] = NoOccurrence)
    BY <2>1, HoldersAfterAttempt
  <2>3. SentIsMarked' /\ HoldersExplained' /\ SentAgain' /\ TwiceIsExplained'
    BY <2>1, <2>2 DEF HoldersInv, SentIsMarked, HoldersExplained, SentAgain, TwiceIsExplained,
                      TypeOK, Occurrence, Time
  <2>4. QED
    BY <2>2, <2>3 DEF HoldersInv
<1>11. CASE UNCHANGED vars
  BY <1>11, HoldersKept DEF vars, TypeOK
<1>12. QED
  BY <1>1, <1>2, <1>3, <1>4, <1>5, <1>6, <1>7, <1>8, <1>9, <1>10, <1>11 DEF Next

(* Every step preserves the count of the rooms.                            *)
LEMMA StepRoomIsCounted == IInv /\ [Next]_vars => RoomIsCounted'
<1> SUFFICES ASSUME IInv, [Next]_vars PROVE RoomIsCounted'
  OBVIOUS
<1> TypeOK /\ RoomIsCounted
  BY DEF IInv
<1> USE ScheduleAssumption DEF table, creation, jobs, history
<1>1. /\ IsFiniteSet(enabled) /\ Cardinality(enabled) \in Nat
      /\ IsFiniteSet(counted) /\ Cardinality(counted) \in Nat
      /\ Cardinality(Creator) \in Nat /\ Cardinality(counted) <= Cardinality(Creator)
  BY FS_Subset, FS_CardinalityType DEF TypeOK
<1>2. ASSUME NEW c \in Creator, CountEnabled(c) PROVE RoomIsCounted'
  <2>1. Cardinality(counted \cup {c}) <= Cardinality(Creator)
        /\ Cardinality(counted \cup {c}) \in Nat
    BY FS_Subset, FS_CardinalityType DEF TypeOK
  <2>2. QED
    BY <1>1, <1>2, <2>1 DEF CountEnabled, RoomIsCounted
<1>3. ASSUME NEW c \in Creator, InsertRow(c) PROVE RoomIsCounted'
  <2>1. PICK s \in Message \ rows : enabled' = enabled \cup {s}
    BY <1>3 DEF InsertRow
  <2>2. Cardinality(enabled') = Cardinality(enabled) + 1
    BY <1>1, <2>1, FS_AddElement DEF TypeOK
  <2>3. Cardinality(counted') = Cardinality(counted) - 1
    BY <1>1, <1>3, FS_RemoveElement DEF InsertRow
  <2>4. ~ overlapped' => ~ overlapped /\ counted # {} /\ counted' = {}
    BY <1>3 DEF InsertRow
  <2>5. QED
    BY <1>1, <2>2, <2>3, <2>4 DEF RoomIsCounted
<1>4. ASSUME NEW c \in Creator, SlugTaken(c) PROVE RoomIsCounted'
  <2>1. Cardinality(counted') <= Cardinality(counted) /\ Cardinality(counted') \in Nat
    BY <1>1, <1>4, FS_Subset, FS_CardinalityType DEF SlugTaken
  <2>2. /\ UNCHANGED <<enabled, overlapped>>
        /\ counted' # {} => counted # {}
    BY <1>4 DEF SlugTaken
  <2>3. QED
    BY <1>1, <2>1, <2>2 DEF RoomIsCounted
<1>5. ASSUME NEW s \in Message, Cancel(s) PROVE RoomIsCounted'
  <2>1. Cardinality(enabled') <= Cardinality(enabled) /\ Cardinality(enabled') \in Nat
    BY <1>1, <1>5, FS_Subset, FS_CardinalityType DEF Cancel
  <2>2. QED
    BY <1>1, <1>5, <2>1 DEF Cancel, RoomIsCounted
<1>6. ASSUME UNCHANGED <<enabled, counted, overlapped>> PROVE RoomIsCounted'
  BY <1>6 DEF RoomIsCounted
<1>7. ASSUME NEW t \in Tick, GetDue(t) \/ InsertProactive(t) \/ InsertFails(t)
      PROVE  RoomIsCounted'
  BY <1>6, <1>7 DEF GetDue, Finds, InsertProactive, InsertFails
<1>8. ASSUME NEW j \in Job, \/ ComputeNext(j) \/ MarkRun(j)
                              \/ PostAccepted(j) \/ PostAnswerLost(j) \/ AttemptFails(j)
      PROVE  RoomIsCounted'
  BY <1>6, <1>8 DEF ComputeNext, MarkRun, Marks, PostAccepted, PostAnswerLost, AttemptFails
<1>9. CASE TimePasses \/ UNCHANGED vars
  BY <1>6, <1>9 DEF TimePasses, vars
<1>10. QED
  BY <1>2, <1>3, <1>4, <1>5, <1>7, <1>8, <1>9 DEF Next

-----------------------------------------------------------------------------
(* The invariant holds in every behaviour.                                 *)
LEMMA Invariance == Spec => []IInv
<1>1. IInv /\ [Next]_vars => IInv'
  BY StepTypeOK, StepHoldersInv, StepRoomIsCounted DEF IInv
<1>2. QED
  BY InitIInv, <1>1, PTL DEF Spec

(* Types; a tick holds Limit occurrences at most.                          *)
THEOREM TypeCorrect == Spec => []TypeOK
<1>1. IInv => TypeOK
  BY DEF IInv
<1>2. QED
  BY Invariance, <1>1, PTL

(* The quota of CreateWithQuota holds, and statements that overlap exceed  *)
(* it by one schedule less than there are of them, whatever is cancelled   *)
(* and created in between.                                                 *)
THEOREM QuotaIsKept == Spec => []QuotaHolds
<1>1. IInv => QuotaHolds
  <2> SUFFICES ASSUME TypeOK, RoomIsCounted PROVE QuotaHolds
    BY DEF IInv
  <2>1. /\ Cardinality(enabled) \in Nat /\ Cardinality(counted) \in Nat
        /\ Cardinality(Creator) \in Nat
    BY ScheduleAssumption, FS_Subset, FS_CardinalityType DEF TypeOK
  <2>2. QED
    BY <2>1, ScheduleAssumption DEF RoomIsCounted, QuotaHolds
<1>2. QED
  BY Invariance, <1>1, PTL

(* A schedule posts twice for one occurrence only when Slack's answer was  *)
(* lost, when a tick found it due while its job had not run MarkRun, or    *)
(* when a stalled job's UPDATE set next_run_at back to it or before it.    *)
THEOREM RepetitionsAreExplained == Spec => []TwiceIsExplained
<1>1. IInv => TwiceIsExplained
  BY DEF IInv, HoldersInv
<1>2. QED
  BY Invariance, <1>1, PTL
=============================================================================
