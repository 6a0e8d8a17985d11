----------------------------- MODULE Schedule -----------------------------
(***************************************************************************)
(* The recurring messages of one channel: the rows of scheduled_messages   *)
(* (schedule/schedule.go, schedule/tools.go), the periodic job that looks  *)
(* for due ones (jobs/scheduler_tick.go) and the jobs that post them       *)
(* (jobs/proactive.go).                                                    *)
(*                                                                         *)
(* An occurrence is <<s, d>>: schedule s and the next_run_at d at which it *)
(* was found due.  A job does not know its occurrence (its arguments name  *)
(* the schedule only); the model remembers it to tell what was posted for  *)
(* what.  A cron expression is the set of its times.  One-shot schedules,  *)
(* which nothing but tests creates, and the text of messages are left out. *)
(***************************************************************************)
EXTENDS Naturals, FiniteSets, FiniteSetsExt

CONSTANTS
  Message,                (* schedules; bound: there will be no other      *)
  Cron,                   (* the times of a schedule's cron expression in  *)
                          (* the zone of the server                        *)
  Creator,                (* calls of create_schedule that may overlap     *)
  Tick,                   (* scheduler_tick jobs that may overlap          *)
  Job,                    (* bound: proactive jobs River holds at once     *)
  maxSchedulesPerChannel, (* the quota (10)                                *)
  Limit,                  (* LIMIT of GetDue (100)                         *)
  MaxAttempts,            (* attempts River gives a job (25)               *)
  MaxTime,                (* bound: where the clock stops; schedules begin *)
                          (* by then                                       *)
  MaxFaults,              (* bound: lost attempts, answers and insertions  *)
  NoOccurrence            (* what a slot of Job without a job is for       *)

ASSUME ScheduleAssumption ==
  /\ IsFiniteSet(Message) /\ IsFiniteSet(Creator)
  /\ Cron \in [Message -> SUBSET Nat]
  /\ maxSchedulesPerChannel \in Nat \ {0}
  /\ Limit \in Nat \ {0}
  /\ MaxAttempts \in Nat \ {0}
  /\ MaxTime \in Nat
  /\ MaxFaults \in Nat
  /\ NoOccurrence \notin Message \X Nat

Time == 0 .. MaxTime + 1
Occurrence == Message \X Time

VARIABLES
  now,
  rows, enabled, next_run_at, (* scheduled_messages: those there are, the  *)
                              (* enabled ones, when each is due            *)
  counted,                    (* creators whose statement has found room   *)
  overlapped,                 (* history: one of them inserted while       *)
                              (* another of them was about to              *)
  due,                        (* a tick: the occurrences left to enqueue   *)
  state, of, attempt,         (* a job: its state, occurrence and attempts *)
  next,                       (* the next run it has computed, 0 for none  *)
  sent, twice,                (* history: occurrences posted, posted again;*)
  lost, overtaken,            (* posted with the answer lost; found due    *)
                              (* while another tick or job had them;       *)
  setBack,                    (* passed over by next_run_at, which a late  *)
                              (* UPDATE then set back to them or before    *)
  owed,                       (* history: marked and not posted since      *)
  faults                      (* faults so far                             *)

table   == <<rows, enabled, next_run_at>>
creation == <<counted, overlapped>>
jobs    == <<state, of, attempt, next>>
history == <<sent, twice, lost, overtaken, setBack, owed>>
vars    == <<now, table, creation, due, jobs, history, faults>>

Init ==
  /\ now = 0
  /\ rows = {} /\ enabled = {}
  /\ next_run_at = [s \in Message |-> 0]
  /\ counted = {} /\ overlapped = FALSE
  /\ due = [t \in Tick |-> {}]
  /\ state = [j \in Job |-> "none"]
  /\ of = [j \in Job |-> NoOccurrence]
  /\ attempt = [j \in Job |-> 0]
  /\ next = [j \in Job |-> 0]
  /\ sent = {} /\ twice = {} /\ lost = {} /\ overtaken = {} /\ setBack = {}
  /\ owed = {}
  /\ faults = 0

Fault == faults < MaxFaults /\ faults' = faults + 1

(* NextRunAt: the first time of the cron after the one given.              *)
NextRunAt(s, t) ==
  Min({n \in Cron[s] : n > t /\ n <= MaxTime} \cup {MaxTime + 1})

TimePasses ==
  /\ now < MaxTime
  /\ now' = now + 1
  /\ UNCHANGED <<table, creation, due, jobs, history, faults>>

-----------------------------------------------------------------------------
(* The tools.  Operators named Slip... are wrong variants of the           *)
(* definition that follows them.                                           *)

(* Wrong: a channel that is full takes one more.                           *)
SlipCountAtMost(c) ==
  /\ c \notin counted /\ rows # Message
  /\ Cardinality(enabled) <= maxSchedulesPerChannel
  /\ counted' = counted \cup {c}
  /\ UNCHANGED <<now, table, overlapped, due, jobs, history, faults>>

(* CreateWithQuota is one statement, but the count it sees is that of its  *)
(* snapshot: concurrent statements do not see each other's row.            *)
CountEnabled(c) ==
  /\ c \notin counted /\ rows # Message
  /\ Cardinality(enabled) < maxSchedulesPerChannel
  /\ counted' = counted \cup {c}
  /\ UNCHANGED <<now, table, overlapped, due, jobs, history, faults>>

(* The unique slug: one that is taken, by an enabled schedule or not, is   *)
(* given a number and the statement is run again.  The first time is that  *)
(* of the cron in the user's zone, which can be any.                       *)
InsertRow(c) ==
  /\ c \in counted
  /\ counted' = counted \ {c}
  /\ overlapped' = (overlapped \/ counted # {c})
  /\ \E s \in Message \ rows, n \in now + 1 .. MaxTime :
       /\ rows' = rows \cup {s}
       /\ enabled' = enabled \cup {s}
       /\ next_run_at' = [next_run_at EXCEPT ![s] = n]
  /\ UNCHANGED <<now, due, jobs, history, faults>>

SlugTaken(c) ==
  /\ c \in counted
  /\ rows # {}
  /\ counted' = counted \ {c}
  /\ UNCHANGED <<now, table, overlapped, due, jobs, history, faults>>

(* GetBySlug, the check of the user, and an UPDATE by id.                  *)
Cancel(s) ==
  /\ s \in enabled
  /\ enabled' = enabled \ {s}
  /\ UNCHANGED <<now, rows, next_run_at, creation, due, jobs, history, faults>>

-----------------------------------------------------------------------------
(* SchedulerTickWorker.                                                    *)

Due(s) == s \in enabled /\ next_run_at[s] <= now
DueOccurrences == {<<s, next_run_at[s]>> : s \in {m \in Message : Due(m)}}

(* The Limit oldest of a set of occurrences; equally old ones in any order.*)
IsOldest(S, all) ==
  /\ S \subseteq all
  /\ Cardinality(S) = IF Cardinality(all) < Limit THEN Cardinality(all) ELSE Limit
  /\ \A o \in S, p \in all \ S : o[2] <= p[2]

Finds(t, S) ==
  /\ due' = [due EXCEPT ![t] = S]
  /\ overtaken' = overtaken \cup (S \cap ({of[j] : j \in Job} \cup UNION {due[u] : u \in Tick}))
  /\ UNCHANGED <<now, table, creation, jobs, sent, twice, lost, setBack, owed, faults>>

(* Wrong: every schedule that is due, at once.                             *)
SlipNoLimit(t) ==
  /\ due[t] = {}
  /\ DueOccurrences # {}
  /\ Finds(t, DueOccurrences)

(* Wrong: a schedule is due at its time, and not later.                    *)
SlipDueNow(t) ==
  /\ due[t] = {}
  /\ \E S \in SUBSET {o \in DueOccurrences : o[2] = now} :
       /\ S # {} /\ Cardinality(S) <= Limit
       /\ Finds(t, S)

GetDue(t) ==
  /\ due[t] = {}
  /\ \E S \in SUBSET DueOccurrences :
       /\ S # {} /\ IsOldest(S, DueOccurrences)
       /\ Finds(t, S)

InsertProactive(t) ==
  \E o \in due[t], j \in Job :
    /\ state[j] = "none"
    /\ state' = [state EXCEPT ![j] = "waiting"]
    /\ of' = [of EXCEPT ![j] = o]
    /\ attempt' = [attempt EXCEPT ![j] = 1]
    /\ due' = [due EXCEPT ![t] = @ \ {o}]
    /\ UNCHANGED <<now, table, creation, next, history, faults>>

(* One insertion fails and is logged, or the tick dies with the rest.      *)
InsertFails(t) ==
  /\ due[t] # {}
  /\ Fault
  /\ \/ \E o \in due[t] : due' = [due EXCEPT ![t] = @ \ {o}]
     \/ due' = [due EXCEPT ![t] = {}]
  /\ UNCHANGED <<now, table, creation, jobs, history>>

-----------------------------------------------------------------------------
(* ProactiveMessageWorker.                                                 *)

(* An attempt waits to be run and then for Claude, which no other sees.    *)
(* The time after now, in the server's zone, of the schedule's cron.       *)
ComputeNext(j) ==
  /\ state[j] = "waiting"
  /\ state' = [state EXCEPT ![j] = "computed"]
  /\ next' = [next EXCEPT ![j] = NextRunAt(of[j][1], now)]
  /\ UNCHANGED <<now, table, creation, due, of, attempt, history, faults>>

(* UPDATE ... SET next_run_at = n WHERE id = ?: the clock was read some    *)
(* time ago and the row is not looked at, so it may go back.               *)
Marks(j, n) ==
  /\ state[j] = "computed"
  /\ state' = [state EXCEPT ![j] = "marked"]
  /\ next' = [next EXCEPT ![j] = 0]
  /\ next_run_at' = [next_run_at EXCEPT ![of[j][1]] = n]
  /\ setBack' = setBack \cup ({of[j][1]} \X (n .. next_run_at[of[j][1]] - 1))
  /\ owed' = owed \cup {of[j][1]}
  /\ UNCHANGED <<now, rows, enabled, creation, due, of, attempt, sent, twice, lost,
                 overtaken, faults>>

(* Wrong: only last_run_at is written.                                     *)
SlipMarkLastRun(j) == Marks(j, next_run_at[of[j][1]])

MarkRun(j) == Marks(j, next[j])

Posts(j) ==
  /\ owed' = owed \ {of[j][1]}
  /\ sent' = sent \cup {of[j]}
  /\ twice' = twice \cup (sent \cap {of[j]})

Ends(j) ==
  /\ state' = [state EXCEPT ![j] = "none"]
  /\ of' = [of EXCEPT ![j] = NoOccurrence]
  /\ attempt' = [attempt EXCEPT ![j] = 0]
  /\ next' = [next EXCEPT ![j] = 0]

(* River: a failed attempt is repeated, from the top, or was the last.     *)
AfterError(j) ==
  IF attempt[j] = MaxAttempts
  THEN Ends(j)
  ELSE /\ state' = [state EXCEPT ![j] = "waiting"]
       /\ attempt' = [attempt EXCEPT ![j] = @ + 1]
       /\ next' = [next EXCEPT ![j] = 0]
       /\ UNCHANGED of

PostAccepted(j) ==
  /\ state[j] = "marked"
  /\ Posts(j)
  /\ Ends(j)
  /\ UNCHANGED <<now, table, creation, due, lost, overtaken, setBack, faults>>

(* Slack has the message and the job does not know.                        *)
PostAnswerLost(j) ==
  /\ state[j] = "marked"
  /\ Fault
  /\ Posts(j)
  /\ lost' = lost \cup {of[j]}
  /\ AfterError(j)
  /\ UNCHANGED <<now, table, creation, due, overtaken, setBack>>

(* Claude, the UPDATE or Slack fails, the job times out or its process dies.*)
AttemptFails(j) ==
  /\ state[j] # "none"
  /\ Fault
  /\ AfterError(j)
  /\ UNCHANGED <<now, table, creation, due, history>>

-----------------------------------------------------------------------------
Next ==
  \/ TimePasses
  \/ \E c \in Creator : CountEnabled(c) \/ InsertRow(c) \/ SlugTaken(c)
  \/ \E s \in Message : Cancel(s)
  \/ \E t \in Tick : GetDue(t) \/ InsertProactive(t) \/ InsertFails(t)
  \/ \E j \in Job : \/ ComputeNext(j) \/ MarkRun(j)
                   \/ PostAccepted(j) \/ PostAnswerLost(j) \/ AttemptFails(j)

(* The periodic job comes every minute and enqueues what it finds (in a    *)
(* slot of Job that others may take in between); River runs its jobs.      *)
Fairness ==
  /\ \A t \in Tick : WF_vars(GetDue(t)) /\ SF_vars(InsertProactive(t))
  /\ \A j \in Job : WF_vars(ComputeNext(j) \/ MarkRun(j) \/ PostAccepted(j))

Spec == Init /\ [][Next]_vars /\ Fairness

-----------------------------------------------------------------------------
(* Types; a tick holds Limit occurrences at most, however many are due.    *)
TypeOK ==
  /\ now \in 0 .. MaxTime
  /\ enabled \subseteq rows /\ rows \subseteq Message
  /\ next_run_at \in [Message -> Time]
  /\ counted \subseteq Creator /\ overlapped \in BOOLEAN
  /\ due \in [Tick -> SUBSET Occurrence]
  /\ \A t \in Tick : Cardinality(due[t]) <= Limit
  /\ state \in [Job -> {"none", "waiting", "computed", "marked"}]
  /\ of \in [Job -> Occurrence \cup {NoOccurrence}]
  /\ attempt \in [Job -> 0 .. MaxAttempts]
  /\ next \in [Job -> Time]
  /\ sent \cup twice \cup lost \cup overtaken \cup setBack \subseteq Occurrence
  /\ owed \subseteq rows
  /\ faults \in 0 .. MaxFaults

(* CreateWithQuota keeps the quota, unless statements overlapped: each but *)
(* one may add a schedule that the others did not count.                   *)
QuotaHolds ==
  Cardinality(enabled) <= maxSchedulesPerChannel +
                          (IF overlapped THEN Cardinality(Creator) - 1 ELSE 0)

(* An occurrence is posted again for three reasons only: Slack had it and  *)
(* the answer was lost; a tick found it due because the job it had, still  *)
(* waiting for Claude or stalled after it, had not run MarkRun; or the     *)
(* UPDATE of a job stalled since it read the clock set next_run_at back to *)
(* it or before it, although next_run_at had passed it.  What MarkRun has  *)
(* marked is not taken up again without one of these.                      *)
TwiceIsExplained == twice \subseteq lost \cup overtaken \cup setBack

(* A schedule that is due is marked and posted, or cancelled, in the end,  *)
(* unless the attempts of a job are used up.                               *)
Overdue(s) == s \in enabled /\ (Due(s) \/ s \in owed)
DueIsPosted ==
  \A s \in Message : []<>(Overdue(s) => faults >= MaxAttempts)

(* The comment of proactive.go on marking before posting: "we won't        *)
(* double-send because MarkRun already advanced next_run_at".              *)
NoDoubleSend == twice = {}

=============================================================================
