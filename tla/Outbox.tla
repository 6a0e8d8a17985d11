------------------------------- MODULE Outbox -------------------------------
(***************************************************************************)
(* The transactional-outbox half of internal/saga: rows of table outbox    *)
(* (outbox.go) and the periodic outbox_deliver job that claims them,       *)
(* posts them to Slack and records the verdict (deliver.go).  Each SQL     *)
(* statement commits by itself, so each is one step here; what a job holds *)
(* in memory between two statements is in batch, snapshot, cur and pc.     *)
(*                                                                         *)
(* Several delivery jobs run at once: the periodic job is inserted every   *)
(* five seconds without a uniqueness option and one run of it may post ten *)
(* messages, so the next run, or a second process, overlaps it.            *)
(***************************************************************************)
EXTENDS Naturals, FiniteSets

CONSTANTS
  Entry,                (* outbox rows; their order is created_at          *)
  Blocks,               (* the rows whose message_type is "blocks"         *)
  Worker,               (* outbox_deliver jobs that may run at once        *)
  NoEntry,              (* "no row" for a worker between two rows          *)
  MaxDeliveryAttempts,  (* the const of outbox.go (5 in the code)          *)
  BatchSize,            (* LIMIT of ClaimPending (10 in the code)          *)
  MaxFaults             (* bound: crashes, job timeouts, failed statements *)

ASSUME OutboxAssumption ==
  /\ Entry \subseteq Nat
  /\ Blocks \subseteq Entry
  /\ NoEntry \notin Entry
  /\ MaxDeliveryAttempts \in Nat \ {0}
  /\ BatchSize \in Nat \ {0}
  /\ MaxFaults \in Nat

VARIABLES
  status,     (* outbox.status of each row, "absent" before the INSERT     *)
  attempts,   (* outbox.attempts                                           *)
  messageTS,  (* the rows whose slack_message_ts is set                    *)
  batch,      (* rows a worker claimed and has not disposed of yet         *)
  snapshot,   (* entry.Attempts of the rows in batch, as the claim read it *)
  cur,        (* the row a worker is delivering                            *)
  pc,         (* where a worker is in deliver / handleFailure              *)
  posts,      (* history: times the row's message appeared in Slack        *)
  lost,       (* history: posts that Slack accepted but answered in vain   *)
  refused,    (* history: rows Slack refused with a permanent error        *)
  stranded,   (* history: rows left in "delivering" by a fault             *)
  faults      (* faults so far                                             *)

rows  == <<status, attempts, messageTS>>
memory == <<batch, snapshot, cur, pc>>
slack == <<posts, lost, refused>>
vars  == <<status, attempts, messageTS, batch, snapshot, cur, pc,
           posts, lost, refused, stranded, faults>>

Status == {"absent", "pending", "delivering", "delivered", "failed"}
PC     == {"idle", "loop", "store_ts", "mark_delivered", "retry", "refuse"}

Settled(e) == status[e] \in {"delivered", "failed"}

Init ==
  /\ status    = [e \in Entry |-> "absent"]
  /\ attempts  = [e \in Entry |-> 0]
  /\ messageTS = {}
  /\ batch     = [w \in Worker |-> {}]
  /\ snapshot  = [w \in Worker |-> [e \in Entry |-> 0]]
  /\ cur       = [w \in Worker |-> NoEntry]
  /\ pc        = [w \in Worker |-> "idle"]
  /\ posts     = [e \in Entry |-> 0]
  /\ lost      = [e \in Entry |-> 0]
  /\ refused   = {}
  /\ stranded  = {}
  /\ faults    = 0

(***************************************************************************)
(* saga.Enqueue: the INSERT gives status 'pending' and attempts 0 by       *)
(* default.  Callers are RespondWorker, pauseForApproval and handleReject. *)
(***************************************************************************)
Enqueue(e) ==
  /\ status[e] = "absent"
  /\ \A f \in Entry : f < e => status[f] # "absent"
  /\ status' = [status EXCEPT ![e] = "pending"]
  /\ UNCHANGED <<attempts, messageTS, memory, slack, stranded, faults>>

(* Operators named Slip... are wrong variants of the definition that       *)
(* follows them: a run with one in its place must break a property.        *)
SlipPendingOrClaimed == {e \in Entry : status[e] \in {"pending", "delivering"}}

(* The sub-select of ClaimPending: the BatchSize oldest pending rows.      *)
Pending == {e \in Entry : status[e] = "pending"}
Oldest(S) == {e \in S : Cardinality({f \in S : f < e}) < BatchSize}

(***************************************************************************)
(* ClaimPending, the first statement of DeliverPending.  FOR UPDATE SKIP   *)
(* LOCKED makes the UPDATE one atomic step for the rows it returns.        *)
(***************************************************************************)
ClaimPending(w) ==
  LET claim == Oldest(Pending) IN
  /\ pc[w] = "idle"
  /\ claim # {}
  /\ status'   = [e \in Entry |-> IF e \in claim THEN "delivering" ELSE status[e]]
  /\ attempts' = [e \in Entry |-> IF e \in claim THEN attempts[e] + 1 ELSE attempts[e]]
  /\ snapshot' = [snapshot EXCEPT ![w] =
                    [e \in Entry |-> IF e \in claim THEN attempts[e] + 1 ELSE 0]]
  /\ batch'    = [batch EXCEPT ![w] = claim]
  /\ pc'       = [pc EXCEPT ![w] = "loop"]
  /\ UNCHANGED <<messageTS, cur, slack, stranded, faults>>

(***************************************************************************)
(* One turn of the loop of DeliverPending: deliver(entry) calls PostBlocks *)
(* or PostMessage.  RETURNING gives the rows in no particular order.       *)
(***************************************************************************)
Begin(w, e, next) ==
  /\ pc[w] = "loop"
  /\ e \in batch[w]
  /\ cur' = [cur EXCEPT ![w] = e]
  /\ pc'  = [pc EXCEPT ![w] = next]
  /\ UNCHANGED <<rows, batch, snapshot, stranded, faults>>

PostAccepted(w, e) ==
  /\ Begin(w, e, IF e \in Blocks THEN "store_ts" ELSE "mark_delivered")
  /\ posts' = [posts EXCEPT ![e] = @ + 1]
  /\ UNCHANGED <<lost, refused>>

(* Slack shows the message, but the answer is a timeout or a reset.        *)
PostAnswerLost(w, e) ==
  /\ Begin(w, e, "retry")
  /\ posts' = [posts EXCEPT ![e] = @ + 1]
  /\ lost'  = [lost EXCEPT ![e] = @ + 1]
  /\ UNCHANGED refused

SlipErrorIgnored(w, e) ==
  /\ Begin(w, e, "mark_delivered")
  /\ UNCHANGED slack

(* A transient error, or block content that does not unmarshal.            *)
PostFails(w, e) ==
  /\ Begin(w, e, "retry")
  /\ UNCHANGED slack

(* slack.IsPermanentError holds of the error.                              *)
PostRefused(w, e) ==
  /\ Begin(w, e, "refuse")
  /\ refused' = refused \cup {e}
  /\ UNCHANGED <<posts, lost>>

(* SetSlackMessageTS, after PostBlocks and before MarkDelivered; an error  *)
(* is only logged.                                                         *)
SetSlackMessageTS(w) ==
  /\ pc[w] = "store_ts"
  /\ messageTS' = messageTS \cup {cur[w]}
  /\ pc' = [pc EXCEPT ![w] = "mark_delivered"]
  /\ UNCHANGED <<status, attempts, batch, snapshot, cur, slack, stranded, faults>>

SetSlackMessageTSFails(w) ==
  /\ faults < MaxFaults
  /\ pc[w] = "store_ts"
  /\ faults' = faults + 1
  /\ pc' = [pc EXCEPT ![w] = "mark_delivered"]
  /\ UNCHANGED <<rows, batch, snapshot, cur, slack, stranded>>

(* The row is disposed of and the loop goes on with the next one, if any.  *)
NextRow(w) ==
  LET rest == batch[w] \ {cur[w]} IN
  /\ batch' = [batch EXCEPT ![w] = rest]
  /\ cur'   = [cur EXCEPT ![w] = NoEntry]
  /\ pc'    = [pc EXCEPT ![w] = IF rest = {} THEN "idle" ELSE "loop"]
  /\ snapshot' = [snapshot EXCEPT ![w][cur[w]] = 0]

SetStatus(w, s) ==
  /\ status' = [status EXCEPT ![cur[w]] = s]
  /\ NextRow(w)
  /\ UNCHANGED <<attempts, messageTS, slack, stranded, faults>>

(* MarkDelivered: an UPDATE by outbox_id, with no condition on status.     *)
MarkDelivered(w) ==
  /\ pc[w] = "mark_delivered"
  /\ SetStatus(w, "delivered")

(* entry.Attempts >= MaxDeliveryAttempts, on the value the claim returned. *)
OutOfAttempts(w) == snapshot[w][cur[w]] >= MaxDeliveryAttempts

(* handleFailure: a permanent error, or no attempt left.                   *)
MarkFailed(w) ==
  /\ \/ pc[w] = "refuse"
     \/ pc[w] = "retry" /\ OutOfAttempts(w)
  /\ SetStatus(w, "failed")

SlipNewStatus(w) ==
  /\ pc[w] = "retry"
  /\ ~ OutOfAttempts(w)
  /\ SetStatus(w, "retrying")

SlipNoReset(w) ==
  /\ pc[w] = "retry"
  /\ ~ OutOfAttempts(w)
  /\ SetStatus(w, "delivering")

(* handleFailure: any other error puts the row back.                       *)
ResetForRetry(w) ==
  /\ pc[w] = "retry"
  /\ ~ OutOfAttempts(w)
  /\ SetStatus(w, "pending")

(* The statement that records the verdict fails: deliver logs the error    *)
(* and goes on, and the row keeps the status 'delivering'.                 *)
VerdictNotStored(w) ==
  /\ faults < MaxFaults
  /\ pc[w] \in {"mark_delivered", "retry", "refuse"}
  /\ faults'   = faults + 1
  /\ stranded' = stranded \cup {cur[w]}
  /\ NextRow(w)
  /\ UNCHANGED <<rows, slack>>

SlipReleaseOnAbandon(w) ==
  /\ faults < MaxFaults
  /\ pc[w] # "idle"
  /\ faults' = faults + 1
  /\ status' = [e \in Entry |-> IF e \in batch[w] THEN "pending" ELSE status[e]]
  /\ batch'  = [batch EXCEPT ![w] = {}]
  /\ cur'    = [cur EXCEPT ![w] = NoEntry]
  /\ pc'     = [pc EXCEPT ![w] = "idle"]
  /\ snapshot' = [snapshot EXCEPT ![w] = [e \in Entry |-> 0]]
  /\ UNCHANGED <<attempts, messageTS, slack, stranded>>

(* The process dies, or the job's context ends (job timeout, shutdown) and *)
(* every later call of this run fails: nothing more is written.            *)
Abandon(w) ==
  /\ faults < MaxFaults
  /\ pc[w] # "idle"
  /\ faults'   = faults + 1
  /\ stranded' = stranded \cup batch[w]
  /\ batch' = [batch EXCEPT ![w] = {}]
  /\ cur'   = [cur EXCEPT ![w] = NoEntry]
  /\ pc'    = [pc EXCEPT ![w] = "idle"]
  /\ snapshot' = [snapshot EXCEPT ![w] = [e \in Entry |-> 0]]
  /\ UNCHANGED <<rows, slack>>

Deliver(w) ==
  \/ ClaimPending(w)
  \/ \E e \in Entry : \/ PostAccepted(w, e)
                      \/ PostAnswerLost(w, e)
                      \/ PostFails(w, e)
                      \/ PostRefused(w, e)
  \/ SetSlackMessageTS(w)
  \/ MarkDelivered(w)
  \/ MarkFailed(w)
  \/ ResetForRetry(w)

Fault(w) ==
  \/ SetSlackMessageTSFails(w)
  \/ VerdictNotStored(w)
  \/ Abandon(w)

Next ==
  \/ \E e \in Entry : Enqueue(e)
  \/ \E w \in Worker : Deliver(w) \/ Fault(w)

(* River starts the periodic job again and again, and a job that runs goes *)
(* on: nothing makes a caller enqueue, or Slack answer in a given way.     *)
Fairness == \A w \in Worker : WF_vars(Deliver(w))

Spec == Init /\ [][Next]_vars /\ Fairness

-----------------------------------------------------------------------------
TypeOK ==
  /\ status    \in [Entry -> Status]
  /\ attempts  \in [Entry -> Nat]
  /\ messageTS \subseteq Entry
  /\ batch     \in [Worker -> SUBSET Entry]
  /\ snapshot  \in [Worker -> [Entry -> Nat]]
  /\ cur       \in [Worker -> Entry \cup {NoEntry}]
  /\ pc        \in [Worker -> PC]
  /\ posts     \in [Entry -> Nat]
  /\ lost      \in [Entry -> Nat]
  /\ refused   \subseteq Entry
  /\ stranded  \subseteq Entry
  /\ faults    \in Nat

(* No two delivery jobs hold the same row, and a held row is 'delivering': *)
(* what MarkDelivered, MarkFailed and ResetForRetry, which check nothing,  *)
(* rely on.                                                                *)
ExclusiveClaim ==
  /\ \A w \in Worker : \A e \in batch[w] : status[e] = "delivering"
  /\ \A v, w \in Worker : v # w => batch[v] \cap batch[w] = {}

(* MaxDeliveryAttempts: a row is claimed at most that many times, however  *)
(* the jobs that retry it interleave, and a row put back has one left.     *)
RetryBudget ==
  \A e \in Entry : /\ attempts[e] <= MaxDeliveryAttempts
                   /\ status[e] = "pending" => attempts[e] < MaxDeliveryAttempts

(* The user sees a message twice only when Slack's answer to an earlier    *)
(* post of it was lost: no crash and no failed UPDATE makes a duplicate.   *)
DuplicateNeedsLostAnswer == \A e \in Entry : posts[e] <= lost[e] + 1

(* A row says 'delivered' only of a message Slack shows, and 'failed' only *)
(* after a permanent refusal or the last attempt.                          *)
HonestVerdict ==
  \A e \in Entry :
    /\ status[e] = "delivered" => posts[e] > lost[e]
    /\ status[e] = "failed" => e \in refused \/ attempts[e] = MaxDeliveryAttempts

(* A verdict is never taken back, and nothing is posted after it, though   *)
(* the UPDATEs are unconditional and jobs overlap.                         *)
KeepsVerdicts ==
  \A e \in Entry : Settled(e) => status'[e] = status[e] /\ posts'[e] = posts[e]
SettledIsFinal == [][KeepsVerdicts]_vars

(* Every row is settled in the end, unless a fault struck the job that     *)
(* held it.                                                                *)
SettledUnlessStranded ==
  \A e \in Entry : status[e] = "pending" ~> Settled(e) \/ e \in stranded

=============================================================================
