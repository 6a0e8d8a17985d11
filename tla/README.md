# A TLA+ model of ponko

ponko is two programs in one repository.

* **The Slack bot** (`cmd/slack`, `internal/api`, `internal/jobs`, `internal/saga`,
  `internal/schedule`, ...): HTTP handlers and [River](https://riverqueue.com) job
  workers over one Postgres database. Every SQL statement commits by itself; jobs are
  run at least once, with retries and a timeout, up to ten at a time.
* **The runner** (`cmd/cli`, `internal/worker`, `internal/devrouter`, ...): a command
  line tool that takes GitHub issues through phases and pipelines, over SQLite.

This directory models, of the first, everything between an event of Slack and the
answer in its thread (the handler, the chain of jobs, plans that are split and joined,
plans that wait for an approval, tools called on the way, the outbox) and the scheduled
messages; of the second, the passes of `run` with their phases, approvals and budget,
and the dev router's pipelines.

## Inventory

| Component | State it keeps | Operations | Meets others through | What is hard | What makes it correct |
|---|---|---|---|---|---|
| Outbox delivery (`saga/outbox.go`, `saga/deliver.go`) | table `outbox` | `Enqueue`, `ClaimPending`, `MarkDelivered`, `MarkFailed`, `ResetForRetry`, `SetSlackMessageTS`, `DeliverPending` | rows inserted by respond, plan and reject; Slack | overlapping periodic jobs, lost answers, a job that dies with claimed rows | one holder of a row; bounded attempts; a verdict says what Slack did; a settled row stays so |
| Fan-out and fan-in (`jobs/plan.go`, `execute.go`, `synthesize.go`, `workflow/workflow.go`) | `workflows.total_tasks`, `completed_tasks`, `workflow_outputs`, `workflow_steps`, jobs | plan, execute, synthesize, counter | jobs inserted by jobs | retries of half-done attempts, concurrent last tasks | one join per plan, after every task, and an answer |
| Plan approval (`jobs/plan.go`, `api/interactions.go`, `saga/conversation.go`, `jobs/respond.go`) | `conversations.status` | pause, approve, reject, respond | the conversation's row, the outbox, the buttons in Slack | clicks, retries and other workflows of the thread race | nothing runs unapproved; every question is decided once; an approved plan is answered |
| Slack events and commands (`api/slack.go`) | map of seen event ids and goroutines (memory), `workflows`, `conversation_turns` | event, slash command, sign-off | starts receive jobs, reads `thread_messages` and `channel_configs` | acknowledged before the work is durable; entries expire; restarts; what the bot saves decides what it heeds | one workflow per event; no message dropped in silence; speaks where invited |
| Schedules (`schedule/*`, `jobs/scheduler_tick.go`, `jobs/proactive.go`) | `scheduled_messages` | create with quota, cancel, tick, post | process jobs, Slack | overlapping ticks, retries of a post, cancel against a queued job | a due schedule is posted, again only for a known reason; a cancelled one only runs out |
| Receive, process, replies (`jobs/receive.go`, `process.go`, `respond.go`, `slack_reply.go`, `conversation/thread.go`) | `workflow_outputs`, `thread_messages` | the unplanned path | outbox, Slack | any attempt repeated anywhere | an answer is repeated for a known reason only; what was said is remembered |
| Tool loop and MCP (`llm/claude.go`, `llm/openai.go`, `jobs/tool_dispatch.go`, `mcp/*`) | client session, OAuth tokens, routing table, all in memory | send, dispatch tools, reset session, refresh token | shared by all jobs of the process | concurrent resets and rotations | the loop ends; an expiry costs no call its result and carries none out twice |
| Channel configuration (`channel/config.go`, `api/config.go`, `api/recipes.go`) | `channel_configs` | get, put, `respond_mode` | read by the events handler, plan and process | lost updates | a command changes what it names only |
| Job administration (`api/jobs.go`, `api/conversations.go`) | none of its own | list, discard | River's jobs | discarding a job others wait for | (see fan-in) |
| Runner's passes (`cmd/cli/run.go`, `worker/*`, `intake/github.go`, `routing/router.go`, `sqlite/drain.go`) | phase and poller jobs, labels and comments of issues | intake, phase, gate, approval poll, drain | GitHub, budget table | overlapping passes, repeated phases, stale labels, crashes | one chain of phases per issue; nothing behind an approval or a gate without it; no task lost |
| Task table (`task/*`, `sqlite/task_store.go`) | a table nothing inserts into | list | | | |
| Dev router (`devrouter/*`, `sqlite/pipeline_store.go`) | pipelines with stage, stories | poll, plan, story, validate, resume | GitHub, git work trees | a crash in any stage, two runners | legal stage changes; no story or check skipped |
| Budget (`budget/budget.go`) | table `budget_usage` | can afford, record | phases | check before, record after | spending stays near the limit |
| Groom, scheduler (`groom/state.go`, `scheduler/*`) | files that the agent writes | read states, pick an issue, start the agent | GitHub | what the agent leaves behind | (not modelled) |
| Authentication, Slack client, runtimes, user cache, configuration, migrations, telemetry, serve UI, setup, web UI | none that others share | conversions and I/O | | | (not modelled, but for what Slack and a runtime can answer) |

`PROJECT.json` lists every component with its sources, and under `hazards` the lines
where each of these difficulties bites, with the properties that cover them.

## Modules

| Module | What it is |
|---|---|
| `Outbox` | the outbox table and its delivery jobs |
| `OutboxProofs` | theorems about `Outbox` |
| `FanIn` | abstract: a message is split in tasks, each finishes, the last one joins |
| `FanOut` | plan, execute and synthesize jobs; implements `FanIn` |
| `FanOutProofs` | theorems about `FanOut`, the steps of the refinement among them |
| `Approval` | the workflows, clicks and respond jobs that share one conversation |
| `ApprovalProofs` | theorems about `Approval` |
| `Schedule` | the recurring messages of a channel, the tick and the proactive jobs |
| `ScheduleProofs` | theorems about `Schedule` |
| `Replies` | the jobs that answer a message, over outputs, history and replies |
| `ChannelConfig` | a channel's row of configuration, changed by a command and by the web UI |
| `Inbox` | what reaches the bot; composes `Replies` and `ChannelConfig` with the events handler |
| `InboxProofs` | theorems about `Inbox` and the `Replies` in it |
| `ToolCalls` | the tool loop and the MCP client all jobs share; composes `ChannelConfig` |
| `ToolCallsProofs` | theorems about `ToolCalls` and the `ChannelConfig` in it |
| `DevRouter` | the pipelines of `dev-router`, their stages, stories and intake |
| `DevRouterProofs` | theorems about `DevRouter` |
| `Runner` | the passes of `ponko-runner run`: intake, phases, approvals, budget, drain |
| `RunnerProofs` | theorems about `Runner` |
| `MC...` | instances for TLC, one `.cfg` per question |

Operators named `Slip...` are deliberately wrong variants of the definition that
follows them. They show that a property is about the code: with a slip in place of
the definition the property must fail. No specification uses one.

### Outbox

A row is an `Entry` with `status` and `attempts`; a `Worker` is one of the delivery
jobs that may overlap, since the periodic job has no uniqueness and a batch of slow
posts can last longer than its period of five seconds. `batch` is the claimed rows of
`ClaimPending`, `snapshot` the attempt counts its `RETURNING` gave, `cur` and `pc`
where `deliver` is. The call to Slack has four outcomes: accepted, accepted with the
answer lost, failed, permanently refused. A verdict that cannot be written
(`VerdictNotStored`) and a job that ends with rows in hand (`Abandon`: the process
dies, the job's context ends) are faults. `posts`, `lost`, `refused` and `stranded`
are history.

### FanIn and FanOut

`FanOut` is one message. A plan attempt decomposes, saves, sets `total_tasks` and
inserts execute jobs one by one; any of these may be the last thing an attempt does.
An execute attempt runs its task, writes its step, stores its output, increments
`completed_tasks` and, if the value `RETURNING` gave equals the total, inserts the
synthesize job (unique by its arguments). A task that fails is retried
until its final attempt, which stores the error and counts. The refinement to `FanIn`
maps the plan that was split, the tasks counted and the synthesize jobs inserted.
A fault after the increment makes an attempt be repeated: the abstract `Lapse` stands
for it, and is allowed only then.

### Approval

`Approval` is the workflows of one thread of a channel with approval required. The
conversation's status changes only by `TransitionStatus`, an `UPDATE ... WHERE status =
from`. A plan attempt links the conversation, pauses it and enqueues the buttons, in
three statements; a click is handled by a goroutine of the HTTP server that makes its
compare-and-set and then inserts the execute jobs one by one, and is never retried.
Buttons stay in Slack until the handler's last call, so clicks of the past, on any
workflow's message, may arrive at any time. The insides of execute and synthesize jobs
are `FanOut`'s: here an execute job ends and counts. `asked`, `asker`, `answered`,
`approved`, `unasked` and `abandoned` are history; `abandoned` is the workflows an
approve handler of which was lost after its compare-and-set.

### Schedule

`Schedule` is the rows of `scheduled_messages` of one channel. `CreateWithQuota` is one
statement whose count is of its own snapshot, hence `CountEnabled` and `InsertRow`. A
tick takes the `Limit` oldest due rows into memory (`due`) and inserts a job for each;
nothing makes the ticks or the jobs unique. A job waits (for a worker, then for
Claude), reads the clock (`ComputeNext`), runs its UPDATE with what it computed then
(`MarkRun`) and posts; a repeated attempt does all of it again. Between the clock and
the UPDATE anything may happen: a job that stalls there writes `next_run_at` back over
the value of another, and an occurrence that was posted is due again. Time is a
clock that anybody may see move between two steps, and a cron expression the set of its
times. The first time of a schedule is computed in the user's zone and left open; the
later ones are in the server's, as `proactive.go` has it. `sent`, `twice`, `lost`,
`overtaken`, `setBack` (the occurrences `next_run_at` had passed and was set back to, or
before), `owed` and `overlapped` are history.

### Replies, ChannelConfig and Inbox

`Replies` is the chain of a message that is not planned: receive, plan (its bypass),
process, respond and, for a workflow without a conversation, slack_reply. A row of
`job` is one of River's; each job does its statements and inserts the next job last
(`Finish`), and an attempt lost anywhere is repeated from its start, so that a message
may be asked of the model again (`asked`), its exchange saved again (`history`) and its
answer handed over again (`replies`: rows of the outbox, or posts). `GetOutput` has no
ORDER BY: a repeated process job leaves several answers and respond takes any of them.

`ChannelConfig` is the row of a channel. A slash command reads it, changes the mode and
writes all of it; the web UI saves all of it, or deletes it when the prompt is empty.
Of what a save contains the model keeps which save it was (`rest`).

`Inbox` is the two with the events handler on top. `Deliver` is the handler up to its
answer to Slack, which is one step: it looks the event up in `seen`, evicts old
entries, reads the mode and the participation, and decides (`Verdict`): ignore, sign
off, or start a goroutine. The goroutine's statements follow one by one
(`CreateWorkflow`, `Converse`, `AddTurn`, `InsertReceive`), each tried three times with
delays; a statement that fails for good ends in a message to the user (`told`) or is
done without. `Crash` forgets `seen` and the goroutines. What `Replies` and
`PostSignOff` save in a thread is what later deliveries read: this loop is why they
are composed. `invited`, `away`, `unasked`, `renewed`, `asked`, `lost` and `dropped`
are history.

Things a reader of the code may want to know and the model shows: a mention in a
channel set to `all_messages` arrives twice, as `app_mention` and as `message`, with
two event ids, and is answered twice; a workflow is `completed` before its reply is
handed over; a workflow started through the API has no thread, so its reply is refused
by Slack and its job complete all the same; a slash command creates a row with an empty
prompt.

### ToolCalls

`ToolCalls` is the process jobs that run at once (`Caller`), each in the loop of
`SendConversationWithTools`, and the one MCP client behind the one OAuth refresher that
`main` gives them all. A remote call is a small machine: `ensure`, `send`, `sent`, and
then `done`, `expired` (404: the session is reset and the request made once more) or
`refresh`, `store` (401: a new token, and the whole call once more). The session is
copied under the client's lock; the token is read without it, so a reader that meets a
writer may get neither token (`Tokens`). The server numbers sessions and tokens as it
issues them and may void them at any time; it may replace the refresh token when it
takes it. Tokens are kept in memory only: `Restart` goes back to those of the
environment, and a server that refuses them is not tried again before the next restart
(`discovered`). One client and one server are modelled; several do not share state.
`llm/openai.go` has the same loop. `disturbed`, `outdated`, `grantLost`, `effects` and
`outcome` are history.

### Runner

`Runner` is `ponko-runner run` as a set of passes that may overlap: each counts the
jobs, polls the issues, inserts what there is room for, and works jobs one at a time
until none is left but scheduled ones. A job is a phase or an approval poller. A phase
asks the budget and the gate, runs the agent, records the cost and inserts what follows
it, without uniqueness; a poller looks at labels and comments, which count whatever
their age, and may fail to insert what they resume (`PollerNotFollowed`). What a phase
costs is recorded under the run id of its job, which a repeated attempt keeps: `spent`
is what `CanAffordRun` sums over that id, raised by the phases that succeed as by the
attempts whose cost is known. The label that marks an issue as taken may stay away,
because the call failed or because no such label is configured. River's part (retry,
discard, the rescuer of a dead pass's jobs, the scheduler, the cleaner of completed
rows) runs in any pass that is started. The first phase's row is unique by the issue,
while it exists: a completed row is deleted after a day. Money is counted in the
estimate of a phase. `saidYes`, `gateSeen`, `overlapped`, `forgotten`, `repeated` and
`owed` are history.

What the model shows beside its properties: the cost of an attempt that fails is never
recorded, so `budget.go`'s limits bound what is known to be spent only; issues that
wait for money or for people keep their places among the active ones; a phase that is
discarded after its last attempt tells nobody; and an approval given once holds for
whatever comes later on that issue.

### DevRouter

`DevRouter` is the pipelines of `ponko-runner dev-router`. An invocation (`Runner`) is
idle, polls an issue (`PollIssue`, `CreatePipeline`, `RemoveLabel`) or takes a turn on
a pipeline: `RunOnce` reads the row into `snap`, and the job of its stage acts on that
snapshot, one action per statement. A turn that ends early anywhere, because the agent,
`gh` or a statement fails or the process dies, is `TurnFails`; nothing is undone, and
the next turn resumes from the row. `UpdateStage` is as the store has it: it judges the
edge it is given and writes without looking at the row's stage. Invocations overlap as
they like; `contended` is the issues on which two of them were at work at once, and what
the properties say they say of the others. Track, rationale, costs, comments and the texts
of issues are left out; a plan is its number of stories; `MaxRetries` of a story is
inside `StoryFails` and `StorySucceeds`. `done`, `green` and `contended` are history.
`green` says that CI was asked about after the last story and the answer was green:
`CheckCI` looks at the repository's latest run, on whatever branch.

River's states and its choice between retry and discard are external, modelled from
the way the workers use them (`AfterError`).

## Runs

| Run | Instance | What it shows |
|---|---|---|
| `outbox` | 3 rows, 2 jobs, 2 attempts a row, faults bounded | claims exclusive, duplicates only after a lost answer, verdicts honest, every row settled unless a fault struck its job |
| `fan_out` | up to 3 tasks, jobs of 2 attempts, 2 faults; `MCBound` | exact counter, join after every output, honest steps, refinement of `FanIn`; one synthesize job per plan, as many answers as attempts explain, and an answer unless an attempt was repeated past its last write |
| `approval` | 2 workflows, 2 clicks, plans of 0, 1 or 2 tasks that a retry may change, 2 faults; `MCBound` | one question at a time, completed is final, nothing runs unapproved; an approved plan is carried out and answered, unless its own handler was lost, its own plan was made anew with another size, or its own respond job was discarded |
| `approval_retry` | 1 workflow, 1 fault | **violated**: a plan lost between its transition and its outbox entry never shows its buttons; docs/design-patterns.md:110 calls the retry safe |
| `schedule` | 2 schedules, quota of 1, 2 creators, 1 tick of 1 schedule at a time, 2 jobs with 2 attempts, 3 times, 1 fault; `MCBound` | the quota up to concurrent statements; a second post only after a lost answer, when a tick overtook a slow job, or when a late UPDATE set `next_run_at` back; a due schedule is posted, though two schedules compete for the tick and two jobs for a row |
| `schedule_twice` | as small as needed, 1 fault | **violated**: a repeated job posts what Slack already has, while proactive.go:77-79 says it will not |
| `inbox` | 3 events of one thread, 1 repeated, 2 workflows, 1 fault, 1 wait, 1 change of the configuration, 1 workflow of the API | what is said is remembered; a message is answered again only for a lost attempt; one workflow per event unless its entry was forgotten; no message dropped in silence; the bot speaks only where it was invited; turns are kept |
| `inbox_away` | 3 events, no fault, 1 wait | **violated**: after its sign-off the bot heeds the next reply without a mention, though slack.go:62 tells people to mention it |
| `tool_calls` | 2 jobs, 1 outage, 1 fault, 1 change of the configuration | an expired session or token costs no call its result but for the listed reasons, and carries none out twice; a slash command keeps the rest of the row; every attempt ends |
| `runner` | 2 issues of different workflows, 2 passes, 4 job rows, 1 act of a person, 1 fault | the board's limit; one chain of jobs per issue; no task lost; approval and gate; how far the budget is overspent |
| `dev_router` | 2 invocations that overlap, 2 issues, plans of 1 to 3 stories, 2 faults | an issue on which they do not meet has one pipeline, no story and no check skipped, an honest count of stories |
| `dev_router_decision` | 1 invocation after the other, 2 issues, plans of 1 or 2 stories, 2 faults | every issue comes to a decision |

The runs end in seconds, but for `fan_out` (872,748 states, 3 minutes), `schedule`
(1,288,479 states, 2 to 3 minutes), `runner` (796,868 states, 2 minutes) and `approval` (367,030 states,
1 minute). `inbox`, `runner` and `dev_router` check safety only and use the symmetry of
workflows and jobs, of passes, issues and invocations; the runs with liveness use none.

The properties name the cases in which the code does not keep what one would expect of
it, and no others: a row stays in `delivering` when its job dies or its verdict cannot
be written (`SettledUnlessStranded`); an execute attempt repeated after its increment
counts its task twice, the counter may pass the total, and the message is not answered
(`AnsweredUnlessLapsed`); an approve handler lost after its compare-and-set is repeated
by nobody, a plan made anew with another number of tasks leaves two stored plans, so that
tasks may be started from the one and counted against the other, and a respond job may
use up its attempts: each takes the answer from the workflow it strikes, and from no
other (`ApprovedIsAnswered`); passes that take in at the same time exceed the limit
(`ActiveTasksBounded`); a configuration saved while a command is at work is overwritten
(`CommandKeepsConfig`); a job that stalls between reading the clock and its UPDATE sets
`next_run_at` back (`TwiceIsExplained`); two invocations at work on one issue may both
create a pipeline, and write a stage over one they have not read (`OnePipelinePerIssue`,
`ApprovedIsChecked`).

### Bounds

* Attempts are 2 where the code has 5 or 25 (3 for execute jobs): a first, a repeated
  and a last attempt are all the code tells apart, and 2 has them (the second is the
  repeated and the last; the first and the last coincide with a limit of 1).
* Faults are counted and bounded because each is a branch of every step. One fault per
  behaviour reaches every place a single attempt can be lost; two reach a lost retry.
* Two delivery jobs and three rows, for claims that split the rows and leave some.
* Two workflows and two clicks: a race needs two. Plans of 2 tasks (and 3 in
  `fan_out`) leave some tasks inserted and some not; plans of 1 and of 2 tasks are the
  sizes a retried plan may differ in, in either order. Two faults are what it takes to
  use up a respond job of 2 attempts, or to lose a handler and repeat the plan.
* `fan_out`, `approval` and `schedule` leave out some combinations of cases, with a
  constraint named `MCBound` in their MC modules: a plan made again together with a third
  task, a second fault or repeated execute jobs; a second workflow with two tasks, or one
  that still takes part in the conversation when a second fault strikes; creators that
  meet after the first schedule is due, and the cancelling of one of the schedules. A
  behaviour that leaves the constraint is not judged. In `approval` and `schedule` the
  constraint cuts off only steps that nobody is bound to take, or one outcome of several;
  in `fan_out` it also cuts off second attempts of the plan and synthesize jobs that come
  with more faults, tasks or repeated execute jobs than it allows, so liveness says
  nothing of those. The safety properties are proved without it.
* Two schedules and a tick that takes one leave one behind; two jobs overtake each other
  on one schedule; the clock's times 0, 1 and 2 make a job late by a whole occurrence.
  With two rows the quota of 1 is passed by overlapping statements as far as it can be;
  how far more of them could pass it is not reached.
* Two stories have a first, a last, and one that is both (a plan of one). Two faults
  repeat a turn twice, or two turns once. `MaxPipelines = 2` leaves room for a second
  pipeline of an issue; `MaxCounted` is above what two faults can add. Two invocations
  and two issues overlap on different issues and meet on one; `dev_router` does not look
  beyond a meeting (`MCUncontended`), since of that issue the properties say nothing
  more, and what another invocation does to the other issue the proofs cover.
* `inbox`: one thread is enough, since threads share nothing but the configuration and
  `seen`; two workflows collide on a turn, two tries of `AddTurn` exhaust them; one
  wait ages an entry of `seen` or the participation; `all_messages` is the only mode
  people set, since a channel without a row is `mention_only`.
* `tool_calls`: two jobs disturb each other; two iterations of one call each make a
  call that follows another; one outage and one fault meet in every order. The model's
  loop is bounded by `MaxIterations`, which is 10 in the code.
* `runner`: the workflows have two phases, one pair with an approval and a gate between
  them, the other with neither. A limit of one active task makes the two issues
  compete; four rows hold a job that waits beside one that is followed. Costs are 1,
  the estimate, with limits of a job and of a day that let one phase through and stop the
  next; the limit of a task lets all of them through, so that it does not hide the other
  two.
* In `Approval` the bypass stands for every way a workflow answers without a plan.

### Fairness

Workers' own steps are weakly fair: River runs available jobs and a running one goes
on until it ends or a fault strikes. Handlers that have begun go on. Faults, users'
clicks, Slack's answers and administrative discards have no fairness: nothing makes
them happen. In `DevRouter` a turn that has begun goes on, and invocations are strongly
fair to every issue and pipeline: one without a pipeline id polls every issue and
takes a turn on every pipeline that is not terminal, and `dev-router` is meant to be
run again and again. In `Schedule` the tick comes again and again; its insertion is
strongly fair, because the model gives River a bounded number of jobs that other ticks
may take in between. A job's own steps, the reading of the clock included, are weakly
fair. No other strong fairness is assumed.
In `ToolCalls` each attempt's own steps, with the answers of the model and the server
they wait for (both have timeouts in the code), are weakly fair. `Inbox` and `Runner`
state no fairness and no liveness: what must not get lost is a safety property there
(`NoMessageDropped`, `NoTaskLost`).

## Proofs

Every invariant that a run shows to hold, and the one action property, is a theorem. TLAPS
checks them for every value of the constants that satisfies the named assumptions,
and without bounds on rows, jobs, messages, attempts or faults. Each proof module has
the same shape: the parts of the invariant with what they mean, `Init => IInv`, one lemma
or step per action, and under it one per part that the action disturbs; the theorems
follow from the invariant. The strengthened invariants were model-checked on the
instances of the runs before they were proved.

* `OutboxProofs`: `TypeCorrect`, `ClaimsAreExclusive`, `RetriesAreBounded`,
  `DuplicatesAreExplained`, `VerdictsAreHonest`, `VerdictsAreFinal`. The unconditional
  UPDATEs of `deliver.go` are right only because the claim moved the row out of
  `pending`. The invariant therefore says who holds which row (`CurHeld`,
  `ExclusiveClaim`), that what the holder remembers is the row's own count
  (`SnapshotFresh`), and where each post is accounted for (`PostsAccounted`).
  `RetriesAreBounded` and `VerdictsAreFinal` state what only the proofs check
  (`RetryBudget`, `SettledIsFinal`).
* `FanOutProofs`: `TypeCorrect`, `AnswersHaveACause`, `TheJoinIsExact`,
  `WorkflowsDoWhatFanInDoes`. In two layers. Whatever is repeated, the counter meets
  `total_tasks` once for each `SetTotalTasks` (`JoinInv`: it only grows, and is below the
  total as long as a join may still come), and each answer given or still possible is
  paid for by the message or by a fault (`AnswerInv`). Until an attempt is repeated past
  its last write (`OnceInv`), one attempt of the plan owns all execute jobs, each counted
  once, so the counter is the cardinality of `Counted` and the join sees every output.
  The refinement follows: every step is one of `FanIn`'s or a stutter, a late fault its
  `Lapse`.
* `ApprovalProofs`: `TypeCorrect`, `QuestionsAreDecidedOnce`,
  `ApprovalGuardsExecution`, `CompletionIsFinal`. The invariant adds what attempts and
  handlers hold in memory: a plan that inserts its own jobs did not read the config
  (`PlanInHand`), a handler about to insert has won the compare-and-set for the
  workflow it inserts for (`ClickInHand`), a job River will start has an attempt left
  (`AttemptLeft`).
* `ScheduleProofs`: `TypeCorrect`, `QuotaIsKept`, `RepetitionsAreExplained`. An
  occurrence is a schedule with the `next_run_at` it was found at. What a job computes
  lies after its own occurrence, so its `MarkRun` moves `next_run_at` past it; what was
  marked is not found again unless the UPDATE of another job, which read the clock
  earlier, set `next_run_at` back (`JobsInHand`, `SentIsMarked`); a second holder was
  found then, or while the first had it unmarked (`HoldersExplained`). For the quota,
  each statement under way that found room has its row reserved (`RoomIsCounted`).
* `InboxProofs`: `TypeCorrect`, `WhatIsSaidIsRemembered`, `RepeatsHaveACause`,
  `EventsStartOnce`, `MessagesAreAccountedFor`, `TakesPartByInvitation`,
  `TurnsAreInserted`. Nothing of a workflow exists downstream of its goroutine
  (`FlowInv`), so what the goroutine has settled, the thread, the conversation and the
  turn, is settled for its jobs; a job carries only an answer that the history has
  (`JobInv`); while the goroutine may still insert the receive job, the workflow's jobs
  and replies are all lost attempts' (`RepeatInv`); each thing that lets the bot speak
  goes back to an invitation (`InvitedInv`).
* `ToolCallsProofs`: `TypeCorrect`, `ExpiredSessionsAndTokensCostNoCall`,
  `CommandsKeepTheRest`. A call that has been done over for its session or token goes on
  with a valid one until somebody disturbs it (`SessionInv`, `TokenInv`); that the
  refresh token stored is the last one granted rests on the refresher's mutex
  (`MutexInv`, `GrantInv`).
* `DevRouterProofs`: `TypesAreKept`, `TypeCorrect`, `PollingIsIdempotent` and
  `ApprovalIsEarned`, for any number of invocations that overlap. Two that come to work
  on one issue are remembered in `contended` (`Alone`), so that on every other issue a
  turn has only itself to reckon with: a statement of a turn is on the turn's own
  pipeline and leaves every other row as it is (`TurnGoesOn`). The invariant says what an
  undisturbed turn has in hand at each statement (`TurnInv`: its snapshot is the row),
  and what a row promises in each stage, so that a lost turn leaves one the next can go
  on from (`PlanInv`, `CountInv`).
* `RunnerProofs`: `TypeCorrect`, `TheBoardIsLimited`, `IssuesAreWorkedOnce`,
  `TasksAreKept`, `PeopleAreAsked`, `TheBudgetHolds`. Rows of `job` change in five ways
  only (`Restated`, `Retried`, `Freed`, `Followed`, `Taken`), and each part of the
  invariant is shown to be kept by each way. The room a pass found counts as taken
  (`BoardInv`); an issue stays a duplicate as long as a row of it lives, and the unique
  row of its first phase is alone until that phase is done (`ChainInv`); each phase
  under way reserves the greatest cost, and a job that was spent on beyond its limit is
  not started again (`MoneyInv`).

The assumptions are those of the modules (`OutboxAssumption`, `FanOutAssumption`,
`ApprovalAssumption`, `ScheduleAssumption`, `RepliesAssumption`, `InboxAssumption`,
`ToolCallsAssumption`, `DevRouterAssumption`, `RunnerAssumption`), which TLC evaluates in
every run: limits are numbers, workflows have phases, placeholders are no members of the
sets they stand beside, and the sets that are counted (rows of a queue, creators, passes)
are finite.

### Only model-checked

Liveness, which is beyond the prover: `SettledUnlessStranded`, `AnsweredUnlessLapsed`,
`ApprovedIsAnswered`, `DueIsPosted`, `AttemptsEnd`, `IssueComesToDecision`, and of
`ImplementsFanIn` the fairness of `FanIn`. And the counterexamples of the three runs that
expect a violation, `RetryIsSafe`, `NoDoubleSend` and `AwayUntilMentioned`, which are
statements of the documentation that the code does not keep.

## Findings

Three places where the repository's documentation and its code part ways are shown by
the three violation runs and listed in `PROJECT.json` under `findings`. None is needed
for the properties that hold.

## Plan

1. Done: `Outbox`, `FanIn`/`FanOut`, `Approval`, `Schedule`, `DevRouter`, `Replies`,
   `ChannelConfig`, `Inbox`, `ToolCalls`, `Runner`, and the theorems above, one for every
   safety property of the runs.
2. More to prove: action properties of what is never taken back (the history of a
   thread, a completed workflow), as `SettledIsFinal` and
   `CompletedIsFinal` are; what a queue promises, as an abstract specification that
   `Runner`'s chains implement; what remains true of an issue of `DevRouter` on which
   invocations have met, beyond the types.

## Not modelled

* Groom and the scheduler of the runner: `groomProject` reads the state files that the
  agent itself writes, picks an issue and starts the agent again; the state changes
  happen in the agent, not in this code.
* The table of `sqlite/task_store.go`: nothing inserts into it.
* Authentication, the Slack client's conversions, mrkdwn, URLs, prompts, recipes'
  texts, the serve UI, listings, the setup wizard, the Dagger pipeline, migrations and
  telemetry: conversions and I/O without shared state.
* The user cache (`user/store.go`): a stale entry changes a name or a zone in a prompt.
* The order and the LIMIT of the history a process job reads (`GetThreadMessages`
  orders by `created_at`, of equal times in no order).
* What becomes of an issue on which two invocations of `dev-router` have met: nothing
  keeps them apart, a stage read before another's turn is written over it, and beyond the
  types nothing is claimed.
* The order in which the bot's parts are shut down: a shutdown is a restart.
