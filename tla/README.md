# A TLA+ model of Regent

Regent (`src/`) is a Python system that delivers generated applications and produces serial fiction and short-drama
scripts with language models.  Its core keeps every long-running piece of work in
PostgreSQL, so that a worker may die at any point, a model call may take minutes
or be lost, and a user may intervene while a chapter is being written.  This
project models the parts whose correctness rests on the order in which such
things happen.  Paths below are relative to `src/core/src/regent/`.

## Inventory

| Component | State | Operations | What is hard | What makes it correct |
|---|---|---|---|---|
| Model call broker `novel/application/production.py` | a row per (logical call, attempt): status, lease, request id, reconciliation count | prepare, settle, mark unknown, reuse, reap, reconcile, recovery sweep | a call outlives its lease; workers and sweeps read, wait and write; ORM writes check no version | one open attempt, one ticket holder, priced attempts billed, everything closed in the end |
| Quota and cost ledger `novel/application/ledger.py` | reservations, append-only entries | reserve, consume, top up, release, outstanding | late second settlements, idempotency by key, parallel reservations | hold once, split once, one top-up, the chapter's ceiling |
| Chapter runs `novel/application/works_*.py`, `decisions.py` | work state, run state, lease and fencing token, input version, steps, decisions | claim and advance a step, pause, resume, authorize budget, guide, resolve a decision, timer sweep | the session commits in the middle of a step; users and the decision timer write the same rows | a stale execution changes nothing, one winner per decision, no state without an exit |
| Outbox `runtime/dispatcher.py`, `application/outbox_dead_letter_service.py` | events: status, lease, attempts | insert with a business change, claim, ack, fail, dead-letter, replay | handlers run on after their lease, or kill their worker | every event handled or kept as a dead letter, never finished unhandled |
| Timers `runtime/timers.py` | timers: status, lease | schedule, claim a batch, fire with an event, cancel | a death or a late fire in the middle of a batch | a timer and its event are one |
| Worker leases and loop `runtime/worker_leases.py`, `worker/main.py` | a lease per process | acquire, heartbeat, release, serve | one loop runs everything, long work blocks the heartbeat | everything claimed is taken up again |
| Permits `application/permit_service.py` | permit: status, validity | request, decide, claim, consume, revoke, expire | revocation and expiry against use | used at most once, never after its end |
| External operations `application/external_operation_service.py`, `reconciliation_worker.py` | operation: status, permit, external id, deadline | prepare, dispatch, report, stale scan, resolve | late answers, unlocked scans, a call that raised after its effect | one dispatch per permit, first report wins, success never invented, an end |
| Preview deployments `application/release_service.py` | deployment: status, operation, permit | request, execute, retry under a new key | redelivered executions, a crash between any two transactions | no effect without a dispatch of its own |
| Scheduler `application/scheduler_service.py` | queue entries, quotas, reservations, ledger | schedule, release, preempt, checkpoint, resume | preemption in two steps, limits lowered below what is held | held = sum of reservations, all or nothing, no starvation |
| Budget ledger `application/budget_ledger.py` | account, reservations per turn and epoch, entries | reserve, claim, settle, release, record | overlapping executions of one turn, unchecked conditional updates | one live hold per turn, account = rows, the limit |
| Run execution `application/transition_service.py`, `execution_service.py`, `run_advancement.py` | goal, works, runs: status and version | transition, execute, reclaim, operator commands | a chain of transactions, overtaken by the reclaim of a live run | one execution per work, achieved exactly when complete |
| Delivery `application/execution_orchestrator.py`, `delivery_gap_recovery.py`, `research_more_recovery.py` | goal's status and metadata, discovery rounds, plans | one handler per event of the pipeline, recovery after a gap, direction by a person | overlapping passes, handlers with several transactions, halts that leave nothing outstanding | accepted before achieved, achieved for good, never stuck |
| Watchdog `application/delivery_progress_watchdog.py` | counts in the goal's metadata | nudge, pause | acts on goals others act on | a goal nobody acts on is brought on or stopped |
| Human tasks `application/human_task_service.py` | task status, answer, completion events | create, complete, time out | completion against timeout | silence approves nothing |
| Side-effect attempts, agent tasks, continuation, agent runtime, HTTP API, chapter prompts | - | - | - | left out, see the end |

How they interact: the API and the worker share one database.  `worker/main.py`
runs a loop that fires timers, times out human tasks, runs a reconciliation tick, the watchdog and the
scheduler, advances one background chapter run, dispatches the outbox and sends its heartbeat; every 30 seconds it runs the recovery of
model calls and the decision sweep.  Advancing a run makes model calls through the broker, which
works in transactions of its own on a second connection, so its state is visible
to every process before the chapter's own transaction commits.  A timer, a completed task and every
step of the delivery reach the orchestrator as outbox events, at least once each; the delivery's deployment
goes through a permit and an external operation, and its agent runs through the budget ledger.

## Modules

| Module | What it is |
|---|---|
| `QuotaLedger` | abstract specification: what a reservation key may go through |
| `QuotaLedgerProofs` | its invariant, proved |
| `ModelCalls` | the broker, the ledger and the recovery sweep |
| `MCModelCalls` | constants for TLC |
| `ModelCallsProofs` | inductive invariants, safety theorems, and that the broker implements `QuotaLedger` |
| `SumsProofs` | lemmas about sums over finite sets, for the books of the components |
| `ChapterRuns` | a chapter run: executions, the user, decisions and their timer |
| `ChapterFence` | the same with one history variable: what the fencing token is good for |
| `MCChapterRuns`, `MCChapterFence` | constants for TLC |
| `ChapterRunsProofs` | inductive invariants and safety theorems |
| `EventQueue` | abstract specification: what the outbox promises |
| `Outbox`, `Timers` | the dispatcher and the durable timers |
| `WorkerLoop` | composes both under the loop of the worker and its lease |
| `MCWorkerLoop` | constants for TLC |
| `Permits`, `ExternalOperations` | permits; operations over them, with the sweep |
| `Releases` | composes both under the deployment of a preview |
| `MCReleases` | constants for TLC |
| `Scheduler`, `MCScheduler` | scheduling, quotas, preemption, resume |
| `Budget`, `MCBudget` | the hard budget of a goal and the agent runs that spend it |
| `WorkExecution`, `MCWorkExecution` | transitions, execute, reclaim |
| `Delivery`, `MCDelivery` | the pipeline of one goal, its people, timeouts and watchdog |
| `CoreProofs` | proofs about the scheduler, the budget and the execution of works |
| `RuntimeProofs` | proofs about the outbox, the timers and the worker loop |
| `ReleasesProofs` | proofs about permits, operations and deployments |
| `DeliveryProofs` | proofs about the end of a goal |
### ModelCalls

`att[c]` is the sequence of attempts of a logical call.  One record stands for the
`ModelCallModel` row, its `QuotaReservationModel` row and its cost entries, which
carry the same key `id:attempt`; the code writes them in one transaction.
`chapter` is the committed checkpoint (`generation_context.production`: the
committed cost and the calls that need not be made again).  `worker[w]` is the
local state of an execution of `CallBroker.run`: the checkpoint it read, the attempt it read or
holds the ticket of.  `sweeper[s]` is a process inside `recover_novel_calls`.

| Code | Action |
|---|---|
| `_prepare`, what is decided from the row read (refuse, reuse, go on) | `StartCall` |
| `_prepare`, its commit under the work's lock and the unique keys | `Reserve`, `ReserveFails` |
| answer, `_settle`, `_finalize`, `consume`, `_top_up`, `release` | `Settle` |
| exception, `_mark_unknown` | `CallRaises` |
| `_call` after the broker: the production document saved whole | `SaveCheckpoint` |
| `reclaim_expired_calls`: select, then write and commit | `ReclaimRead`, `ReclaimCommit` |
| scan of UNKNOWN rows; `reconcile` of one; the exception it lets out | `ScanUnknown`, `Reconcile`, `SweepAborts`, `SweepEnds` |
| the process dies | `Crash`, `SweepCrashes` |
| `lease_expires_at` passes | `LeaseExpires` |

The reads and writes of `_prepare`, of the reclaim and of the sweep are steps of
their own because the database runs at READ COMMITTED and ORM updates check no
row version.  A scanned row keeps, in the session of the sweep, the values it
had when it was scanned (`Remembered`); this is how two sweeps can count one reconciliation
once, or settle what another has settled.  A worker may answer or raise at any time
after its reservation, also when its lease has ended: nothing in `_settle` and
`_mark_unknown` looks at the lease or the status.

Abstractions: the grace period before reconciliation is zero and the scan has no
limit, so the model lets a sweep see rows earlier than the code does; the order of
the scanned rows is open; hashes of inputs are left out (a mismatch is refused
before anything is written); `run_batch` is its calls one by one, each by a worker
of its own; token counts are replaced by a cost from `Costs`; the chapter's cap
does not change.  `MaxAttempts` bounds the attempts of a call; the code
has no such bound.

`Ledger` maps the broker to `QuotaLedger`: a key is free until its attempt exists, held while its
reservation is RESERVED, then settled, with the CONSUME entry, the RELEASE entry and the
top-up as its billed, returned and extra amounts.

### ChapterRuns

`work` is the state of the work, `run` the row of its chapter run (state, lease, token,
input version, automatic mode, and of `generation_context` what others write too),
`steps` its step rows, `decision` the decision requests.  `exec[w]` is what the session of an execution remembers:
`expire_on_commit=False`, so it keeps what it read at the claim, and it writes a column only when
its own value changes (`Put`), whatever the row holds by then.  `timer` is what the
decision sweep has read, `refused` whether the recovery of model calls, which shares its tick, raises for good.

| Code | Action |
|---|---|
| `advance_background_run`, `POST .../advance`, up to the commit before the first call | `AdvanceBackground`, `AdvanceRequest` through `Call` |
| a tick that makes no call, one transaction | the same, through `Tick` |
| commit before a further call of the tick | `CallAgain` |
| the tick is over: `_stale_reason`, then the outcome or the discard | `Return` |
| the director asks the user (`create_decision`) and the tick ends | `RequestDecision` |
| the call raises: `_stale_reason`; then the failure is written | `CallFails`, `RecordFailure` |
| outcomes: progress or review, success, `BudgetExhausted`, other failures | `Partial`, `Complete`, `Exhausted`, `Broken` |
| `pause_work`, `resume_work`, `authorize_budget`, `submit_guidance`, `set_auto_advance`, `update_critical_path` | `Pause`, `Resume`, `AuthorizeBudget`, `SubmitGuidance`, `SetAutoAdvance`, `UpdatePath` |
| `apply_decision` by the user; by the sweep | `ResolveDecision`; `SweepRead`, `SweepApply` |
| `_novel_recovery_tick` raises before the sweep | `RecoveryRefused` |
| a process dies; `lease_expires_at` passes | `Crash`, `SweepCrashes`; `LeaseExpires` |

A successful tick has changed the document, so the query of `_stale_reason`
flushes it and locks the row: check and outcome are one step.  A failed call has changed nothing, so
its check locks nothing, and check and failure are two steps.  Requests of users are short
transactions and one step each.

Abstractions: the document is the input version its draft was made for, the answers
not yet consumed, and whether a grant and a budget pause are in it; the order of steps is that of the directed executors; whether
an answer is consumed, a step completed or a call made is open; the chapter is not the last one and continuation is off,
so nothing follows CANON; the commit of an early return (a claim refused, a request refused) changes nothing.
`MaxClaims` and `MaxChanges` bound the claims and the user's changes.

The two modules meet at the model call: `Call` to `Return` of `ChapterRuns` is a sequence of calls of
`ModelCalls`, whose `SaveCheckpoint` is the write of the document here.  They are checked apart, each with the
other's steps left open.

### Outbox, Timers, WorkerLoop

`event[e]` is a row of `outbox_events` (status, due, owner and liveness of the lease, attempts), `run[w][e]` where a
worker's handler of it stands; `timer[t]` is a row of `durable_timers`, `batch[w]` what the tick of a
worker has claimed; `pc[w]` and `wlease[w]` are the loop of the process in a container and its lease.

| Code | Action |
|---|---|
| a business transaction inserts the event | `Emit` (in `Fire`: with the timer) |
| `claim`, the handler, `ack`, `fail` | `Claim`, `HandlerEnds`, `Ack`, `Fail` through `TakeEvents`, `Handle`, `Record` |
| `OutboxDeadLetterService.replay` | `Replay` |
| `schedule`, `cancel`, `dispatch_due`, `fire`, its LEASE_LOST | `Schedule`, `Cancel`, `TakeTimers`, `FireOne`, `FireFails` |
| `acquire`, `heartbeat`, the end of `serve`, a crash | `Start`, `Beat`, `Stop`, `Crash` |
| leases, delays and due times by the database's clock | `LeaseEnds`, `BackoffEnds`, `BecomesDue`, `TimerLeaseEnds`, `WorkerLeaseEnds` |

`claim` reclaims a DISPATCHING row whose lease has ended without looking at its attempts, and `ack`
finishes whatever is DISPATCHING when it no longer owns it; both are in the actions as they are.  A worker id is new for every
process (`worker/main.py:365`) and the container is restarted (`--restart unless-stopped`), which is why
a worker here is a slot that is filled again.  `DurableTimerService.fail` has no caller.

### Permits, ExternalOperations, Releases

`permit[p]` is a permit row, `op[o]` an operation row with its age towards the stale timeout and the deadline, `sweep` the
tick of the reconciliation worker between its reads and writes.  `exec[x]` is an execution of
`ReleaseService.execute` between two of its transactions, `deployment` its row, `provider` whether
the deployment has taken effect.

| Code | Action |
|---|---|
| `request`, `approve`/`deny`, `revoke`, `expire_due` | `Request`, `Decide`, `Revoke`, `ExpireDue` |
| `claim`, `prepare`, `begin_dispatch` (with `consume`) in `execute` | `Claim`, `PrepareOne`, `Dispatch` |
| what `execute` does by the operation's status; the retry with a new key | `LookOpen`, `LookSucceeded`, `Remint`, `Save` |
| the provider's call, `mark_*`, `_commit_result` | `Deploy`, `MarkResult`, `Commit` |
| `reconcile_stale_unknowns`: read, write; the query of each row; `resolve_reconcile` | `SweepReads`, `SweepWrites`, `SweepAsks`, `SweepResolves` |
| an execution or a tick dies | `Crash` (`SweepDies`) |

`delegate`, `begin_reconcile`, `reconcile_specific`, and the service's `reconcile` and `rollback` have no caller.

### Scheduler

`entry`, `quota`, `holds`, `ledger` are the rows of the queue, the quotas, the HELD reservations and the budget
ledger; `preempting` are entries a preemption has locked and looked at, `dispatching` those whose goal has an
operation under dispatch.  `ScheduleOnce`, `Release`, `SaveCheckpoint`, `Resume` and `SetLimit` are one
transaction each under the locks the code takes.  `preempt` is `PreemptLooks` and `PreemptEnds`, since its look at the
operations takes no lock.  The order by aging score is a relation `Outranks` of entries that no wait can reorder;
the other pairs may come in either order.

### Budget

`row[t][n]` is the reservation of epoch n of a turn (the keys `k`, `k#r2`, ... of the code), `account` the
goal's account, `agent[x]` an execution of the agent runner.  `Resolve` and `Hold` are the two parts of
`reserve` (a read before the lock, the insert under it); `Claim`, `Call`, `Settle`, `ReleaseHold` follow the
runner; `RecordCost` is the orchestrator's record beside the account; `AgentDies` leaves a hold behind (`left`).

Amounts are Float columns in the code and natural numbers here: units that a rounding error is small against.  Such an
error matters where equal amounts are compared, in the condition `reserved_amount >= amount` of a settlement and
of a release, whose row count nobody looks at.  `account.rounded` says that what is reserved has been computed from several holds;
the last of them may then be found larger than what is left, and the update misses (`Misses`): the row is over,
the account is not changed.  `GiveBack` is whether the update applies, `Less` what it writes.

### WorkExecution

The three tables of `domain/transitions.py` are operators; every transition compares the version that was read.
`execute` is the chain `Begin`, `ActivateGoal`, `ReadyWork`, `CreateRun`, `StartWork`, `AdvanceRun`, `CallModels`,
`Finish` or `Fail`, `LookComplete`, `Achieve`, each a transaction with anything in between.  `ReclaimReads` and
`ReclaimAdvances` are the worker's `reclaim_stale_created_runs`, `Operate` the transitions of `POST /goals/{id}/transitions`.

### Delivery

`due` is the set of events not yet acknowledged, `goal` the goal's row with the part of its metadata that
handlers test (stage, `ops_soft_pause`, whether it has been through generation), `round` and `plan` the discovery
round and the capability plan of a pass, `task` the approvals, `crowded` whether forty goals that have waited longer fill the watchdog's scan.
A pass is one run of the pipeline; the watchdog and directions start further ones while an earlier one may live.

| Code | Action |
|---|---|
| `handle_goal_execution`, the bypass to generation | `Execute` |
| `handle_discovery_round_requested`, `handle_discovery_completed`, `ResearchMoreRecoveryService` | `Discover`, `Selected`, `Undecided` |
| requirement, capability resolution, its satisfaction | `Require`, `Resolve`, `Satisfied` |
| `handle_generation_run_requested`: the test of the pause; the rest | `GenerateBegins`, `GenerateEnds` |
| snapshot with the compliance gate, dependencies, build | `Snapshot`, `Depend`, `Build` |
| `handle_preview_deployment_requested`, `handle_release_approval_completed` | `DeployBegins`, `DeployAsks`, `DeployApproves`, `DeployEnds`; `Released`, `Refused` |
| `handle_preview_deployment_succeeded`, `_continue_or_advance_milestone` | `ReviewFails`, `ReviewShows`, `ReviewRaises`, `ReviewConcludes` |
| `handle_quality_approval_completed`: read and resume; achieve | `AcceptBegins`, `AcceptEnds`, `Reject` |
| `HumanTaskService.complete`; `timeout_due`: read, write | `Answer`; `TimeoutReads`, `TimeoutWrites` |
| `resume_after_human`; `abort` | `Direct`; `Pause` |
| `tick_stale_delivery_progress`; the goals its scan takes | `WatchNudges`, `WatchPauses`; `Crowd` |
| `fail` of the dispatcher until the attempts are used up; a worker's death | `DeadLetter`, `Dies` |

What a step computes (the round's choice, the plan's status, a failed build, a verdict of the gates) is its
outcome, left open.  A handler is several steps where another handler can change what it has tested;
otherwise one, followed by its acknowledgement or by a death before it, after which it runs again.  The goal's version is left
out: a transition that meets another version raises a retryable error, and the attempt is as if it had not
begun.  `handle_timer_fired` is left out with its timers: it acts on a goal that waits for evidence, and no goal does, because the
transaction that would make it wait raises (`ReviewRaises`, see below).  A pass is reused when nothing of it is left, a task when its answer has been dealt with.  The settings are the defaults:
the exit of the agent loop is enforced, so that a gap pauses the goal and recovery by escalation does not run; the preference is not
`aggressive`, so that timeouts refuse; `profile` has the choices among soft gates, hard gates and direct
generation.  The watchdog's read and write-back of the metadata are one step, the goal has a project, and the cap on concurrent generations, the
host guard, the session's epoch fence (each refuses an attempt that comes again) and
`reclaim_generating_zombies` are left out.

## Runs

| Run | Expect | Properties | Shows |
|---|---|---|---|
| `calls` | pass | `OneOpenAttempt`, `TicketsDistinct`, `BilledWhenPriced`, `ImplementsLedger`, `ReservedIsResolved`, `UnknownIsReconciled` | Two workers and a sweeper on one logical call with two attempts, two reconciliations, costs below and above the reservation and a provider that can be looked up: no overlap of a late answer, a crash and a sweep breaks the attempt discipline, the broker implements the abstract ledger, an attempt left RESERVED is reclaimed, and the latest UNKNOWN attempt is reconciled within the bound unless the ledger refuses its settlement. |
| `calls_chapter` | pass | `CeilingHeld`, `CommittedIsRecorded` | Two calls of one chapter under a ceiling that holds one and a half of them: concurrent reservations stay under it, and the chapter's spent total is always backed by ledger entries. |
| `calls_dangling` | violation | `NoDanglingHold` | A retry of an UNKNOWN call without a request id writes the old attempt off as FAILED and leaves its reservation open for good. |
| `chapter_fenced` | pass | `OneHolder`, `DoneStaysDone` | Two executions of a five-step chapter with three claims, a decision and a change of direction: until a failure recorded after the lease was lost has kept the lease, one execution at most can still record an outcome, and what was done is undone by a review only, or by such a failure of the very step. Behaviours are not followed beyond that point. |
| `chapter_live` | pass | `WaitHasDecision`, `OutcomeIsCurrent`, `WaitEnds`, `RunAdvances` | The five-step chapter with two claims under the fairness of the worker loop and the timer: nobody waits for a decision that has been taken, no step is done for an old direction, waits end unless the recovery of model calls raises at every tick before the decisions are read, and a run left behind is claimed again. |
| `chapter_stale` | violation | `StaleResultDiscarded` | The result of an execution that has lost its lease reaches the document of the run although it is announced as discarded. |
| `runtime` | pass | `AttemptsCapped`, `FiredIffEvent`, `FailureIsOwn`, `ImplementsQueue`, `EventEnds`, `TimerFires` | Two workers, a business event and a timer with its event, two attempts and two faults (a death, a handler that outlives its lease, a replay): the outbox implements the abstract queue, attempts are capped, a timer and its event are one, and everything ends. |
| `release` | pass | `EffectUnderDispatch`, `SuccessIsReal`, `OnlySweepReopens`, `OperationEnds` | Two executions of one deployment that may be retried once under a new key, a sweep, revocations, expiry and a crash: no effect without a dispatch that consumed its own permit, no invented success, and every dispatched operation ends. |
| `scheduler` | pass | `HeldIsReserved`, `HoldsTwiceOnlyResumed`, `HoldsAllOrNone`, `FittingIsScheduled` | Three entries over two resources with limits that are lowered and raised, preemptions in two steps, releases, checkpoints and resumes: the amounts held are the reservations, decisions are all or nothing, and what fits is not passed over forever by what it outranks. |
| `budget` | pass | `OneLiveHold`, `AccountIsHolds`, `HardBudget`, `HoldEnds` | Two executions of two turns with two epochs each, costs above and below the estimate, a crash, a cost recorded beside the account, and a rounding error whenever holds have been added up: one live hold per turn, an account that agrees with its rows but for one hold whose update missed, and a limit that is kept. |
| `execution` | pass | `OneExecution`, `AchievedIsComplete`, `WorkEnds`, `CompleteIsAchieved` | Two calls of execute over two works with the reclaim of the worker, operator commands and a crash: one execution of a work asks the models, a goal is achieved exactly when its works are accepted, and works that were started end. |
| `delivery` | pass | `AchievedIsAccepted`, `AchievedStays`, `Settles`, `ApprovalIsActedOn` | One goal with two overlapping passes and an approval task, each behaviour with one budget of nudges, rounds, milestones, acts of a person, a crowd of other goals, or a fault with a late answer: no silence achieves the goal, an achieved goal is not taken up again, a goal ends, pauses or waits for a person unless older goals keep it out of the watchdog's scans again and again, and an approval is carried out. |

ModelCalls bounds: two workers are needed for every race on one call (two tickets, a late
answer beside a retry), one sweeper suffices beside them because a sweep
that crashes and starts again overlaps with its own earlier effects; two
attempts per call are the first and the one that follows it; a limit of two
reconciliations has one that counts and one that ends.  Reservations are 2 and costs 1
to 3, below, at and above.  Two calls and a ceiling of 3 let one reservation
in and refuse the second, and let a cheap first call make room.

Fairness of `ModelCalls` (`calls`): clocks advance
(`LeaseExpires`), and the worker loop calls the sweep every 30 seconds, catches its
exceptions and is restarted.  A sweep may crash at any step, so its steps have
strong fairness: a restarted process does not die at the same step for
ever.  Nothing is assumed of the executions: a call may never answer.  No single row is
promised a turn, only that a sweep goes on while rows are left.

ChapterRuns bounds: two executions are an old and a new one; three claims are a first
execution, one that takes over and one after a late outcome, and reach the third failed attempt; one
decision is asked, answered by the user or the timer; the input version is driven from 1 to 2
by the user, and further by an answer.  `Chapter_fenced` has all five steps of `director_v2`, declares the
executions symmetric (no liveness there) and does not follow a behaviour past the point where its
properties promise nothing any more (`Bounded`: a late failure has kept the lease), nor one in which the timer never
comes, which for them is one in which it comes later; `Chapter_live` has the same
steps and two claims, so that liveness can be checked in full.  `Init` begins at any of the steps, the earlier ones done.

Fairness of `FairSpec` (`Chapter_live`): workers poll for runs without end (weak
fairness of a claim by some of them), a lease expires, a model call is cut off by the provider's deadline,
so an execution that does not crash ends, and `_novel_recovery_tick` comes round every 30 seconds.  Whether that
tick reaches the decisions is not a matter of fairness: the recovery of model calls comes first in the same
`try`, and a call the ledger refuses raises there each time (`RecoveryRefused` sets `refused`, a guard of `SweepRead`).
`WaitEnds` promises nothing then.  That one read sweep in the end commits (strong
fairness) says the worker does not die at that point for ever.  Users are
assumed to do nothing.  `RunAdvances` ends where `MaxClaims` does.

WorkerLoop bounds (`runtime`): two workers, one of which takes over what the other left; the event of the timer and a
business event; two attempts are a failure and the dead letter after it; two faults are a death and a handler that outlives its
lease, or a replay.  A claim takes one event (`Concurrency` 1; the deployment's default is 2): the two workers
give the concurrency.  Fairness: every worker turns its loop (handlers return, a container is restarted), clocks
advance.  `TimerFires` excepts the timers that are stranded, see below.

Releases bounds (`release`): one deployment with its first key and one retry, so two operations and two permits; two
executions, an old one and one that was redelivered; one crash, which also covers the tick of the sweep.  Fairness: an execution that lives goes
on, the worker ticks, and time passes.

Scheduler bounds (`scheduler`): a large entry that outranks a small one, and one that asks for a single
resource, over two resources with limits of 1 and 2: each resource can be the one that does not fit.  Everything else is
unbounded there.  Fairness: the worker ticks; nothing is assumed of operators and releases.

Budget bounds (`budget`): two executions and two turns (two can share a turn, or hold beside each other),
two epochs, estimates and costs of 1 and 2 (below, equal, above), a limit of 2 that holds one of the larger or two of the smaller
(so sums are rounded, and a stuck hold fills half of it or all), a
crash and one cost beside the account.  Fairness: an execution goes on while it lives.

WorkExecution bounds (`execution`): two works of one goal without dependencies (so both may be the last), two calls of execute, two
runs per work, and one incident: a crash, or a command of the operator.  Fairness: calls go on, the worker reclaims.

Delivery bounds (`delivery`): two passes are needed for a pass that is overtaken by another; one task for one
approval at a time; two handlers at once (`Slots` 2, the default of the dispatcher).  What may happen only so often in the code
(nudges and rounds, each at most once here) and what the model bounds (milestones, acts of a person, crowds of other goals, late answers,
faults) are budgets: a behaviour has one of the six of `MCDelivery`, so that every pair in one of them, and each alone, meets all
interleavings; all together are out of TLC's reach.  Fairness: the dispatcher goes on, timeouts are applied and the
watchdog ticks, which the loop of the worker does in turn and a restart repeats; no single handler, task or goal is promised a turn beyond that.
The watchdog's scan takes the forty ACTIVE goals whose last transition is the oldest and skips paused ones only then, so its reaching this goal is a
guard (`~crowded` in `Stale`), and `Settles` speaks of behaviours in which the goal is crowded out no longer from some time on.  Nothing is
assumed of people.  `CHECK_DEADLOCK FALSE` in the runs: workers may be stopped, and finished work stays finished.

## What is proved

`ModelCallsProofs` holds for every value of the constants that
meets `CallsAssumption` (a finite set of calls, positive estimates and costs, a positive reconciliation
limit).

The invariants are not inductive by themselves.  `IInv` adds four things.  `RowsOK`: nothing is
booked on an open reservation; a closed one has its amount split exactly between
CONSUME and RELEASE, carries a top-up only when all of it was consumed, and covers the
actual cost.  `LengthOK`: attempts stay within the bound.  `WorkersOK`: the attempt an execution
remembers exists, and the one it decided to go past was not RESERVED, which no row
becomes again (this is why a stale read cannot open a second attempt: either
the read attempt is still the latest, and not RESERVED, or the unique keys
refuse the insert).  `SweepersOK`: the rows a sweep remembers exist.
`SettlementRefines` is the core of the refinement: a settlement is a
`Settle` of the ledger the first time, and nothing or `AddExtra` any later time.

| Theorem | Says |
|---|---|
| `ModelCallsProofs!OneOpenAttemptHolds` | Only the latest attempt of a logical call can be RESERVED. |
| `ModelCallsProofs!TicketsDistinctHolds` | No two executions hold the ticket of one attempt, for any number of workers. |
| `ModelCallsProofs!BilledWhenPricedHolds` | An attempt with an actual cost is closed and its entries cover the cost. |
| `ModelCallsProofs!CeilingIsHeld` | What is reserved for the open attempts of a chapter never exceeds its cap, however many workers reserve at once: a sum over all attempts. |
| `ModelCallsProofs!CommittedStaysRecorded` | The committed total of the chapter, which each worker adds to a copy of its own, never exceeds what the ledger's entries record, whatever dies between a settlement and the checkpoint. |
| `ModelCallsProofs!Refinement` | The broker with its crashes, late answers and overlapping sweeps implements the abstract quota ledger. |
| `QuotaLedgerProofs!LedgerConserves` | Every held amount is split exactly once into a billed and a returned part, and an extra cost is added only to a reservation that was used up. |
| `ChapterRunsProofs!WaitsHaveDecisions` | Neither the work nor its run is ever left waiting for a decision that has been taken, for any number of executions, decisions and claims. |
| `ChapterRunsProofs!OutcomesAreCurrent` | A step is completed only with a draft made for the input version that holds at that moment. |
| `ChapterRunsProofs!OneHolds` | No two executions pass the check of the lease, whatever crashes, expires and is claimed over, until a failure recorded after its lease was lost has kept the lease; the window of the failure path is part of the specification, and nothing but it can break this. |
| `ChapterRunsProofs!DoneStays` | Until then, a finished step is undone only by REVIEW, which sends the chapter back, or by the late failure of that very step. |
| `RuntimeProofs!AttemptsAreCapped` | An event is claimed at most max_attempts times, and once more for each fault, for any number of workers and events. |
| `RuntimeProofs!TimersFireOnce` | A timer is FIRED exactly when its event is inserted, whatever dies between claim and fire. |
| `RuntimeProofs!FailuresAreOwn` | Only the worker that holds the claim of an event records its failure. |
| `RuntimeProofs!OutboxIsQueue` | The outbox, under timers, crashes, overrun leases and replays, implements the abstract queue of events. |
| `ReleasesProofs!EffectsAreDispatched` | Nobody stands before the provider's call without a dispatched operation, whose permit is consumed and no other operation's. |
| `ReleasesProofs!SuccessesAreReal` | An operation, an execution or a deployment recorded as a success has taken effect at the provider, for any number of agents and crashes. |
| `ReleasesProofs!OnlySweepsReopen` | An operation that has ended is reopened by nothing but a sweep that had read it before. |
| `DeliveryProofs!AchievedByAcceptance` | A goal is achieved by a verified preview or by the approval of a person, never by silence, for any passes, tasks, slots and budgets. |
| `DeliveryProofs!AchievedForGood` | An achieved goal stays achieved, unless a workspace under way is found not to be compliant. |
| `CoreProofs!HeldStaysReserved` | What a quota says is held, and what the ledger says, is the sum of the reservations that are held, for any entries, resources and requests, whatever releases, preemptions and resumes have crossed. |
| `CoreProofs!TwiceOnlyAfterResume` | Nothing but a resume from a checkpoint lets an entry hold a resource twice. |
| `CoreProofs!DecisionsHoldAllOrNone` | What is held grows by decisions only: for one queued entry, in all its resources, within the limits of the moment. |
| `CoreProofs!TurnsHoldOnce` | A turn has one live hold at most, however its executions overlap, die and come back. |
| `CoreProofs!AccountStaysBalanced` | The account reserves the sum of the live holds and of one hold at most that is over but whose update missed by rounding, for any agents, turns and amounts; while nothing is recorded beside it, what its spent total lacks is bounded by that hold. |
| `CoreProofs!BudgetIsHard` | What was settled and what is held stay within the limit together. |
| `CoreProofs!WorksExecuteOnce` | Of any number of overlapping, overtaken and dying calls for a work one at most asks the models, and a verdict rests on exactly one executed run. |
| `CoreProofs!AchievedMeansComplete` | If no command from outside achieves the goal, it is achieved only with every work accepted, although the works are read before the goal is written. |

Every invariant and every action property of a passing run is stated by one of these theorems, and both refinements are.
Only model-checked: the liveness properties (fairness and ENABLED are out of the prover's reach), and the two runs that must find a violation.

Sums.  Four of the invariants relate a stored total to a sum over rows.  The models write such a sum with
`SumFunctionOnSet` of the community modules; `SumsProofs` shows of it what bookkeeping needs: it is an integer, or a natural number
if the summands are (`SumInt`, `SumNat`); no summand exceeds it (`SumElement`); it changes with one summand by the difference (`SumUpdate`);
it neglects what is zero (`SumSupport`, `SumZero`) and grows with its summands.  The induction over finite sets that these need
is done in first-order form, by the smallest counterexample that a well-founded order has: the theorems of the library that
take a predicate as a parameter cannot be used.

`CeilingIsHeld` follows from the check under the work's lock: a reservation is the only step that adds to
the sum over open keys, and it adds no more than the room left.  `CommittedStaysRecorded` needs `DocsOK`: what the
checkpoint, and each copy of it that an execution has read, counts is booked on attempts of the calls that the copy has
done (`Covered`), and an execution that was answered works on a call its copy lacks, with a cost that is booked on it (`Backed`).
Entries only grow (`SpentGrows`) and different calls have different entries, so the two add up when the copy is saved.

`CoreProofs` has three parts.

*Scheduler*, for any finite set of entries, any resources, requests and limits.  `SchedulerInv` is the books
(`HeldIsReserved`) and who may hold twice (`HoldsTwiceOnlyResumed`); the books of one resource are followed through a step by
`HeldFollows`.  `DecisionsHoldAllOrNone` goes through all other steps to show that none raises what is held.

*Budget*, for any agents, finite set of turns and bounds.  `OneLiveHold` is not inductive: an agent resolves the key of its
turn in one transaction and takes it in another.  `BudgetInv` adds that the epochs of a turn are taken in order (`InOrder`) and
that an agent about to take one knows the earlier ones to be over (`AgentsKnow`): a second agent can only have taken the same
key, which the insert refuses.  `Balanced` says what the account reserves: the sum over all rows (those over hold nothing, `RowsHold`) and what is stuck (`Stuck`), the
amount of one hold at most whose update missed.  A miss needs a hold that equals all that is reserved, so there is nothing stuck before it, and once something is
stuck every live hold is smaller than what is reserved: that is why there is no second.  Settlement moves a cost no greater than its
hold from what is reserved to what is spent, or nothing, which is why `HardBudget` bounds both together; in the code up to the
rounding errors themselves, which are not counted.

*Work execution*, for any works and agents.  `Knows` says what an execution may rely on at each of its places.  Before it has
started the work it has nothing but the version it read: if that is still the work's, so is the status, and no run was executed
meanwhile.  The start compares the version, and from then on the work is its own until it has a verdict, since no other
execution gets past that comparison (`Exclusive`), and the reclaim moves runs that have not been called yet, never a work.  `VerdictsRest` ties the
status of a work to its one executed run.  A work found accepted stays so, for no transition leads out of ACCEPTED: so the
goal is achieved on a reading that still holds.  `AchievedMeansComplete` has a premise: the endpoint
`POST /goals/{id}/transitions` accepts any command of the goal, and one that says `achieve` asks for no works.

`ChapterRunsProofs` holds for every set of executions, finite set of decisions, order of
steps and bound.  `WaitHasDecision` is inductive once the types are known: whatever ends the
wait of a decision ends the wait of both rows in the same transaction, and the
outcome of an execution never makes anybody wait (`OutcomeDoesNotWait`).
`OutcomeIsCurrent` follows from the types alone, since the row is locked from the check
to the commit.  `OneHolder` and `DoneStaysDone` need `Fenced`: tokens in memory are at most the token of the run
(`TokensFit`), no two are equal (`TokensDiffer`), and the step of the execution that has the lease is
still RUNNING (`HolderRuns`).  One thing breaks these: an execution that loses its lease between the check and the write of its
failure path writes the retry lease with the token in memory plus one, below the token of a later claim.
The code does nothing against it, and nothing is assumed against it here.  `ChapterFence` takes every step of `ChapterRuns`
and adds a history variable, `reopened`, which such a failure sets when it keeps the lease; the invariant is
`reopened \/ Fenced`, and the theorems of `FenceSpec` say that this failure, and no other order of claims,
expiries, crashes and answers, lets two executions in or undoes what was done.  A late failure that gives the lease
back (`FencedFailure`) keeps the fence.  Without the exception TLC finds `OneHolder` violated.
`WaitEnds` and `RunAdvances` are model-checked only.


`RuntimeProofs` holds for any workers, events and timers that meet `OutboxAssumption` and
`TimersAssumption`, of `WorkerSpec`, which assumes no fairness.  `AttemptsCapped` is not inductive: a claim takes over an
expired lease without looking at the attempts.  `LoopInv` adds what makes it so (`Bounded`, with `Spare`): a row that
may be claimed has an attempt to spare, and a lease that may be taken over was
left behind by one of the faults that are counted.  `Untouched` and `OkIsHandled` say that an
event that was never inserted has been met by nobody, and that whoever means to acknowledge has run the handler; with
them every step maps to `Put`, `Work`, `Finish`, `GiveUp` or `Revive` of `EventQueue`, or to a
stutter (`QueueStep`).  `LoopHoldsClaims` is needed of the loop: a batch of timers
is in hand only in the part of the loop that took it.

`ReleasesProofs` holds for any agents, operations and permits that meet `OperationsAssumption` and
`ReleasesAssumption`, of `ReleasesSpec`.  `RInv` says that permits and operations belong together (`Keyed`), that a dispatched
operation has spent its permit (`Spent`), that what an execution or a sweep has read between two transactions
still holds when it acts (`PathsHold`, `SweepKnows`), and that SUCCEEDED comes from the provider wherever it is
held: in a row, in the memory of an execution or as the verdict of a sweep (`Truth`).

`DeliveryProofs` holds for any passes, tasks, slots and budgets that meet `DeliveryAssumption`.  `AInv` adds to
`AchievedIsAccepted` that whatever carries out an approval, as an event or as a handler between its two transactions, was
approved by a person (`AcceptedByPerson`).  Every step is of one of five kinds (`StepKinds`): it leaves the end of the goal
alone and brings in no approval (`Calm`), it ends the goal by a review or by an approval that was given, it fails it for its workspace, or a
person answers.  Both theorems follow from the kinds.
## What the code does not do

Each is a run that TLC must find violated; `PROJECT.json` quotes the sentences of the
repository.

- `NoDanglingHold`: a retry writes off an UNKNOWN attempt without a request id and
  leaves its reservation open for good.
- `StaleResultDiscarded`: the check for a lost lease flushes the document of
  the run, and the discarded result is committed with it.

Met while modelling and listed as hazards, not as runs: the window of the failure path, the decision timer that a refused model call keeps from its work
(`worker/main.py:314`), a pause of the user overwritten by a request of the director, a work left in RECOMPUTING.


Met while modelling, and in the models as the code does it.  The properties are stated so that they hold
beside them; an exception they make is one of these.

Model calls: what was consumed by attempts without a checkpoint is in neither sum of the ceiling's
check; an older attempt that turns UNKNOWN late is never reconciled; one row the ledger refuses ends every
sweep before the rows behind it, and the decision sweep that comes after it in the same `try` (`worker/main.py:314-322`).

Worker: a timer left CLAIMED by a death, or behind a late one in its batch, is not among the due
timers any more (`runtime/timers.py:23`), while `docs/archive/legacy-regent-2026/research-operating-system-feasibility-2026-08-25.md:78` calls outbox,
timer and lease recoverable.  A worker's lease is 30 seconds and an event's at least 900: a long handler ends its worker at the next heartbeat,
before its event can be claimed again.  The dispatcher claims without a look at the worker lease, which
`docs/appendices/Durable-Execution-and-External-Effects.md:48` asks for.

Releases: a retry under a new key follows a failure that may have had its effect (a lost answer asks for the old key, §4.2 of that document); a permit that runs
out after its claim is still consumed (against its line 103); an operation that has ended is reopened by a sweep that had read it before
(against `application/external_operation_service.py:32`); an execution that dies between the claim of its permit and `prepare` leaves the
permit CLAIMED and the deployment DEPLOYING, since the next execution cannot claim it.

Scheduler: an operation may be dispatched between a preemption's look and its commit (against
`docs/appendices/State-Machines-and-Invariants.md:174`); an entry resumed from a checkpoint keeps its reservations and holds again at the next decision;
`save_checkpoint` does not ask for an operation under dispatch.

Budget: a hold whose execution died is taken up again only by a turn with the same estimate; a settlement
above the hold is refused, and the hold stays CLAIMED and the cost unrecorded; two claimants of one hold get the same token.  Amounts are
floats, and the conditional updates at `application/budget_ledger.py:336` and `:365` ask for `reserved_amount >= amount` without a look at their row count: after
holds of 0.7 and 0.1, of which the first has been given back, 0.09999999999999998 is reserved, the second is not found, and its 0.1 stays reserved for good.

Works: the reclaim advances a run however young, so that a live execution raises at its next transition and its work stays
RUNNING with nobody to end it.

Delivery: a workspace found not compliant sets FAILED directly, whatever the status, ACHIEVED included, and without a new version
(`application/execution_orchestrator.py:2432`).  An approval whose goal is parked again between its two transitions becomes a dead letter
(`crossed` in the model).  Under the hard gates an approval over HTTP leaves the goal WAITING_HUMAN, and the review at the end of the release
cannot achieve it.  A direction in the chat before any generation lifts the pause and restarts nothing.  A finished generation
clears a pause that came meanwhile, against the comment "sticky until chat resumes" (line 1330 there).  `abort` fails queued generation requests
"so workers do not keep burning" (`api/goals.py:490`), and the dispatcher claims FAILED events again: they are refused only as long as
the pause lasts.  A blocked capability plan, a failed smoke test, a review under the soft gates that lacks evidence leave the
goal ACTIVE with nothing outstanding: the watchdog is the only thing that brings such a goal on, and its count of nudges is never set back.  Its
scan takes the forty ACTIVE goals with the oldest `updated_at` and skips the soft-paused ones afterwards (`application/delivery_progress_watchdog.py:145-162`), and
pauses neither end the status nor touch that column: forty paused goals keep the younger ones out for good.  Under the hard gates, or without
an endpoint, a review that lacks observations raises: `application/execution_orchestrator.py:4107` reads `public_url`, which is bound in the soft branch (line 3992) and at line 4165
only; the goal never waits for its evidence, the event ends as a dead letter, and each attempt leaves a timer that changes nothing.  A
timeout overwrites the answer of a person that came in between, whose event has been sent.

## Plan

1. `QuotaLedger`, `ModelCalls`: done, with proofs.
2. `ChapterRuns`: Done for one chapter, with proofs; the state tables of `states.py`, replay and continuation are left.
3. `Outbox`, `Timers`, `WorkerLoop` under `EventQueue`: done. Proved, but for its liveness.
4. `Permits`, `ExternalOperations`, `Releases`: done. Proved, but for its liveness.
5. `Scheduler`, `Budget`, `WorkExecution`: done. Proved, but for their liveness.
6. `Delivery`: done for the default settings. Its safety is proved.
7. `ChapterRuns` extended by continuation, replay and batches; the delivery's recovery by escalation.
8. Next to prove: the holds of `Budget` and the reservations of `Scheduler` as implementations of one abstract ledger, as `ModelCalls` is
   of `QuotaLedger`.

## Not modelled

Agents, providers, prompts, reviews and memory (`novel/application/directing_*`, `chapter_review.py`, `agent/`,
`model/`), and the evaluation of gates and builds decide *what* is produced; they reach the
modelled components only as an answer, a failure or a delay.  They are most of the repository's lines: a model of them would be the
prompts and parsers themselves.  The experiments (`novel/experiments/`), the reports, and the conversation and
its interpretation keep no state that two actors race for.  The HTTP
handlers add authentication and formatting around one transaction.  Side-effect attempts and agent tasks are records that one
writer keeps.  Continuation, replay and batches of chapters are planned.  Of the modelled components, what is left out is
named in their sections above and in the notes of `PROJECT.json`.
