# Task scheduler and webhook executor: TLA+ models, model checks and proofs

The repository is a pair of FastAPI services. The **scheduler** keeps tasks in
PostgreSQL, fires each at its `execution_time` through APScheduler and calls the
task's webhook; the **executor** is the service those webhooks belong to. This
directory models what the two do concurrently and under failure, checks it with
TLC and proves with TLAPS every safety property that is checked: of the scheduler
and the executor, each alone and both together, of their connections, of walks over the
task list, of the registry cache and of recurring tasks on the clock.

`PROJECT.json` maps every definition to the source lines it stands for and lists
runs, mutants, findings, hazards and theorems.

Contents: [components](#1-components) · [modules](#2-modules-and-how-they-follow-the-code)
· [runs](#3-runs-bounds-and-what-they-show) · [fairness](#4-fairness) ·
[proofs](#5-proofs) · [findings](#6-where-code-and-documentation-disagree) ·
[not modelled](#7-what-is-not-modelled) · [plan](#8-plan)

Paths below are relative to `src/services/scheduler/app` unless they start with
`executor/` (for `src/services/executor/app`).

## 1. Components

### Scheduler

| component | state | operations | talks to |
|---|---|---|---|
| Task execution (`services/execution.py`) | none of its own: two coroutines per task, `execute_task` and `poll_task`, each with a tenacity retry loop | mark running, attempt the webhook, apply the answer, give up; poll, apply the verdict, give up; schedule the next occurrence | the database (a session per attempt), the executor (POST, GET), the job store |
| Job scheduling (`services/scheduler.py`) | APScheduler's job store, a database table of its own: date jobs `<id>` and `poll:<id>` | register, remove, fire, misfire, resume at start-up | starts the coroutines |
| Task API (`routers/tasks.py`, `services/task_service.py`, `utils/deps.py`) | one session per request, committed after the handler | create, cancel; get and list only read | the database, the job store, webhook validation |
| Tables (`models/task.py`, `repositories/task_repository.py`) | `tasks`, `task_attempts` | insert, update, read | — |
| Recurrence (`utils/recurrence.py`) | none | `next_run_time(recurrence, execution_time, cron_expr)` | called by execution |
| Webhook validation (`utils/webhook_validation.py`) | `_CACHE`: the executor's registry and when it expires | look up, fetch, decide | the executor's `GET /webhooks` |
| Transition table (`utils/transitions.py`) | none | `can_transition`; `assert_transition` is called once and with constants | — |
| Connections (`db.py`, `utils/http_client.py`) | a pool of `db_pool_size` + `db_max_overflow` connections; one HTTP client with a time-out and 100 connections | connect at a session's first statement, give back at commit or rollback; time out | used by every coroutine and request |
| Settings, middleware, logging, exception handlers, schemas | — | — | — |

### Executor

| component | state | operations | talks to |
|---|---|---|---|
| Webhooks (`executor/routers/webhooks.py`, `executor/services/execution_service.py`) | `executions`, one session per request | `POST /webhooks/{name}` in sync and async mode, `GET /status/{id}` | database, async workers |
| Async workers (`executor/utils/async_workers.py`) | an `asyncio.Semaphore`, in-process tasks | spawn, acquire, complete after a delay | database |
| Registry (`executor/utils/webhook_registry.py`) | a constant dictionary | list | read by the scheduler |
| Connections (`executor/db.py`) | a pool of its own | as above | used by handlers and workers |

### How they interact, and what is hard about it

One process each, one event loop each: interleaving happens at every `await` on the
database or the network. Five things make the code hard to test:

* **Two writers decide on what they read earlier.** `cancel`, `_mark_running`,
  `_set_status`, `_apply_execute_result` and `_poll_once` all read the row, decide
  and write it later without a condition on what they read; `_poll_once` has the
  GET in between. PostgreSQL runs in READ COMMITTED, so the later write wins.
* **Two stores commit separately.** The job store commits at once, the row with its
  session: a job can outlive a rolled-back row, run before its row is visible, or be
  lost while the row stays.
* **Nothing recovers.** A date job is gone once it has been submitted. A crash, a
  database error or a swallowed registration failure leaves the row as it was, and no
  sweeper looks for such rows (`list_due` has no caller).
* **The answer leaves before the commit.** `get_db` commits after the response is
  out, in both services: a caller can hold a `202` whose row is not there yet, or
  never will be.
* **Waiting with something in hand.** An attempt keeps its connection, and from the
  second one on the row lock, while the webhook is called; the executor's sync handler
  keeps one while it works, a completion its permit. Pools, locks, the semaphore and
  the HTTP call form chains of waiting over both services.

The properties that make each component correct:

* execution and jobs: at most one driver per task; webhook calls and polls within
  their caps over all restarts; `retry_count`, audit rows and status agree; a task
  that is terminal and at rest is not touched again; without faults everything is
  settled;
* recurrence: a chain never forks, a follow-up comes from a SUCCESS only, a SUCCESS
  has its follow-up; a chain is lost only to delays that add up to more than the grace,
  does not drift and skips no occurrence;
* reads: a walk over the pages of `GET /tasks` misses and repeats no more than what
  changed under it explains;
* executor: answers and rows agree, a finished execution stays as it is, the
  semaphore bounds completions, every 202 is finished;
* together: SUCCESS means the work was done; FAILED that it was not, and none is done
  twice, unless the scheduler could not know how a call ended; whatever the executor
  does, the scheduler gets on;
* connections: no circle of waiting, nothing leaks, a hung executor does not stop the
  scheduler;
* validation: no decision on a registry that is too old; what is accepted is what runs.

## 2. Modules and how they follow the code

| module | models | proves or checks |
|---|---|---|
| `TaskStatus` | status names, terminal set, transition table, `AttemptCap`, tenacity's stop rule | |
| `TaskLifecycle` | the **abstract specification**: what the scheduler promises about a task | |
| `TaskEngine` | the scheduler's concurrent core: execution, jobs, create and cancel | |
| `TaskEngineProps` | its properties, the inductive invariant, the refinement mapping | TLC |
| `TaskEngineInvariant` | | type correctness, the inductive invariant and the safety theorems |
| `TaskEngineRefinement` | | action properties, the refinement, and what holds without faults |
| `ExecutionLifecycle` | the **abstract specification** of an execution: what the executor promises to callers and polls | |
| `Executor` | the executor service, its properties, inductive invariant and refinement mapping | TLC |
| `System` | `TaskEngine` and `Executor` composed through the network, with the fairness of both | TLC |
| `SystemProofs` | | `System` implements `TaskEngine` and `ExecutionLifecycle`; what is settled is what was done; a task's executions are bounded |
| `Connections` | pools, row locks, the semaphore and the HTTP calls of both services | TLC |
| `TaskListing` | `GET /tasks` page by page beside writers | TLC |
| `WebhookNames` | operators: `parse_webhook_name`, and what client, server and route make of the same URL | |
| `RegistryCache` | `assert_webhook_allowed`: the URL, `_fetch_registry` and its cache, the decision | TLC |
| `RecurrenceClock` | `next_run_time` (periodic and cron), time zones and misfires against the clock, with a scheduler that stops or blocks | TLC |
| `ExecutorProofs`, `ConnectionsProofs`, `TaskListingProofs`, `RegistryCacheProofs`, `RecurrenceClockProofs` | | their inductive invariants and what follows; `ExecutorProofs` also the refinement |
| `MC_*` | instances of these for TLC (symmetry, model values) | |

**TaskEngine.** `rows` is the committed `tasks` table with the columns control
depends on; `taskJobs` and `pollJobs` are the job store; `exec[t]` and `poll[t]` are
the coroutines of task `t` (a program counter, the attempt number, the answer or
verdict in hand and the child row flushed with it); `req[c]` is the request client
`c` has in flight. `calls` counts HTTP calls sent and `progress` remembers the last
status the scheduler itself committed; both are history. `audit` counts committed
`task_attempts` rows.

A handler is one action per stretch between two awaits at which somebody else can
run, so read and write are separate actions and what was read is held across them:

| code | actions |
|---|---|
| `create_task` → `TaskService.create`, `get_db` | `CreateFlush`, `CreateCommit`, `RequestError` |
| `delete_task` → `TaskService.cancel`, `get_db` | `CancelRead`, `CancelFlush`, `CancelCommit`, `RequestError` |
| APScheduler running `_run_execute`, `_run_poll` | `FireTaskJob`, `FirePollJob`, `Misfire` |
| `_mark_running` | `MarkRead`, `MarkWrite` |
| `_post_webhook_with_retries`, `_execute_one_attempt` | `AttemptPost`, `AttemptReturn` |
| `_apply_execute_result`, `_schedule_next_occurrence` | `ApplyRead`, `ApplyFlush`, `ApplyCommit` |
| `_set_status(FAILED)` after the loop | `GiveUpRead`, `GiveUpWrite` |
| `_poll_until_terminal`, `_poll_once` | `PollGet`, `PollPending`, `PollAnswer`, `PollCommit` |
| `_set_status(FAILED)` at the poll cap | `PollGiveUpRead`, `PollGiveUpWrite` |
| any other exception in a session | `ExecError`, `PollError` |
| the process stopping | `Crash` |

A session's writes show at its commit. Between the flush of an UPDATE and the commit
the row is `Locked`: other writers wait, then overwrite. The second and later
attempts change `retry_count` before the POST, so they hold that lock while the
webhook runs.

**TaskLifecycle** is what a task's owner may rely on: the scheduler moves a task at
most once along PENDING → RUNNING → verdict; delivers only while RUNNING and within
the cap; inserts a follow-up only in the step that commits a SUCCESS. A cancel is a
second writer of the displayed status. `TaskEngine` implements it with `status`,
`parent` and `cap` read off the row and `posts` off the calls.

**Executor.** `db` is the committed row and `open` what the request has flushed;
`handler` and `worker` are the request and its background task. Handler, commit and
worker are separate actions, so a worker can run before the commit of the request
that spawned it. The work a webhook stands for (`done`) is a step before its status is
written: `SyncWork` before the flush and the answer, `WorkerWork` before the row is read. A
stop of the process or a database error can come between the two, and then the work is done
and nobody is told. A name the registry lacks is a 404 without a row, a failing insert a
500 without a row or a worker. `hit` remembers the executions that a fault has struck.

**ExecutionLifecycle** keeps of an execution what its two kinds of readers see: `told`, the
status line the caller got, and `shown`, the status a poll finds. An execution is answered
once; a row is seen after that only, and it is the one the answer stands for; a QUEUED row
gets one outcome, which stays. `Executor` implements it with `answer` and `db`.

**System** ties them: `AttemptPost` is an invocation or a lost request, the answer the
engine applies is `Reading` of the executor's, and a poll reads the `executions` row of
the last call (`check_url`). The scheduler may stop waiting at any time ("timeout").
Here `TaskEngine`'s answer classes are no longer arbitrary, and its assumption that calls
return is no longer one: `ImplementsEngine` states that a fairly scheduled pair of
services is a fairly scheduled engine.

**Connections** keeps of each coroutine only which session it is in and what it holds
there: `at[p]` (phase, step within the session), `conns`, `owner` (row locks), `closed`
(rows whose status is terminal), and for each call the executor's `handler` and `worker`.
`Blocked` is who cannot go on, `WaitsOn(x)` who has what `x` wants: for a connection anybody
who has one, for a row its owner, for an answer the handler, for a permit its holders.
A session's steps are the code's awaits: connect, select, lock, call, commit. Time-outs
of the HTTP client and of either pool are actions, allowed by `TimeOuts`.

**TaskListing** gives a row its `created_at` at the flush and its visibility at the
commit, with the response in between, so rows appear in another order than they are
listed in. The place of a row is the number of rows that come before it, and a page is the
set of rows whose places fall into it: what ORDER BY, LIMIT and OFFSET return, without the
order on the page. A walk, without a filter or for any one status, takes pages of `Limit`
until one comes back short. Statuses change the way the two writers change them: the
scheduler marks and settles by what it has read (`progress`), a DELETE cancels by what it has
read, and each overwrites what the other has committed since. So a row can leave the result of
a filter and come back (CANCELLED, RUNNING, CANCELLED). `left` and `entered` count how often a
row stopped or started to match the filter during the walk.

**WebhookNames** takes a URL as a sequence of the executor's prefix (or another beginning),
slashes, `?`, `#`, names and other text, and computes both readings of it: the scheduler's
(compare the text of the prefix, cut the query, strip the slashes) and the one on the way to
the webhook (httpx drops the fragment and removes dot segments, uvicorn decodes the
percent-encoding, Starlette matches one segment). A stray slash is accepted by the one and
answered with 307 or 404 by the other, so such a task can only fail; a name with an encoded
character, a path with dot segments or another spelling of the base is refused by the one and
would run by the other; no spelling makes a call run another webhook than the validated one.

**RegistryCache** uses both readings in the decision. It looks at the URL's shape first and
reads the clock once, before the fetch, as `_fetch_registry` does; `Serve` and `FetchDone`
are separate, so answers of overlapping fetches can swap. A registry is a set of names, and
a redeployed executor brings the next version.

**RecurrenceClock** leaves failures to `TaskEngine`: a run is only its duration. The
row's date and the job's are separate variables, because `TZDateTime` reads a date
without a time zone as UTC and APScheduler as local time; a cron expression is the set
of dates it matches, which may come to an end. The scheduler may stop, restart or have its
event loop blocked at any time and for any time (`awake`, `Leave`, `Return`): a job whose date
goes by meanwhile waits, and gets its turn, or is dropped, when the scheduler is back. `delay`
is the history of all that puts a chain behind.

### What is abstracted

Names, URLs, payloads and audit texts are model values or gone. Backoff waits are
"some time": other coroutines may or may not run meanwhile. An HTTP answer is one of
the five classes `_execute_one_attempt` and `_apply_execute_result` tell apart.
`Fresh` gives a new task an id nothing refers to, which is what a version 4 UUID is for.
Operators named `<Def>_<Slip>` are plausible slips; the mutation runs use them, no
specification does.

## 3. Runs, bounds and what they show

| run | instance | shows |
|---|---|---|
| `engine_faults` | 2 tasks, 1 client, caps {0, 2}, 2 polls, all faults | one driver per task; calls within caps; counters and audit agree; closed tasks are left alone; committed statuses follow the table of transitions; the engine implements the life cycle; `IInv` (with `TypeOK`, `FollowUpsSound` and `SuccessIsAudited` in it) holds |
| `engine_recurrence` | 3 tasks, cap 1, job store failures, misfires, early jobs | no fork, no follow-up without a SUCCESS, no SUCCESS without its follow-up row |
| `engine_live` | 2 tasks, 1 client, cap 2, 2 polls, no faults, fairness | nobody is stranded, every returned call is on record, every task is settled; `DrivenInv` holds |
| `executor` | 3 executions, 2 permits, crash, database errors, early workers, fairness | the executor implements `ExecutionLifecycle`, the semaphore bounds, every 202 that no fault has struck is finished; `EInv` holds |
| `system` | 1 task, caps {1, 2}, 2 executions, the faults of both services and of the network, fairness | SUCCESS, FAILED and at-most-once against the work the executor did, with its failures between work and answer; no more executions than the cap; the two services provide what the engine's fairness assumes; `SInv` holds |
| `connections` | 1 task (sync, failing or async), 2 requests, pools 2 and 1, 1 permit, HTTP and pool time-outs, fairness | pools are not overdrawn, nothing leaks, no circle of waiting, no deadlock that a time-out would have to break (`EveryoneEnds`), the HTTP time-out drains the scheduler; `ConnInv` holds |
| `task_listing` | 3 tasks, pages of 1, any or one status, both writers overwriting each other | an unfiltered walk misses nothing; misses and repeats have their cause; `ListInv` holds |
| `registry_cache` | 2 requests, 12 URLs, TTL 2, clock to 5, a redeployment | no decision on a registry gone for more than the TTL; what is validated is what runs; no plainly spelled URL that runs is refused; `CacheInv` holds |
| `recurrence_clock` | period 5 or 7 cron dates, grace 2, runs up to 8, first run up to 3 late, zone up to 3 off, clock to 40, scheduler away at any time | a job is dropped only for delays of more than the grace in all; no drift, no occurrence skipped, cron chains end only after the last date; `ClockInv` holds |
| `terminal_reentered`, `zero_cap`, `early_job` | 1 task | findings of section 6 |

The invariants `IInv`, `DrivenInv`, `EInv`, `SInv`, `ConnInv`, `ListInv`, `CacheInv` and
`ClockInv` are the inductive ones of section 5; the type invariant of a component is a
conjunct of its inductive invariant, and is not checked a second time. Nor are properties
that a checked one contains: `FollowUpsSound` (in `engine_faults`), `RetryCountMatchesAudit`
and `SuccessIsAudited` are in `IInv`; `AnswerMatchesRow` follows from `EInv`, and
`FinishedIsFinal` from it and the actions (it is a promise of `ExecutionLifecycle`). They are
theorems, and so is `ContinuesInv`, which says more than `RecurrenceContinues` only of runs
not yet concluded.

Why the bounds are enough to show the interesting cases:

* Two tasks are a parent and its child, or two unrelated ones; three are a chain whose
  middle run is child and parent at once, and two possible forks. No property or guard
  relates more than two tasks.
* One client suffices for every race of a request with a coroutine (that is where the
  code has no lock); the requests of one client may follow each other, so a create, a
  late commit and a cancel of the same task occur in one run. The proofs hold for any
  number of clients.
* Cap 2 has a first, a last and a retried attempt; cap 0 is the special value. Two
  polls have a first, a last and a pending one. Negative caps and larger ones are
  covered by the proofs.
* Three executions over two permits make somebody wait; two executions per task are all
  that a cap of 2 can request, and under a cap of 1 the second is there to show a call too many.
* In `system` a lost first request, a restarted executor on the second and a poll that
  never sees a row all fit in one task's life.
* Three processes, and the handlers that a time-out leaves behind, over pools of two and
  one and a single permit make somebody wait for every resource; a cap of 2 has
  the attempt with and the one without the row lock. With larger pools fewer wait.
* Three tasks over pages of one give four pages, with commits that overtake each other
  across a page boundary and rows that leave and come back on either side of it. The proofs
  hold for any number of tasks and page size.
* The twelve URLs are one of each kind: plain, with stray slashes, with a query that holds a
  slash, with another segment, with a fragment, outside the prefix, without a name, with an
  encoded name, under another spelling of the base, and with dot segments after the name, in
  front of it and through the prefix. An assumption of `MC_RegistryCache` spells out which of
  them run. The redeployment drops the one registered name and adds another.
* The registry's clock runs over more than two TTLs, the recurrence clock over at
  least five periods, so delays add up over several runs.

Deadlock is not checked: a run in which every task is settled and no client asks for
anything, or in which a crash stranded everything, really stops. The one exception is
`registry_cache`, where a restart of the executor is always possible.

Symmetry (tasks, clients, requests) is used in runs of the engine and of the registry cache
without liveness properties.

## 4. Fairness

`engine_live`, `zero_cap`, `executor`, `system` and `connections` assume fairness; no other
run does.

* Weak fairness per coroutine, per job and per request of the scheduler: the event loop
  runs whatever can run; APScheduler wakes at every due date; HTTP calls return because
  the client has a time-out; a lock holder is itself scheduled. Neither arrivals nor
  faults are fair.
* In the executor, weak fairness for handlers and workers and strong fairness for
  acquiring the semaphore, whose waiters are served in order: a permit that is freed
  again and again reaches everybody.

  Faults are not fair and not excluded either: `AcceptedFinishes` demands a final status of
  every 202 whose execution no fault has struck (`hit`), whatever happens to the others.
* `System` (`SFairness`) has both, each conjunct as a step of the composed system. What is
  missing is on purpose: that a webhook call returns. A coroutine in `posting` or
  `getting` moves only when the executor's handler has answered or its connection is
  gone (`Served`), and that it does so eventually is what `ImplementsEngine` derives.
* `Connections` assumes little: while *some* coroutine or request of the scheduler can go
  on, one does. What else a property needs is its own antecedent. `EveryoneEnds` assumes the
  same of the executor, and of no time-out: if everyone ends, there was no circle.
  `SchedulerDrains` assumes instead that the HTTP client's time-out is kept, and lets the
  executor stop anywhere.

`zero_cap` needs fairness because its counterexample is a task that stays RUNNING with
nothing left to run, not one that the scheduler forgot to step.

## 5. Proofs

Every theorem holds for **any** values of the constants that satisfy the assumptions of the
module it is about:

* *engine*: any tasks, clients, caps and `Faults`; `NoTask \notin Tasks`,
  `RetryCaps \subseteq Int`, `PollMaxAttempts \in Nat \ {0}`. Three results speak of
  executions in which certain faults do not happen, and say so in their hypotheses.
* *executor*: any executions, names and faults; the async and the failing webhooks are
  registered ones, there is at least one permit.
* *system*: both of these, with `NoExec \notin Execs`.
* *connections*: any finite numbers of tasks and requests, caps and pools of at least 1, and
  any kinds of webhooks and time-outs.
* *task listing*: any number of tasks, any filter, any page size of at least 1.
* *registry cache*: any requests, URLs, registries, encodings and TTL; the TTL is positive, the
  registries are numbered, URLs are sequences, and names are single path segments other than
  `.` and `..` without percent-encoding (`UrlsAssumption`: the executor's names are keys of a
  dictionary in its source, and its route matches one path segment).
* *recurrence*: any cron dates, grace, lengths of runs and time zone, and a positive period.

| theorem | module | states |
|---|---|---|
| `TypeCorrect` | `TaskEngineInvariant` | `Spec => []TypeOK` |
| `InvariantHolds` | `TaskEngineInvariant` | `Spec => []IInv` |
| `DriverIsUnique` | `TaskEngineInvariant` | `Spec => []SingleDriver` |
| `FollowUpsAreSound` | `TaskEngineInvariant` | `Spec => []FollowUpsSound` |
| `AttemptsAreBounded` | `TaskEngineInvariant` | `Spec => []AttemptsBounded` |
| `RetryCountIsAudited` | `TaskEngineInvariant` | `Spec => []RetryCountMatchesAudit` |
| `SuccessHasEvidence` | `TaskEngineInvariant` | `Spec => []SuccessIsAudited` |
| `ClosedForGood` | `TaskEngineRefinement` | `Spec => ClosedStaysClosed` |
| `ProgressIsByTheTable` | `TaskEngineRefinement` | `Spec => ProgressFollowsTable` |
| `EngineImplementsLifecycle` | `TaskEngineRefinement` | `Spec => ImplementsLifecycle` |
| `CallsAreAudited` | `TaskEngineRefinement` | `Spec => []AuditComplete`, without crash and database error |
| `DriversHandOver`, `NobodyIsStranded` | `TaskEngineRefinement` | `Spec => []DrivenInv`, `Spec => []NothingStranded`, with no fault but `next_run_time` raising and no cap of 0 |
| `FollowUpsAreAtHand`, `RecurrenceGoesOn` | `TaskEngineRefinement` | `Spec => []ContinuesInv`, `Spec => []RecurrenceContinues`, without crash, database error and `next_run_time` raising |
| `ExecutorInvariant` | `ExecutorProofs` | `ESpec => []EInv` |
| `ExecutorTypeCorrect` | `ExecutorProofs` | `ESpec => []ETypeOK` |
| `AnswersMatchRows` | `ExecutorProofs` | `ESpec => []AnswerMatchesRow` |
| `FinishedRowsStay` | `ExecutorProofs` | `ESpec => FinishedIsFinal` |
| `ExecutorKeepsItsPromises` | `ExecutorProofs` | `ESpec => ImplementsExecution` |
| `SemaphoreBounds` | `ExecutorProofs` | `ESpec => CompletionsBounded` |
| `SystemIsAnEngine` | `SystemProofs` | `SSpec => Spec` |
| `SystemKeepsThePromises` | `SystemProofs` | `SSpec => [](AttemptsBounded /\ SingleDriver /\ FollowUpsSound)` |
| `SystemImplementsLifecycle` | `SystemProofs` | `SSpec => ImplementsLifecycle` |
| `SystemInvariant` | `SystemProofs` | `SSpec => [](IInv /\ EInv /\ SInv)` |
| `SuccessIsEarned` | `SystemProofs` | `SSpec => []SuccessMeansDone` |
| `EffectHappensOnce` | `SystemProofs` | `SSpec => []EffectAtMostOnce` |
| `FailureIsTrue` | `SystemProofs` | `SSpec => []FailedMeansNotDone` |
| `ExecutorInSystem` | `SystemProofs` | `SSpec` takes only `ENext` steps on the executor, and keeps `ETypeOK` and `AnswerMatchesRow` |
| `PromisesInSystem` | `SystemProofs` | `SSpec => ImplementsExecution` |
| `ExecutionsAreBounded` | `SystemProofs` | `SSpec => []ExecutionsBounded` |
| `SystemStrandsNobody` | `SystemProofs` | `SSpec => []NothingStranded`, under the hypotheses of `NobodyIsStranded` on the scheduler alone |
| `SystemGoesOnRecurring` | `SystemProofs` | `SSpec => []RecurrenceContinues`, under those of `RecurrenceGoesOn` |
| `SystemLeavesClosedAlone` | `SystemProofs` | `SSpec => ClosedStaysClosed` |
| `ConnectionsInvariant` | `ConnectionsProofs` | `PSpec => []ConnInv` |
| `NoSessionLeaks` | `ConnectionsProofs` | `PSpec => []NothingLeaks` |
| `NobodyWaitsInACircle` | `ConnectionsProofs` | `PSpec => []NoCircle` |
| `SomebodyGoesOn` | `ConnectionsProofs` | `PSpec => [](Busy # {} => Busy \ Blocked # {})` |
| `ListInvariant` | `TaskListingProofs` | `LSpec => []ListInv` |
| `MissesAreExplained` | `TaskListingProofs` | `LSpec => []MissesExplained` |
| `RepeatsAreExplained` | `TaskListingProofs` | `LSpec => []RepeatsExplained` |
| `CacheInvariant` | `RegistryCacheProofs` | `CSpec => []CacheInv` |
| `DecisionsAreRecent` | `RegistryCacheProofs` | `CSpec => []DecisionIsRecent` |
| `RunsTheValidatedName` | `RegistryCacheProofs` | `CSpec => []RunsWhatWasValidated` |
| `RunnableUrlsAreAccepted` | `RegistryCacheProofs` | `CSpec => []RunnableIsAccepted` |
| `ClockInvariant` | `RecurrenceClockProofs` | `RSpec => []ClockInv` |
| `DelaysWithinGraceKeepTheChain` | `RecurrenceClockProofs` | `RSpec => []ChainSurvives` |
| `NoOccurrenceSkipped` | `RecurrenceClockProofs` | `RSpec => NothingSkipped` |
| `ExecutionTimesDoNotDrift` | `RecurrenceClockProofs` | `RSpec => []NoDrift` |
| `ChainEndsWhenExhausted` | `RecurrenceClockProofs` | `RSpec => []EndsWhenExhausted` |

### The engine

None of the safety properties is inductive: that a task has one driver,
say, depends on a job being registered only by whoever just gave up driving. The
inductive invariant `IInv` (in `TaskEngineProps`, checked by `engine_faults`) adds
what the code never writes down:

* `StatusInv` — the row shows the scheduler's progress or a cancel, and a task that
  has not run has no `check_url`;
* `DriverInv` — which driver may exist follows from `progress`: a task job or a marking
  coroutine only up to PENDING, a running coroutine, poll job or poll coroutine only
  while RUNNING, and `check_url` unset for as long as `execute_task` runs;
* `InsertInv` — a row that an open transaction is about to insert has an id that
  nobody else uses and that no progress was made on; a flushed follow-up belongs to a
  verdict of SUCCESS;
* `FollowUpsSound` — itself part of the induction;
* `CountInv` — where the counters of the two retry loops stand at each program counter;
* `AuditInv` — the same for the audit rows and `retry_count`.

`DriverInv` is what keeps a late cancel harmless for the rest of the invariant: a cancel
changes only `status`, and `progress` still says which driver is allowed. The early
poll job (registered before `check_url` is committed) is the one overlap: its coroutine
finds no `check_url` and ends, because `check_url` stays unset while `execute_task` runs.

There is one lemma per conjunct and per kind of argument (`DriverStep`, `StatusStep`,
`InsertStep`, `FollowStep`, `CountStep`, `AuditStep`), each with one step per action.
`CommitFacts` says what the transaction of a verdict does to any one row; lemmas that
meet that transaction cite it. The refinement is proved action by action in
`LifeStep`: reads, flushes, jobs and errors are stutters, commits are the abstract
actions. `ProgressIsByTheTable` follows from it: the life cycle moves along the edges of
the table only (`LifecycleEdges`).

`AuditComplete` is inductive next to `IInv`: while a call's audit row is not committed the
coroutine is at a program counter that says so, and only a crash or a database error takes
it from there without the commit.

`NothingStranded` needs the hand-over of a task step by step. `DrivenInv` adds that the job
of an insert is registered before the commit that makes the row visible, the poll job before
the commit of `check_url`, and that a `poll_task` finds `check_url` set. What breaks it is as
telling as the theorem: a cap of 0 (`zero_cap`), a job that runs early (`early_job`), a
failing registration, a misfire, a crash. `next_run_time` may raise, because then the run is
settled without a follow-up.

`RecurrenceContinues` needs `ContinuesInv`: an insert that has begun will be committed, so an
id that is taken stays taken, and a run about to be concluded without a follow-up has found
no id free. Ids are bounded in the model only; the theorem holds for every bound. Lost,
dropped and early jobs and cancels are allowed: they cost the follow-up its job and not its row.

### The executor

`EInv` says how request, row, answer and completion of one execution go together
(`ExecutionInv`): a handler still at work has no row and no completion; what a responded
handler has flushed follows from its answer; which rows can be committed does too
(`RowsAfter`: a 202 is QUEUED until its outcome, a 200 or a 500 has its outcome at once). It
is what `FinishedIsFinal` rests on: that the request's commit never follows the completion's
is nowhere in the code, which has no condition in either write. `SemaphoreInv` counts the
holders of permits.

With it, the refinement of `ExecutionLifecycle` (`PromiseStep`) is one case per action. The one
that needs the invariant is the commit of a request: what it makes visible was flushed before
the answer, and `ExecutionInv` says that it is still the row this answer stands for. A crash,
an error after the answer and a completion that finds no row are stutters.

### Scheduler and executor together

`SystemIsAnEngine` is the safety half of `ImplementsEngine`: an exchange with the executor
is the engine's step with the answer the executor chose (`ExchangeSteps`), everything else
is the engine's own step or leaves its variables alone. The theorems about `Spec` thereby
hold of the two services together, for any webhooks, executions and faults.

The reverse direction, `StepsOfExecutor`, makes every step of the system one of the
executor's, so that `EInv` holds too. What is left is the link between a task and its
executions, `SInv`:

* `LinkInv` — whom an execution is for; only a task that has been started has any;
* `Held` — what a coroutine holds in hand (an answer, a verdict, `check_url`) is what the
  executor said *and still says*, though the executor goes on in between;
* `Once` — of its calls the scheduler repeats only those that were refused or whose answer it
  did not wait for (`dropped`). A refusal is no proof that nothing happened: the work may have
  been done before the failure that became a 500 or a broken connection (`Unheard`), and
  `EInv` adds that only a fault (`hit`) can make it so;
* `Settled` — SUCCESS has an execution that did its work; FAILED, below the poll cap, has
  only executions that nothing will come of.

The proof keeps the two services apart. `Keeps(e)` is what any step of the executor leaves
true of an execution (a refusal, an answer and a finished row stay), `Moves(t)` how any step
of the engine moves one task, `Linked(t)` that its calls stay linked. `TaskKept` shows that
these three preserve `Held`, `Once` and `Settled`; only the four exchanges (`Post`, `Return`,
`ReadStatus`, `PollReturn`) are argued by themselves. The three conclusions follow from `SInv`
directly.

`ExecutionsBounded` counts: a task has never more executions than it was called (`Arrived`),
because a call begins one at most, in the step that counts it, and no other step begins one;
that a count never goes back is read off the life cycle (`LifeStep`). The rest is the bound on
calls in `IInv`. It holds of time-outs and lost calls too, where `EffectAtMostOnce` promises
nothing.

`SystemStrandsNobody` and its neighbours carry results about the engine over to the pair. Their
hypotheses speak of `Faults`, the scheduler's own; `WorkerFaults` and `NetFaults` are arbitrary,
so whatever the executor and the network do, a task keeps its driver.

### Connections

`NothingLeaks` counts connections, so its proof is about cardinalities: a pool's use is a set
of pairs (process, number), which gains at most one element in a step that found the pool not
full (`SchedulerKeeps`, `ExecutorKeeps`) and otherwise shrinks. `PoolInv` adds that a process
at rest has not begun its next session and that no session takes a second connection: without
them a commit that gives back one connection could leave another behind.

`NoCircle` is the absence of deadlock as an invariant: whatever group of blocked coroutines,
requests, handlers and completions one looks at, a member waits for somebody outside of it,
so no waiting ever depends on itself. The reason in the code is an order that nothing enforces:
a session takes its connection first, then a row, then calls; a handler takes a connection
and waits for nobody; a completion takes a permit, then a connection. `WaitInv` says what of
this must hold in between: who holds a row is calling the webhook or about to commit and wants
no other row, and a call that is awaited has a handler. The proof looks at the member that is
furthest on (`NoCircleHolds`): one that wants a connection of the executor, of which all are
with somebody who is at work (`ExecutorConnectionIsFree`); or else one that wants a permit, an
answer, a row, and last a connection of the scheduler (`PermitIsFurtherOn` and its
neighbours). `SomebodyGoesOn` is the group of everyone who is busy.

### Walks over the task list

`MissesExplained` and `RepeatsExplained` speak of what a walk has returned, and not of the rows
between which its offset stands. `ListInv` adds the two sets that a page boundary can hide:
tasks that matched from the start and that the walk will not come to any more as things are
(`Missed`), paid for by rows that left, and rows still ahead that it has returned already
(`Awaited`), paid for, together with the repeats so far, by rows that entered. A row that comes
back is paid for again, so the statuses need not go one way. A write moves one row in or out of
the result and shifts the places of the older ones by one, so one row at most crosses the offset
(`OneCrosses`). A page that is not full is the last one (`ShortPageIsLast`), because the places
of a finite set have no gaps (`PlacesAreTaken`).

### Registry cache and URLs

`DecisionIsRecent` speaks of requests that have been judged, and says nothing of a fetch
under way or of the cache, which judge the next ones. `CacheInv` adds them (`HoldsRecent`):
a fetch holds a version that was served after the fetch began, the cache one that was
served after its expiry less the TTL. That an old answer can overwrite a newer one in the
cache does no harm because it brings its own, earlier expiry. The step that redeploys the
executor needs the rest of `CacheInv`: nothing on record is later than the clock.

`RunsWhatWasValidated` and `RunnableIsAccepted` compare the scheduler's reading of a URL with
the executor's. `Reasoned`, in `CacheInv`, ties a decision to the version it was made by. The
rest is about sequences: `BeforeFacts` says where a cut ends, `StripFacts` what stripping
slashes leaves, and from these `NameAmongSlashes` (a path the validation accepts is one name
among slashes), `NameThenRest` (what Starlette's one segment is) and `RunsItsName` (if
the executor runs such a path at all, it runs that name). `AsItIs` says that a path without dot
segments and encoded text reaches the router unchanged: an accepted path is of that kind, because
it is made of slashes and a registered name, and so is a plain one. Both operators are defined without
recursion, by the first and last position with a property (`FirstAndLast`).

### Recurrence

`ChainSurvives` says nothing of a chain that still runs. `InArrears`, in `ClockInv`, adds how
far behind it may be: a job waits, and a run began, no later than `delay` after its date. A
run's own lateness and what it took beyond the distance to the next date are handed on
together; that the sum is what counts, and no delay counts twice or gets lost between the row's
date and the job's, is the induction.
`NextFacts` says that no cron date lies between a date and the next one.

`NoDrift` is inductive with a lemma on `%` (`InStep`: a period more or less does not change
the remainder). `EndsWhenExhausted` needs that a set of later cron dates has a first
(`EarliestDate`, by the well-foundedness of the natural numbers): it is why a chain is never
without a next date while there is one.

A note for whoever edits the modules: tlapm 1.4.5 draws wrong conclusions from an
update that names the same argument twice, `[f EXCEPT ![t].a = x, ![t].b = y]`. Every
such update is written `[f EXCEPT ![t] = [@ EXCEPT !.a = x, !.b = y]]`.

### Only model-checked

* liveness, which is outside TLAPS's reach here: `EventuallySettled`, `AcceptedFinishes`,
  `EveryoneEnds`, `SchedulerDrains`, and the fairness half of `ImplementsEngine`, whose
  safety half is `SystemIsAnEngine`.

Every invariant and every action property of a passing run is a theorem, and so is the safety
half of every refinement.

Each property of a passing run has a mutant in `PROJECT.json`: a plausible slip in a
mapped definition which that run then refutes.

## 6. Where code and documentation disagree

Each is a run that TLC refutes with a short trace.

* **Terminal states are re-entered** (`terminal_reentered`). README.md:334 says they
  never are. A DELETE that commits between another writer's read and write is
  overwritten by it, and one that read earlier overwrites a verdict. What does hold,
  and is proved, is `ClosedStaysClosed`: a terminal task *at rest* is left alone.
* **`max_retries = 0` strands a task in RUNNING** (`zero_cap`), where README.md:368
  says it becomes FAILED.
* **A PENDING task without a job** (`early_job`), against README.md:323: a job that is
  due at once can run before the row it was registered for is committed.

The models show more that the documentation denies or does not say, without a run of its own:

* *The attempts of a cancelled task go on.* They look at the row but not at its status, so
  the webhook of a task that was cancelled while RUNNING is called up to its cap, against
  README.md:334-335 ("short-circuits").
* *A cancelled run can have a follow-up*, against README.md:425-426: a cancel that waits for
  the row lock of a SUCCESS overwrites it, and the chain goes on.
* *RUNNING to CANCELLED* is what `cancel` does and README.md:319 draws, but not in the table
  that `utils/transitions.py:4` calls the valid edges. The scheduler's own commits keep to
  the table (`ProgressFollowsTable`).
* *A date without a time zone* is UTC for the row and local time for the trigger
  (`JobDates` in `RecurrenceClock`): outside a UTC container the first run starts at
  another time than its `execution_time`.
* *A 201 can name a task that is not there* (`Respond` and `Finish` in `TaskListing`): the
  commit follows the response.
* *A URL with a stray slash passes the validation and cannot run*, against
  README.md:348 ("only executable webhooks are scheduled"), and *other spellings that
  would run do not pass* (`WebhookNames`): a fragment, dot segments, a percent-encoded name
  (`/webhooks/daily%2Dsummary`), the host in capitals. README.md:342 asks for the prefix, so
  the refusal is documented for the last one only.
* *Work is done twice without a time-out, and FAILED is recorded for work that was done*
  (`Unheard` in `System`): a sync webhook works before its flush and its answer, and a database
  error or a stop of the executor in between is a failed call to the scheduler.
* *A restart of the scheduler can end a recurrence*: a date that goes by for longer than the
  grace while the scheduler is stopped or blocked costs the job, and with it the chain.

## 7. What is not modelled

* Durations. Back-off, delays and poll intervals are "some time" everywhere but in
  `RecurrenceClock` and `RegistryCache`.
* Graceful shutdown: `shutdown(wait=False)` cancels the coroutines in flight, whose
  sessions roll back; for the tables and the job store that is `Crash`, for the clock `Leave`.
* A path of its own in `EXECUTOR_BASE_URL`, and a proxy that rewrites paths.
* A negative `limit` or `offset`, which PostgreSQL refuses; `pool_pre_ping`; the limits of the
  HTTP client, which are above the number of sessions that can be inside a call.
* croniter's calendar, and `next_run_time` across changes of daylight saving time (dates
  are UTC in the row).
* Middleware, request ids, logging, the mapping of exceptions to status codes and the
  response models: no state of a task depends on them.
* Migrations, the seed script and compose files: deployment and demo data.
* SQLite, which the tests use: it has one writer, and hides the races above.

`PROJECT.json` gives the reason next to each component.

## 8. Plan

Done: the engine and the executor, each with its abstract specification; their composition, its
fairness and its refinements; connections; reads; validation and the clock; and proofs of all
their safety properties. What could follow, in order of importance:

1. **System** — that a SUCCESS is recorded for every execution that is done is not stated yet;
   it needs the absence of faults on both sides and of time-outs.
2. **System** with a parent and its child, in a larger instance: the proofs cover it, the
   liveness half of `ImplementsEngine` is checked for one task.
3. **Connections** — the liveness that `SomebodyGoesOn` is the safety half of: with the fairness
   of `EveryoneEnds` and a bound on the steps that remain, it is an argument by
   well-founded descent that the temporal prover cannot make.
