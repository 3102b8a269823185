# Backend_stock in TLA+

Models, checks and proofs about Backend_stock: a NestJS/Prisma backend that
analyses stocks through an external Agent, places simulated orders and runs
backtests.  One PostgreSQL database is shared by an API process
(`src/src/main.ts`) and any number of worker processes (`src/src/worker.ts`);
the processes meet nowhere else.

1. [Inventory](#inventory)
2. [Plan](#plan)
3. [The analysis queue](#the-analysis-queue)
4. [Orders](#orders)
5. [Requests of one API process](#requests-of-one-api-process)
6. [The administrators' pages](#the-administrators-pages)
7. [The backtests](#the-backtests)
8. [The users' services](#the-users-services)
9. [Runs and bounds](#runs-and-bounds)
10. [Proofs](#proofs)
11. [Findings](#findings)
12. [Not modelled](#not-modelled)

## Inventory

Paths are relative to `src/src/`.

**Analysis task queue and worker** (`common/worker/task-worker.service.ts`,
`modules/analysis/analysis.service.ts`, `worker.ts`).
State: `analysis_tasks` (status, startedAt, completedAt, schedule),
`analysis_history`, the worker's loop.  Operations: submit (check for an active
task, build the payload, insert), list, stream; per iteration of a worker:
fail stale `processing` rows, trigger one due schedule, else pick the oldest
pending row, lock it by a conditional update, run it through the Agent, maybe
order, write the history row, complete or fail the task, report to the
schedule.  Hard: several workers, a sweep that races with a live handler, a
late result over a recorded failure, crashes and signals between any two
statements, the duplicate guard.  Correct when a task is handled once,
published once, settles, and its terminal status tells the truth.

**Schedules** (`modules/analysis/analysis-scheduler.service.ts`).
State: `analysis_schedules` (enabled, nextRunAt, last task and its status).
Operations: create, patch, delete, trigger the next due one, record a task's
state.  They call the queue inside one transaction, and the
worker reports back outside of any.  Hard: two workers at one slot, a user
editing meanwhile, lost and crossing reports.  Correct when a slot fires once,
only when due and enabled, and the report is never ahead of the task.

**Agent run bridge** (`common/agent/agent-run-bridge.service.ts`).  Submits a
run, polls with retries and a time budget, fetches the result.  Memory only.
Hard: retryable and final errors, a timeout racing the answer.  Correct when
it ends, and returns a run only of the task it created.

**Orders** (`modules/trading-account/trading-account.service.ts`,
`modules/agent-chat/agent-chat.service.ts`, `common/broker/`).  State:
`analysis_auto_orders` (the audit, unique per task and stock), the upstream
simulated account.  Operations: place (look the key up, call upstream, write
the audit), cancel, add funds.  Called by the HTTP API, by the worker after an
analysis and by the chat agent.  Hard: a check and an act around a network
call, a crash between the order and its audit, an audit row shared by two
orders.  Correct when one intention places at most one order and the audit
says what happened upstream.

**Simulation account** (`modules/broker-accounts/broker-accounts.service.ts`,
the snapshots of `modules/trading-account/`).  State: `user_broker_accounts`
(credentials, verified), `user_broker_snapshot_cache`.  Bind stores the account
in a transaction, has the Agent verify it, then marks the row verified; every
page looks at the cached snapshot or fetches a new one; a deposit goes to the
Agent and refreshes the snapshot.  Hard: two binds that overlap, a snapshot that
is fetched before a deposit and stored after it, rows that former versions left.
Correct when trading goes to the account bound last, and a user who was told of
a deposit sees it.

**Strategy AI interpretation queue**
(`modules/backtest/backtest-ai-interpretation.service.ts`).  State: status,
attempts and next retry of a run group.  A worker picks, locks, asks the Agent,
writes the result and completes or schedules a retry; the Agent may write back
on its own.  Hard: crash in `processing`, a write-back that races with a job,
the last attempt.

**Agent backtest** (`modules/backtest/agent-backtest.service.ts`).  State: run
groups (status, phase, result versions) unique by request hash.  A request runs
the fast phase and inserts; a worker refines.  Hard: the hash race, a crash in a
refine, the order of versions.

**Backtest evaluation and saved strategies**
(`modules/backtest/backtest.service.ts`, `user-backtest-strategy.service.ts`,
`scripts/backtest-recompute-all.ts`).  State: a result per analysis, summaries
per owner and stock, saved strategies.  Hard: results saved one by one and
summarised at the end, a recomputation that deletes first, updates filled from
a row read earlier and made to fit its template.  Correct when the summaries say
what the results say, a strategy that is saved can be run, and an update changes
only what it names and what that makes necessary.

**Sessions and login** (`modules/auth`, `common/auth`).  State: users, roles,
sessions, login failure counters.  Operations: seed and migrate roles at the
first request of a process, log in, register, change the password, log out.
Hard: counting by read then write, a session created while its user is being
disabled, databases of former versions.  Correct when a session is of the
account as it is, and guesses are limited.

**Admin users and roles** (`modules/admin-users`, `modules/admin-roles`).
State: users, roles, their relation.  Hard: the last-admin guard and the
assigned-users guard under concurrent requests, writes of values loaded before
the transaction.  Correct when an administrator is left, a disabled user stays
so until somebody enables it, and deleting a role takes it from nobody.

**System configuration** (`modules/system-config`).  State: items, revisions.
Hard: an optimistic version check that is not in one transaction with the
writes it protects.  Correct when a version stands for one content.

**User settings and AI runtime** (`modules/user-settings`, `common/ai`).  State:
provider and token of a profile.  An analysis is given the user's model and
token, or a system default.  Correct when a token goes only to its provider.

**Trading session and automatic order** (`common/utils/trading-session.ts`,
`common/worker/task-worker.service.ts`).  Calculations: whether orders are
allowed and when they next are; the order a worker derives from an analysis,
within its limits and the means of the account.  Hard: the edges of windows,
days and weeks, and the conversion to the exchange's local time there; an account
that moves between the look and the order.

**Task stream** (`modules/analysis/analysis.controller.ts`).  Every two seconds
the task list is read and compared with what the last poll saw.  Hard: a poll
that is overtaken by the next, a task that moves between the two reads of a
list.  Correct when each task's events come in the order of its life, once.

**What the Agent writes back** (`modules/agent-chat`).  History and news of a
chat message, which may be saved again.  Hard: look-ups without an index behind
them, one row of news for all who find it.  Correct when saving again changes
nothing.

**Others.**  Portfolio health (a calculation), admin logs, history, stocks,
indicators, crypto, health, database preparation, scripts.  `PROJECT.json` lists
each with its status, and the hazards of all of them line by line.

## Plan

In this order, the most consequential behaviour first:

| # | Modules | Model | Theorems |
|---|---|---|---|
| 1 | `AnalysisQueue`, `TaskLifecycle` | queue, worker, schedules; the life of one task as abstract specification | types, all safety, refinement: proved |
| 2 | `OrderPlacement` | place, audit, broker | types, audit truth, one order per key: proved |
| 3 | `ApiRequests`; `Directory`, `AdminDirectory`, `LoginSessions`, `SystemConfig`; `AdminConsole` composes them | users, roles, sessions, limit, versioned items | types, all safety: proved |
| 4 | `ReplayBacktest`, `StrategyInterpretation`, `BacktestEvaluation`, `SavedStrategies`; `Backtests` composes them | the two backtest queues, the summaries, saved strategies | types, all safety: proved |
| 5 | `SimulationAccounts`, `UserSettings`, `AgentBridge`, `AutoOrder`, `AgentHistory`, `TaskStream`, `TradingSession`, `PortfolioHealth`; `UserServices` composes them | account, settings, bridge, order, history, stream, guard, score | types, all safety but the two calculations: proved |

What is left of the plan is the proof of the two calculations,
`NextOpenIsFirst` and `ScoreNeverGains` (see [Only model-checked](#only-model-checked)).
Every module takes its parameters as named constants with an assumption, has one
action per statement or handler, and declares no recursive operator, so that
TLAPS can be used on it.

## The analysis queue

`AnalysisQueue` models the two tables, the API requests that write them and the
worker loop; `TaskLifecycle` says what it promises about one task.

*Grain.*  One action is one database statement, one short transaction or one
await on an outside service.  Code between two awaits runs alone in its Node
process, so finer steps would add nothing; code separated by an await is in
different actions, because another process (or another request of the same
process) may run in between.  The trigger transaction is the exception that
matters: it stays open while the payload is built, so `rowLock[s]` is the row
lock of its claim, held from `Claim` to `CommitTrigger`, and what it writes
appears at the commit.

| State | Code |
|---|---|
| `task`, `created` | rows of `analysis_tasks`, ids in creation order (priority and run_after keep their defaults everywhere, so this is the queue's order) |
| `history[t]` | number of `analysis_history` rows with `query_id` = t |
| `sched` | rows of `analysis_schedules` |
| `pc`, `cur`, `stale`, `cand` | the await a worker is at and its local variables: the task it handles, the stale rows it read, the due schedule it read |
| `req` | an API request between its read and its write |
| `now` | the clock, in ticks |
| `faults`, `stops` | budgets of crashes, failed calls and signals |

| Actions | Code |
|---|---|
| `SubmitCheck`, `SubmitInsert`, `RequestAborts` | `submitAsync` before and after building the payload |
| `CreateSchedule`, `PatchRead`, `PatchWrite`, `DeleteSchedule` | the schedule API; `updateSchedule` reads, computes the row, writes |
| `FindStale`, `Reap` | `recoverStaleProcessingTasks`: one read, then one conditional update per row read |
| `FindDue`, `NoneDue`, `Claim`, `FindActive`, `NoActive`, `SkipSlot`, `FireSlot` | `triggerNextDueSchedule` |
| `PickPending`, `Idle`, `LockTask` | `processOne` |
| `RunSucceeds`, `WriteHistory`, `MarkCompleted`, `HandlerThrows`, `MarkFailed` | `handleTask` |
| `SyncScheduleState`, `SyncLost` | `syncScheduleState`, which swallows errors |
| `LoopThrows`, `Crash`, `Terminate`, `Restart` | an iteration that throws, a process that dies, SIGTERM, the supervisor (`docker-compose.yml:21`) |

Details a reader may look for:

- `Reap` tests staleness at the time of its own statement; the code compares
  with the cutoff of the read.  The two agree: `startedAt` is written once, so
  a row past the cutoff is past it ever after, and the statement can only find
  rows that were read.  The `completedAt: null` of the code is the status test.
- `MarkCompleted` and `MarkFailed` name the row by id only.  A task that was
  reaped may therefore turn completed, which `TaskLifecycle` allows
  (`Complete` from `failed`), and never the other way round.
- `RunSucceeds` and `HandlerThrows` stand for the Agent run, the mapping of its
  result and the automatic order, whose effects are outside these tables.
- Deleting a schedule sets the reference of its tasks to null
  (`schema.prisma:448`).
- The bound on tasks reserves a row for each insert in progress (`Room`), so
  that the bound never blocks a transaction in the middle.

*Fairness* (`FairSpec`).  A live worker keeps executing: its loop catches what
it awaits, and a bridge call ends because its poll budget does, so weak
fairness of `WorkerStep`.  A dead worker is restarted (`restart:
unless-stopped`).  Time passes.  Nothing is assumed of users, of faults or of
the answers: fairness is of the worker's step as a whole, so a run may always
throw.

*Symbols with an underscore* (`Reap_ById`, ...) are the following definition
with a plausible mistake; each property is known to fail with one of them.

## Orders

`OrderPlacement` models `placeOrder` and its three callers.  A call is an HTTP
request, a chat tool call or the worker's automatic order; `pc[c]` is the await
it is at: `check` (the lookup of its key), `place` (the request to the broker)
and `audit` (the upsert).  `orders` is what the broker accepted, which the code
never sees as such, and `audit` the rows of `analysis_auto_orders`.

| Actions | Code |
|---|---|
| `FormOrder`, `ChatOrder`, `AutoOrder` | the controller, `placeSimulatedOrderForAgent`, `maybeAutoPlaceOrder`: what each gives as key and source task |
| `Replay`, `Proceed` | `findExistingIdempotentOrder`: a submitted row of this user and key is the answer |
| `Accept`, `LoseAnswer`, `Refuse` | the broker accepts, accepts while `post` times out, or does not accept |
| `Insert`, `Update`, `RejectRow` | `writeOrderAudit`, an upsert by (task, stock) against a unique key column and a task column of 64 characters |
| `Crash` | the process dies or a statement throws |

- *Keys and rows do not match.*  A chat session has one row for each stock but
  a key for each order; a manual order has by default a key that names neither
  user nor quantity, in a table where keys are unique.  So rows are shared
  between orders and between users, and an update leaves the row's first user
  and terms.  `SameRow`, `KeyTaken`, `Rewritten` keep this exactly.
- *The broker is external.*  The key is sent to it (`backtrader-agent.adapter.ts`)
  and it may well refuse a second order with it; nothing in the repository says
  so, and the model does not assume it.
- *`exposed`* is a history variable: the pairs of user and key for which the
  code cannot promise one order, each added by the step that causes it.  A pair
  is exposed when a second call passes the lookup while the first is under way,
  when an accepted order gets no row, or when its row changes its key or user.
  `OneOrderPerKey` says that nothing else makes a key order twice.
- Quantities and prices are part of one value, the terms.  The limits and
  prechecks of an automatic order decide only whether it arrives.

## Requests of one API process

`ApiRequests` is what the modules of the next three sections have in common.
A handler is at some await (`pc[c]`), has its parameters and local variables
(`req[c]`), and goes on by `Arrive`, `Goto`, `Finish`.  An action of a component
is one database statement, one short transaction or one outside call, as in the
queue; requests interleave at every await, which is all that one Node process
and PostgreSQL at its default isolation level let them do.  A call fails
(`CallFails`, `Throws` to the handler that catches it) or the process dies and
every request in it with it (`Lose`, `ProcessDies`).  Loops of worker processes
are clients that nobody asks (`Workers`).

*History variables.*  Much of this code looks first and writes later.  A
property that simply forbade the outcome would be false, and one that allowed
it would say nothing.  The modules therefore record, in a variable marked
history, which requests were overtaken between their look and their write, and
the property says: this happens only through such a request.  The exceptions
are named (`overtaken`, `blurred`, `torn`, `outrun`, `lagging`, `raced`, ...),
each is set by the step that causes it, and dropping one from its property makes
the run fail.  Together they are a list of what this code leaves to chance.

*Composition.*  `AdminConsole`, `Backtests` and `UserServices` put the
components over one process and one set of faults.  Components that share no
table are followed one per behaviour (`page`, `part`): their interleavings
would commute, and every property is about the tables of one of them.

## The administrators' pages

| Module | State | Actions and the code |
|---|---|---|
| `Directory` | `user`, `role`, `session`, `authOn` | `Boot`: `seedBuiltinRolesAndUsers` with its migration of the roles of former versions, in one transaction |
| `AdminDirectory` | `overtaken` | `AdminRequest`, `LoadUser`, `ResolveRole`, `WriteUser`, `InsertUser`, `SetPassword`, `ClearSessions`; `RoleRequest`, `LoadRole`, `CountUsers`, `DropRole`, `WriteRole` |
| `LoginSessions` | `limit`, `guesses`, `blurred` | `CheckLimit`, `DropLimit`, `Authenticate`, `ReadLimit`, `WriteLimit`, `ClearLimit`, `CreateSession`; `FindRole`, `FindName`, `Register`; `VerifyPassword`, `StorePassword`; `WindowPasses`, `SessionEnds` |
| `SystemConfig` | `item`, `version`, `published`, `torn`; outside: `envKeys` | `SeedConfig`, `InsertItems`, `FindBuiltin`, `InsertBuiltin`, `ReviseSeed`; `ReadVersion`, `FirstVersion`, `ReadItems`, `CheckVersion`, `WriteItem`, `CreateRevision`; `WriteMarket` |

A password is the number of the change that set it, and a session remembers the
one it was opened with; whoever logs in knows the password of the moment or a
wrong one.  Authentication may be on or off at each start, because role
migration runs only with it on and the user pages work without it.

- *Migration* maps users with an old admin role, and users of a name that the
  code lists (`Promoted`, line 231 of `auth.service.ts`), to admin, and all
  others to user.
- *Seeding the configuration* takes up to five statements: what is there, the
  rows of `.env` (`envKeys`), which built-in rows are missing, those, and a
  revision.  Two first requests may both seed; the unique keys refuse the later.
- *Bound*: the configuration page and the edit made on it are one request
  (`EditRequest`), so a page does not outlive the process that gave it out.
- *Not modelled*: a new username in an update of a user
  (`admin-users.service.ts:351`), which no other step looks up here.

## The backtests

| Module | State | Actions and the code |
|---|---|---|
| `ReplayBacktest` | `replay[h]`: the run group of a request hash | `FindGroup`, `RunFast`, `InsertGroup` (`runAgentRange`); `ShowReplay` and `ReadSummary`, `Interpret`, `WriteSummary` (the interpretation a page asks for); `PickGroup`, `LockGroup`, `LoadGroup`, `RunRefine`, `StoreRefined`, `FailGroup` (`processNextRefineJob`) |
| `StrategyInterpretation` | `job[g]`: a strategy run group | `RunStrategies`, `CreateJob`; `ShowJob`; `ReadRuns`, `Ask`, `WriteRuns`, `MarkDone`, `PutOff`; `PickJob`, `LockJob`; `ReadGroup`, `WriteBack` |
| `BacktestEvaluation` | `result`, `summary` | `Candidates`, `Evaluate`, `SaveItem`, `SaveFails`, `ReadRows`, `WriteRows` (`run`); `DeleteResults`, `DeleteSummaries`, `ReadBatch` (`recomputeAll`) |
| `SavedStrategies` | `strategy` | `InsertStrategy`, `RequireStrategy`, `UpdateStrategy`, `DeleteStrategy` |

- *Parameters of a strategy* are kept as far as `normalizeBacktestStrategyParams`
  tells them apart: of numbers those of the template stay (`FieldsOf`), cut to
  whole ones (requests count in halves), with a default for the missing and
  refusals for those out of bounds or in the wrong order; of rules only whether
  there is an entry condition.  A draft is normalised against the template it
  ends with, so an update that names only a template drops, fills in and may be
  refused for parameters it did not name (`Merged`, `Draft`, `Accepted`).
  `EditKept` says exactly what stays.
- *What the Agent says of an evaluation* repeats the owner and the stock that its
  candidate was sent with; the code would prefer a different answer
  (`backtest.service.ts:827`).

What a result says is left out; a summary remembers which results it was
computed from, so that `SummariesCurrent` compares contents.  The figures of a
replay are the version they are of: the interpretation is written into the JSON
that was read before the Agent was asked, so it writes figures back, and
`DetailIsOneVersion` says that they are of the rows that are shown.

*Fairness.*  Workers of both kinds keep executing (`restart: unless-stopped`,
loops that catch what they await), and retry times come.  A page that began a
request need not go on.  Nothing is assumed of the Agent: a worker whose call
never succeeds runs out of attempts.

## The users' services

| Module | State | Actions and the code |
|---|---|---|
| `SimulationAccounts` | `account`, `snapshot`; outside: `funds`, `provisioned` | `Bind`, `BindRefused`, `Verify`, `MarkVerified`; `Resolve`, `Peek`, `Fetch`, `Store`, `Deposit`, `Told` |
| `UserSettings` | `profile`, `systemLlm` | `ReadProfile`, `RefuseProfile`, `WriteProfile`; `EffectiveLlm`, `RefineLlm` are what is made of them |
| `AgentBridge` | `agentTask`, `overdue`, `verdict` | `CreateRunAsync`, `CheckTime`, `Poll`, `PollFails`, `GetRun`, `GetRunFails` |
| `AutoOrder` | outside: `holding` | `Precheck`, `Place`; `Plans`, `Executable`, `Limited`, `Affords` are the calculations before them |
| `AgentHistory` | `history`, `news` | `FindRow`, `CreateRow`, `FindNews`, `FillNews`, `CreateNews` |
| `TaskStream` | `ticks`, `known`, `told`; outside: `task` | `PollBegins`, `ReadRunning`, `ReadEnded`, `PollEnds` |
| `TradingSession` | `sessions`, `clock` | `Tick`; `Allowed`, `Wait` are the guard and the next opening |
| `PortfolioHealth` | `portfolio` | `Worsen`; `Score`, `MaxDrawdown`, `RebalancingNeeded` are the calculations |

- *Tokens* are named by the provider they were entered for, so that
  `TokenOfItsProvider` can tell where one goes.  The page is given the plain token
  (`user-settings.service.ts:135`), and sending it back with another provider
  passes the check for a new one (line 191); the property names this beside
  requests that cross (`blended`).
- *Local time*: the guard asks `Intl` for `hour12: false` and `hourCycle: 'h23'`
  (`trading-session.ts:91`), the first of which makes the hour after midnight hour
  24 (`ReadMinute`).  So a weekday window is not open in that hour and windows
  that begin in it are not announced for their day, and who asks in it is told a
  later opening than the next.  `NextOpenIsFirst` states what is left: exact
  outside that hour, an opening but a later one inside it, for windows that begin
  after it.  The default windows do.  `Corrected` is the loop that turns a local
  time into UTC with the same conversion.
- *Portfolios* (`Consistent`) are the values that the metrics can have together.
  The largest position is a share of the market value and an industry a share of
  all assets, so neither bounds the other; the drawdown is the one reported or,
  without one, that of the equities.
- *The bridge*: one analysis is followed at a time, since two have nothing in
  common.  The Agent's task is outside and may do anything a task can.
- *The stream*: a poll that the next one overtakes still writes what it saw into
  `knownStatuses` and tells nobody (`lost`); a task that moves between the two
  reads of a list may be listed twice or not at all (`shifted`).  The two are
  the only tasks that `StreamTellsLives` excuses.  Whether a poll is the first
  is decided after its await, so it is not when it took longer than the
  interval.  A task that ended before the page connected is announced by the
  second poll as created and completed: the property allows it, since no text
  of the repository says otherwise.
- *Calculations* are walked through: `Tick` compares the guard of each minute
  with that of the next, and `Worsen` the score of a portfolio with that of a
  worse one, so that an error at a boundary shows as a jump.

## Runs and bounds

| Run | Instance | Checks | Shows |
|---|---|---|---|
| `queue_workers` | 2 workers, 2 clients, 2 tasks, no schedule, timeout 2 of 4 ticks, 1 fault, 1 signal | `SingleConsumer`, `HistoryMatchesTask`, `CompletedIsFinal`, `FailsForAReason`, `ImplementsLifecycle` | workers, sweep, late results and crashes keep each task's life |
| `queue_schedules` | 2 workers, 1 client, 1 schedule, 2 tasks, 1 tick, 1 fault | `TypeOK`, `ScheduleNeverAhead`, `FiresDueSlotOnce` | triggering against edits, deletes and late reports |
| `queue_liveness` | 2 workers, 2 due schedules of 1 stock, 2 tasks, 1 tick, 1 fault, no users | `EveryTaskSettles`, `DueScheduleAttended` | work gets done through a crash, and due slots are fired or skipped behind each other and behind an active task |
| `queue_shutdown` | 1 signal, no fault | `NoHalfProcessedTask` | violated, see Findings |
| `queue_duplicate` | 2 clients, one stock | `NoDuplicateActiveTask` | violated, see Findings |
| `orders` | 2 calls at a time, 3 requests, 2 users, 2 stocks, a buy and a sell, 1 session, 1 task, 2 client keys of which 1 long, 1 fault | `TypeOK`, `AuditNamesItsOrder`, `OneOrderPerKey` | keys, rows and orders stay in step except where named |
| `orders_audit` | 1 call at a time, 1 session, no fault | `AuditDescribesItsOrder` | violated, see Findings |
| `orders_trail` | 1 call at a time, a long client key, no fault | `EveryOrderHasARow` | violated, see Findings |
| `admin_console` | 2 clients, 3 requests (2 of them to change users), 2 users of whom 1 is promoted by name, 4 role rows, limit of 1 failure, 3 items of which `.env` may hold 2, 1 fault, authentication on or off per start | `TypeOK`, `OneRoleEach`, `SessionsFollowAccount`, `GuessesLimited`, `VersionNamesContent`, `LastAdminKept`, `EnabledAsAsked`, `RoleDeletionSpares` | guards that look before they write, excused only where another commit came in between |
| `backtests` | 2 requests, 2 workers, 2 hashes, 2 groups, 2 attempts, 2 analyses of one owner, 2 strategies, 3 templates, 4 sets of parameters, 2 faults | `TypeOK`, `DetailIsOneVersion`, `WorkHeldOnce`, `CompletedIsInterpreted`, `AttemptsBounded`, `SummariesCurrent`, `ReadingsStay`, `EditsKept` | several writers of one group, failures in the middle |
| `backtests_liveness` | the same, replays and jobs only, 1 hash, 1 fault | `QueuesDrain` | work gets done, unless its worker was lost |
| `user_services` | 2 clients, 3 requests, 1 fault; small sets of each part | `TypeOK`, `AccessIsOfLastBind`, `DepositShown`, `TokenOfItsProvider`, `VerdictsTrue`, `StreamTellsLives`, `OrderWithinMeans`, `SavedOnce`, `NextOpenIsFirst`, `ScoreNeverGains` | what a user is told and given is true of the account, the task and the settings |

Two workers are enough to race: every conditional update has one winner, and a
third worker can only lose the way the second does.  Two tasks are enough for a
worker to move on while another is at its first task, for a schedule to skip
because of a task that is not its own, and for the reports of two tasks of one
schedule to cross.  The timeout of 2 ticks out of 4 in `queue_workers` leaves
room for a task to become stale after another worker read it as fresh, and for
a reaped task to be overwritten by its late handler.  Faults and signals stop
when the clock is too near its bound for an orphan to become stale
(`FaultAllowed`), which only liveness needs.  The liveness run starts with two
schedules of one stock that are both due (`QuietSpec`) and has no users, whose
tasks would fill the table: `DueScheduleAttended` counts a slot as attended only
when its row has moved on, not when a worker has found it, and stops asking when
both tasks exist.  The first slot to fire leaves room, so the second schedule
has to be skipped or fired while the stock's task is pending, processing, orphaned
or done.  Safety runs use the symmetry of workers and clients, the liveness
run none.  Deadlock is checked in every queue run: the loop can always go on.

Three requests are the fewest in which a row is rewritten by another order and
its first key is then used again; two in flight are the fewest that overlap.
The order runs, and those below, stop when the requests are used up, so deadlock
is not checked there.

*`admin_console`.*  Two requests in flight are the fewest that overtake each
other, and a third makes the state they leave matter (a sign-in between two
changes).  Two users are the fewest for a last administrator and one to be
promoted; a limit of one failure puts the boundary at the second guess; two
editable items are the fewest that a version can tear.

*`backtests`.*  Two workers race for one group as in the queue; two hashes and
two groups let one wait for another (`born`, the order of requests); two
attempts are the fewest with a retry; two analyses of one owner, taken one at a
time, make a recomputation take two batches, and two stocks give it a summary of
each.  The templates are one of a single number, one of two numbers in an order
and the rules; the parameters that requests give lie inside and outside the
bounds, with a fraction, in the right and the wrong order and with an entry
condition, so every change of template either fits, drops and fills in, or is
refused.  A request names one field, or a template with parameters.  The failures are two, so that a retry can fail after a crash.

*`user_services`.*  Two account rows and two account ids let a bind find its
row, another row or none; a retry limit of one puts the boundary of the bridge
at the second miss, and three misses go past it; cash and shares below eight
with prices of two and three reach each limit from both sides; two tasks, lists
of two and three changes are the fewest in which a list leaves a task out and a
task lives from creation to its end; days of five minutes, of which the first is the
hour after midnight, two minutes ahead of UTC, with two windows have
every order of window edges; the weights, ratios, returns and equities lie on
both sides of each threshold of the score.

## Proofs

### The queue

`AnalysisQueueProofs` proves every safety property of the passing runs for any
number of workers, clients, schedules, stocks and tasks, any timeout and any
bounds, from `ConstantsAssumption` alone:

| Theorem | Property |
|---|---|
| `TypeCorrect` | `TypeOK` |
| `OneConsumer` | `SingleConsumer` |
| `OneHistoryRow` | `HistoryMatchesTask` |
| `QueueImplementsLifecycle` | `ImplementsLifecycle` |
| `CompletedStays` | `CompletedIsFinal` |
| `FailuresHaveReasons` | `FailsForAReason` |
| `SlotFiredOnce` | `FiresDueSlotOnce` |
| `ReportsBehindTasks` | `ScheduleNeverAhead` |

The argument is in four layers, each inductive with the ones before.

1. `TypeInv`: types, plus that live schedules, suspended requests and
   candidates have their fields filled in.
2. `TaskInv`: what is known of a task from where its worker is.  None of the
   safety properties is inductive alone: `MarkCompleted` completes whatever
   `cur` names, so one needs that the task in a handler's hands was started and
   is processing or was reaped, and that its history row is there exactly from
   `complete` on (`HoldsTask`, for every handler in `HandsConsistent`), which is
   stable because no other worker handles it (`SingleConsumer`).
   `RowsConsistent` relates the columns of a row.  The refinement, the action
   properties about status, `SingleConsumer` and `HistoryMatchesTask` follow.
3. `TriggerInv`: a worker between `Claim` and the commit holds the row lock and
   the schedule is still at the slot it read (`HoldsClaim`), because
   every other writer of the row waits for the lock; and the slot it will write
   lies after it (`ClaimsAhead`).
4. `ReportInv`: what a worker about to report knows of its task.  Statuses only
   advance (`StatusAdvances`, from the refinement), so the report is still true
   when it lands.

Frame lemmas (`TaskFrame`, `ScheduleFrame`, `WorkerFrame`) say once which
actions leave which table alone.

### Orders

`OrderPlacementProofs` proves the three properties of `orders` for any number
of calls, users, stocks, sessions, tasks and keys, from `OrderConstants` and
`NoneIsNoRequest` (the value that stands for no request is not a request).

| Theorem | Property |
|---|---|
| `TypesHold` | `TypeOK` |
| `AuditTruth` | `AuditNamesItsOrder` |
| `KeysOrderOnce` | `OneOrderPerKey` |

`AuditTruth` needs that a reply in a call's hands is the order of its own
request (`RepliesOwn`).  `OneOrderPerKey` is far from inductive: it says nothing
about a call that has passed the lookup and not yet ordered.  `KeyInv` adds, for
a pair that is not exposed, that one call at most is past the lookup
(`OneSender`), that it has no earlier order while it has no reply (`NoneYet`),
and that every order of the pair is held by a call or found by its key
(`Accounted`).  The lookup re-establishes `NoneYet` from `Accounted`
(`ProceedStep`), and an update keeps `Accounted` because the row it rewrites
named the very order that the call holds (`UpdateStep`).

### How the three compositions are proved

`AdminConsole`, `Backtests` and `UserServices` are proved along one scheme.

*What a request has in its hands.*  `TypeOK` is inductive in none of them: a
handler uses what an earlier one filled in.  `TypeInv` adds, for every await,
which requests may be at it and which of their variables have a value
(`CallFits` and its parts: `ReplayFits`, `AccountFits`, ...), and which rows are
there (`RolesThere`, `GroupsThere`, `NewsAreThere`).  `GotoTyped`, `FinishTyped`
and `ComesThere` say once what moving a request does, so the proof of a handler
is about its tables.

*Known unless overtaken.*  A request looks, then writes.  What makes its write
right is that what it saw still holds, and this is what each safety property
lacks to be inductive.  Each proof therefore carries a conjunct of the form:
for a request that is not in the history variable, what it read is what is there
(`SeenInv` outside `overtaken`, `SeenOpen` outside `outrun`, `AskOpen` outside
`surpassed`, `DraftFits` outside `overwrote`, `TokenInv` outside `crossed`,
`OrderInv` outside `drained`, `NewsInv` outside `raced`, `MarksInv` outside
`rebound`, `Sees` outside `overrun`).  That the conjunct is inductive is the
proof that the history variables name *every* way to be overtaken.

*One component at a time.*  A page or a part never changes, so an invariant of
one component is kept by the steps of the others for want of anything to change
(`PagesApart`, `OthersKept`, `Elsewhere`).  Failing calls and dying processes
are proved once for all handlers (`FailsTyped`, `StopsTyped`, `LeaveTyped`).

*Assumptions.*  Those the modules name and TLC evaluates: bounds are naturals,
limits are positive, and null (`None`) is none of the values that a column or a
variable may have instead (`NullIsNoRole`, `NullIsNoLimit`, `NullIsNoGroup`,
`NullIsNoJob`, `NullIsNoStrategy`, `NullIsNoVerdict`, `NullIsNoNews`,
`NullIsNoStatus`, `RequestConstants`).  Clients, users, account rows and history
rows are finite sets, because the code counts them or picks the last
(`Extremes`, from the well-foundedness of the naturals: a finite set of naturals
has a greatest and a least element).

### The administrators' pages

`AdminConsoleProofs` and `AdminDirectoryProofs` prove all that `admin_console`
checks.

| Theorem | Property | What had to be found |
|---|---|---|
| `TypeCorrect` | `TypeOK` | codes of roles are unique (`CodesUnique`), so the repair at the start of a process finds one row of each |
| `VersionsHonest` | `VersionNamesContent` | a save that is between its items and its revision, or that failed there, is in `torn` |
| `GuessesBounded` | `GuessesLimited` | `GuessInv`: guesses are at most the counter and the failures on their way to it, and guesses with the logins past the check at most the limit and one for each other request, unless the name is blurred |
| `SessionsFollow` | `SessionsFollowAccount` | what ends a session (disable, delete, reset) deletes the rows that are there, so a session of an account that changed was opened by a login that had looked before (`late`) |
| `RolesAgree` | `OneRoleEach` | `RolesInv`: the start leaves every present user one live role that means something, no page adds or drops such a role while somebody holds it, and no request waits with another one |
| `LastAdminStays` | `LastAdminKept` | `SeenInv`: a request nobody overtook knows the state of its user, and one that demotes knows that two administrators are active |
| `EnablingIsAsked` | `EnabledAsAsked` | the same |
| `RoleDeletionIsSafe` | `RoleDeletionSpares` | the same: the counted users of the role are still none |

`RolesInv` is where the databases of former versions come in: the invariant
holds from the first request of a process, not from the first state, and only
with authentication on, because only then does the start migrate roles.

### The backtests

`BacktestsProofs` proves the types, `BacktestSafetyProofs` the rest.

| Theorem | Property | What had to be found |
|---|---|---|
| `DetailAlwaysOneVersion` | `DetailIsOneVersion` | `ReplayInv`: an interpretation is asked for only of a group that is done (`SeenHolds`), and no version is stored after that, so the summary that is written back is of the version that is shown (`VersionShown`) |
| `WorkAlwaysHeldOnce` | `WorkHeldOnce` | a group in phase refine is held (`RefineHeld`) by one loop (`OneHolder`), a processing job likewise (`ProcessingHeld`, `OneAtWork`) |
| `CompletedOnlyInterpreted` | `CompletedIsInterpreted` | `MarkedAnswered`, with the answer of any of the three writers |
| `AttemptsAlwaysBounded` | `AttemptsBounded` | `LockFits`: the count a lock writes was read before it, and is right whenever the lock succeeds, because a retry puts a job beyond the time of every earlier pick, which the lock repeats |
| `ReadingsAlwaysStay` | `ReadingsStay` | `SeenOpen`, `AskOpen` |
| `SummariesAlwaysCurrent` | `SummariesCurrent` | `SummaryInv`: every summary is settled, or owed by a request that has its stock on its list (`Owed`), or lags |
| `EditsAlwaysKept` | `EditsKept` | `DraftFits`: a draft that nobody overtook is the edit of the row that is there; every draft fits its template, because normalising twice changes nothing; and an id is used once (`IdsUsedOnce`) |

### The users' services

`UserServicesProofs` proves the types and seven of the nine properties that
`user_services` checks beside them.

| Theorem | Property | What had to be found |
|---|---|---|
| `AccessSafe` | `AccessIsOfLastBind` | the row of the last bind is the only live one (`LastInv`), and a request that marks a row has the Agent's answer for the account that the row still holds (`MarksInv`) |
| `DepositSafe` | `DepositShown` | the row a deposit was made into is the one whose snapshot is stored, or is out of use for ever (`Sees`); a snapshot is stored over a newer one only by a request that was overrun |
| `TokenSafe` | `TokenOfItsProvider` | a request that nobody crossed still knows the profile it checked its change against |
| `VerdictSafe` | `VerdictsTrue` | the counts of the loop are at most the calls that failed (`Counted`) |
| `OrderSafe` | `OrderWithinMeans` | `LimitedIsLargest`: a division that rounds down gives the largest quantity a limit allows |
| `HistorySafe` | `SavedOnce` | a row that was looked for and missed is still missing (`Recalls`), and news are still the ones found (`NewsInv`) |
| `StreamSafe` | `StreamTellsLives` | `LivesInv`, `PollsInv`: what was told of a task is a prefix of a life (`Story`) that ends where `known` is (`Matches`), and a poll's entry of it is not older than `known` and not younger than the task (`Timely`); `NoteContinues` adds one note |

`DepositShown` needs no exception for a row whose account is replaced after the
deposit: the row keeps its snapshot, but a snapshot is of an account and is
measured by what was told of deposits into that one.  `TaskStream` compares a list with what is known task by task, each
with the rows that name it, in order (`Noted`); in the code a row concerns its
own task only, so this is what its loop over the rows does.

### Only model-checked

- *Liveness*: `EveryTaskSettles`, `DueScheduleAttended`, `QueuesDrain`.  TLAPS
  has no rule for fairness, nor for `ENABLED`, that its back ends can use here.
- *Two calculations*: `ScoreNeverGains` folds over a sequence of penalties and a
  series of values, and what a fold computes is proved by induction, for which
  the theorems of the library take an operator as parameter.  `NextOpenIsFirst`
  needs the first element of a filtered sequence and the fourth value of a
  recursive function, with the same difficulty, and quotients and remainders by
  the length of a day that is not a number, which the SMT solver does not decide.  TLC walks them through small inputs.
- *The four counterexamples*, which are about one behaviour each.


## Findings

- **A signal leaves a half-processed task** (`queue_shutdown`).  `worker.ts:39`
  says that stopping the poll first avoids leaving half-processed tasks; the
  handler never awaits the iteration under way.  The task stays `processing`
  until a sweep after the timeout fails it.
- **The duplicate guard can be passed twice** (`queue_duplicate`).
  `submitAsync` checks, awaits, inserts; nothing in the schema backs the check.
- **The order audit does not describe its order** (`orders_audit`).
  `trading-account.service.ts:983` says that orders of all kinds can be replayed
  from it; a chat session that buys and then sells a stock leaves one row, with
  the purchase's terms and the sale's key and provider order.
- **An order without a row** (`orders_trail`).  The task id of a manual order is
  its key with a prefix and is not cut to the column; with a key of more than 57
  characters the order is placed, the audit throws, and the same key orders
  again.

## Not modelled

- *Orders*: cancelling, which passes a request on.
- *Users*: a new username in an update, and columns only shown.
- *Queue*: messages, payloads, progress numbers, columns only shown to users,
  heartbeats, the cascade of deleting a user, priority and retries (no caller
  sets them).  A trigger that fails for ever and an embedded loop that ends at
  its first sweep are hazards without a property; `PROJECT.json` says why.
- *Streams*: the stages of a task (a projection of one row), heartbeats, and the
  chat and monitor streams, which are copied from the Agent byte by byte.
- *Chat*: its sessions are kept by the Agent.  The execution audit log is
  appended to and never read.
- *Backtests*: the arithmetic is the Agent's.  Lists, curves, distributions and
  comparisons read rows and change nothing; the caches of news and signals save
  calls only.
- *Settings*: columns other than provider and token are written and read alone.
- *Admin logs*: one append per request, and a mapping of routes to wording.
- *History, stocks, indicators, health*: reads, outside calls and
  floating-point series; two requests share nothing.
- *Crypto, database preparation, migration script*: library calls, and code that
  an operator runs while the system is down.
