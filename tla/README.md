# A verification development for aidevelo

aidevelo runs a company of AI agents: a Node server keeps agents, issues,
routines, budgets and approvals in a PostgreSQL database, wakes agents by
*heartbeats*, and executes each heartbeat as a child process of an adapter. A
separate worker process drains a table of background jobs.

This directory models the parts of that program whose correctness depends on
the order of steps: async functions that interleave at every `await`, two
processes over one database, crashes that lose memory and keep rows. The
reference is the code under `src/`; paths below are relative to it, and
`heartbeat.ts` is `server/src/services/heartbeat.ts`. `PROJECT.json` says for
every definition which lines it models.

| module | what it is |
| --- | --- |
| `RunSlots` | abstract: what the service promises of the runs of an agent |
| `AgentStartLock` | the in-memory start lock and everything that runs under it |
| `AgentStartLockProofs` | its theorems |
| `HeartbeatRuns` | wakeups, the execution lock of issues, executeRun, cancellation, the reaper, crashes |
| `JobLifecycle` | abstract: what `background_jobs` promises of one row |
| `JobQueue` | the background job queue, its workers, the chain of heartbeat ticks |
| `JobQueueProofs` | its theorems |
| `Routines` | a routine's trigger, its dispatchers and the dispatch transaction |
| `IssueCheckout` | checkout of an issue beside its execution lock |
| `Budgets` | cost events, policies, incidents, hard stops and the starts of runs they block |
| `Approvals` | hires, decisions and what they do to agents |
| `PluginWorkers` | the worker process of a plugin under crashes, restarts and operators |
| `PluginJobs` | scheduled and manual runs of a plugin's jobs |
| `RuntimeServices` | local services that runs share: leases, timers, exits |
| `Documents` | the transactions on the document of an issue |
| `HeartbeatRunsProofs`, `RoutinesProofs` | the theorems of these modules |
| `WorkspaceProofs` | the theorems of `IssueCheckout`, `Documents` and `RuntimeServices` |
| `GovernanceProofs` | the theorems of `Budgets` and of `Approvals` |
| `PluginProofs` | the theorems of `PluginJobs` and of `PluginWorkers` |
| `MCServices` | the seven service modules side by side, a small instance of each, in one run |
| `ServicesProofs` | its theorems: what is proved of each service holds of all together |
| other `MC*` | small instances of the other modules, one `.cfg` per run |

Check a run with `tlc -workers 2 -config start_lock.cfg MCAgentStartLock`, the
proofs of a module with, say, `tlapm JobQueueProofs.tla`.

## 1. Inventory

### 1.1 Components

**Heartbeat start lock** (`heartbeat.ts` 187-202, 1802-1836). State: `startLocksByAgent`,
a map from an agent to the promise of the last call chained for it; it lives in
one process. `withAgentStartLock(agent, fn)` chains `fn` behind that promise.
`startNextQueuedRunForAgent` runs under it: read the agent, count its running
runs, read as many queued runs as there are free slots, claim each
(`claimQueuedRun`), launch each (`executeRun`, not awaited). Interaction:
wakeups, the timer (`resumeQueuedRuns`), the end of every run, cancellations
and promotions all call it, some of them *from inside it*. Hard: a count used
several awaits after it was taken; calls that nest and wait for one another.
Correct when: it excludes; slots are never exceeded; of the runs that are there to be
selected the oldest start first; no call waits for itself; queued runs are driven on.

**Heartbeat runs** (`heartbeat.ts` 1526-3466). State: rows of
`heartbeat_runs`, `agent_wakeup_requests`, `agents.status`, and
`issues.execution_run_id`, the *execution lock* of an issue; in memory
`activeRunExecutions` (per instance of the service), `runningProcesses` (per
process). Operations: `enqueueWakeup` (queue, coalesce or defer),
`claimQueuedRun`, `executeRun`, `releaseIssueExecutionAndPromote`,
`cancelRunInternal`, `cancelActiveForAgentInternal`, `reapOrphanedRuns`,
`enqueueProcessLossRetry`, `finalizeAgentStatus`. Interaction: the routes, the
timer and the worker process each make an instance of the service; the
database is all they share. Hard: most functions read, await, and write what
they decided on; a crash between any two statements; two enders of one run.
Correct when: an issue has one active run; a deferred wake is never stranded;
a run ends once and stays ended; a lost run is retried once and a surviving
child keeps its run; every run ends.

**Adapter child process** (`packages/adapter-utils/src/server-utils.ts`).
State: the operating system process, `runningProcesses`. Operations: spawn,
timeout, SIGTERM then SIGKILL after a grace. Hard: a signal is not an end.
Correct when: a tracked child is alive, and an ended run has no living child.

**Job queue and worker** (`server/src/services/job-queue.ts`,
`server/src/worker/`). State: rows of `background_jobs`; in the worker the
poll loop and handlers that lost the race with their timer. Operations:
`enqueue*`, `acquireNextJob`, `markCompleted`, `markFailed`, `cancel`,
`bootstrap`, `runJobCycle`, `shutdown`. Interaction: routes and cron routes
enqueue; a tick handler enqueues the next tick. Hard: `FOR UPDATE SKIP LOCKED`
beside unguarded updates by id; a timeout that does not stop its handler;
deduplication by a window of time; a process that stops with a job. Correct
when: a job in work is one worker's; attempts are bounded and used up; jobs
are settled; ticks keep coming.

**Issue checkout** (`server/src/services/issues.ts`). State:
`issues.checkout_run_id`, `execution_run_id`, `assignee_agent_id`, `status`.
Operations: `checkout`, `assertCheckoutOwner`, `adoptStaleCheckoutRun`,
`release`, status transitions. Interaction: runs check issues out while the
heartbeat service hands the execution lock on. Hard: a former owner judged in
one statement and replaced in another. Correct when: the checkout of a live run is
never another's, and its owner has the execution lock too.

**Routines and cron** (`routines.ts`, `cron.ts`). State: routines, triggers with
`next_run_at`, routine runs. Operations: `tickScheduledTriggers`,
`runRoutine`, `firePublicTrigger`, the dispatch transaction. Interaction: dispatch
creates an issue and wakes an agent; the server's scheduler and the job queue
both dispatch. Hard: an advance of `next_run_at` and a dispatch in two steps, a
transaction whose effects go through other connections. Correct when: a due time
is dispatched once, and no dispatch misses a live run of its routine, unless the
policy says so.

**Budgets and costs** (`budgets.ts`, `costs.ts`). State: policies, incidents,
pause reasons of agents, projects and companies. Operations: `evaluateCostEvent`,
`upsertPolicy`, `resolveIncident`, `getInvocationBlock`. Interaction: a hard stop cancels work of
the heartbeat service; a raise goes through approvals. Hard: look-then-insert
of incidents; `agents.status`, which the board, a hard stop, the raise that ends it and
every run of the agent write, each by a look of its own; an approval that the budgets
and the approval routes both decide. Correct when: one open incident per policy,
threshold and window, and a scope over its limit starts nothing.

**Approvals** (`approvals.ts`, `hire-hook.ts`). State: approval rows.
Operations: approve, reject, request revision, resubmit. Hard: the approval is
stored before what it stands for is done. Correct when: decided once, and an
approved hire is hired.

**Plugin workers** (`plugin-worker-manager.ts`): child processes with JSON-RPC,
crash backoff, pending calls and a restart timer. Correct when: every pending call
is answered once, and a stopped worker is not started by an old timer.

**Plugin lifecycle, loader, registry** (`plugin-lifecycle.ts`,
`plugin-loader.ts`, `plugin-registry.ts`): a state machine of statuses over
rows, with activation as a side effect. Correct when: only legal transitions,
and a plugin that is not ready has no worker.

**Plugin jobs** (`plugin-job-scheduler.ts`, `plugin-job-store.ts`): a tick loop
with overlap prevention. Correct when: a job does not overlap itself.

**Workspace runtime** (`workspace-runtime.ts`): shared services with leases and
an idle timer. Correct when: a leased service is alive, and an unleased one stops.

**Documents, secrets** (`documents.ts`, `secrets.ts`): revisions with an
expected base. Correct when: no revision is lost and numbers are unique.

**Agents and companies** (`agents.ts`, `companies.ts`): pause, resume and
terminate touch `agents.status`, which the heartbeat service also writes.

**Leaf components**: plugin host services and buses, live events, access and
authentication, company portability and skills, adapters, web UI, command line,
database schema. They convert, check or present, and keep no interleaved state.

### 1.2 How they interact

    routes ──wakeup/cancel──▶ heartbeat service ──spawn/signal──▶ child process
      │                          ▲   ▲    │
      │ enqueue          timer ──┘   │    ├─ releases, promotes ─▶ issues
      ▼                              │    └─ status ─▶ agents ◀─ pause/terminate
    background_jobs ◀──poll── worker ┘
      ▲        └─ tick handler enqueues the next tick, ticks the timers
      └── cron route

The heartbeat service and the worker share only the database. Within a process
everything interleaves at `await`.

## 2. Plan

The order is by how much of the system depends on a part, and by how hard its
interleavings are.

| step | modules | what they settle | state |
| --- | --- | --- | --- |
| 1 | `RunSlots`, `AgentStartLock`, its proofs | slots, order and progress of starts | done |
| 2 | `HeartbeatRuns`, its proofs | the life of runs and of the execution lock | done |
| 3 | `JobLifecycle`, `JobQueue`, its proofs | leases, retries and the chain of ticks | done |
| 4 | `Routines`, its proofs, then composed with `JobQueue` | triggers, dispatch, the two schedulers | model and theorems done; composition left |
| 5 | `IssueCheckout`, its proofs | checkout, adoption, release, beside the execution lock | done |
| 6 | `Budgets`, `Approvals`, their proofs | hard stops, incidents, raises, hires | done |
| 7 | `PluginWorkers`, `PluginJobs`, their proofs | crash backoff, statuses, schedules | done |
| 8 | `RuntimeServices`, `Documents`, their proofs | leases and idle stops; revisions | done |
| 9 | `ChildProcess` | timeouts, signals and their escalation | left |

Abstract specifications: `RunSlots` (implemented by `AgentStartLock` and by
`HeartbeatRuns`), `JobLifecycle` (by `JobQueue`).

Theorems: section 6 has those of the modules above. Every safety property the passing
runs check has one.

No module to be proved about has a `RECURSIVE` operator, and constants are
constrained by one named assumption per module.

## 3. The modules

### 3.1 AgentStartLock

| specification | code |
| --- | --- |
| `queue[a]`, `Chain`, `Acquire`, `Unlock` | the promise chain of `startLocksByAgent[a]`, 187-202 |
| `Scan`, `Select` | reading the agent, counting running runs, `orderBy(createdAt).limit(slots)`, 1802-1836 |
| `Check`, `Claim` | `claimQueuedRun`: agent and budget read again, then the guarded UPDATE, 1526-1587 |
| `EndRun`, `Promote`, `ReleaseOnly`, `TailCall` | `cancelRunInternal` 3425-3466 and what follows the adapter in `executeRun`: store, release and promote (2693-2846), start the next |
| `ResumeQueued`, `Wakeup`, `DeferWakeup`, `BeginEnd` | the callers: timer, `enqueueWakeup`, deferral, adapter return or board cancel |
| `SetBlocked`, `SetInvokable` | a budget stop of the company; pause and resume |

An *activation* is one call in progress: `pc`, `agent`, `slots`, `todo`, `run` are
its locals, `parent` is the activation that awaits it. So nesting is explicit: a
claim that is refused cancels the run, which ends by calling
`startNextQueuedRunForAgent` again while the first call still holds the lock.
Runs are numbered in the order of `createdAt`. That is the time at which their
transaction began, and the transaction may wait for the row of the issue
(`heartbeat.ts:2936`) before it inserts: a run may appear after younger ones, even after
a selection they are in (`NewRun`, `MaxLate`). The history `ahead` keeps, for each run,
the younger ones already selected when it appeared (`Overtaking`).

Abstracted: which budget stops the agent (`blocked` is the company's hard
stop), the issue of a run (`HeartbeatRuns` has it; here a deferred wake is
anyone's), the launch of the child.

### 3.2 HeartbeatRuns

| specification | code |
| --- | --- |
| `WakeBegin` … `WakeInsert` | `enqueueWakeup`, 2868-3324: the issue-scoped transaction (`WakeLockIssue`, `WakeCommit`) and the unscoped read-then-insert (`WakeScan`, `WakeInsert`) |
| `StartCount` … `StartSpawn` | the start chain of a process and agent, one run at a time |
| `ExecBegin` … `ExecThrows` | `executeRun`, 2200-2700 |
| `Store`, `SetWake`, `Release*`, `Finalize*` | the four statements every end of a run goes through: `setRunStatus`, `setWakeupStatus`, `releaseIssueExecutionAndPromote`, `finalizeAgentStatus` |
| `CancelBegin`, `BoardBegin` … `BoardNext` | `cancelRunInternal`; pause, resume and terminate with `cancelActiveForAgentInternal` |
| `ReapBegin` … `ReapRetry` | `reapOrphanedRuns` and `enqueueProcessLossRetry`, 1639-1745 |
| `ChildExits`, `RecordPid` | the child, and `persistRunProcessMetadata`, which nothing awaits |
| `Crash` | a process ends at any point: `memory` is lost, rows and children stay |

A *task* is an async function in progress, keyed by what it works on, with its
snapshot of what it has read: `left` holds the rows the reaper or the board
read, as they were. `Services` are the instances of `heartbeatService` (timer,
routes, worker), each with its own `activeRunExecutions`; `Processes` each have
their own start locks and handles.

`JustClaimed` stands for the staleness threshold of five minutes: a run that
was claimed and has not launched its child is not stale. The startup pass has
no threshold, as in the code.

Abstracted: scopes of budgets, sessions, run logs and events, usage, context
snapshots (a coalesced wake merges its context, here it leaves no trace),
assignment of issues. `issues.checkout` also writes `execution_run_id`; that
belongs to `IssueCheckout`. Runs are numbered as in `AgentStartLock`, and may appear late
(`MaxLate`).

### 3.3 JobQueue

| specification | code |
| --- | --- |
| `row`, `order` | `background_jobs`; `order` is `scheduledAt` |
| `AcquireLock`, `AcquireCommit`, `AcquireFails` | `acquireNextJob`: SELECT … FOR UPDATE SKIP LOCKED; UPDATE and commit; rollback |
| `HandlerReads`, `HandlerInserts`, `HandlerReturns`, `HandlerThrows` | the handlers; a tick's ends in `enqueueHeartbeatTick`, a read and an insert |
| `Timeout`, `LateReads`, `LateInserts` | `Promise.race` against the timer, and the handler that goes on |
| `MarkCompleted`, `MarkFailed`, `MarkFails` | the outcome, by id; a statement that fails |
| `Start`, `Bootstrap*`, `Stop` | `main`, `bootstrap`, `shutdown` or a crash |
| `EnqueueCleanup`, `Cancel`, `CronReads`, `CronInserts`, `CronFails` | the routes |
| `BackoffEnds`, `TimePasses` | `nextRetryAt` and `createdAt` against the clock |

Time is counted in units of the 30 s between a tick and the next. `age` is the
time since `createdAt` and is capped at `Window + 1`, past which a tick is a
duplicate of nothing; `ahead` is how far `tickTimestamp` lies after it. The
deduplication reads both, as the code does: a tick in *processing* is still a
duplicate.

Abstracted: settled rows are reset and reused, since nothing but their status
is read again (the routine deduplication, which reads completed rows, belongs
to `Routines`); a tick for which no row is left is left out, which keeps the
table finite and can only make ticks rarer; `markFailed`'s read and write are
one step, which `OneLease` justifies: while the lease is held nothing else
writes the row; timed-out handlers are remembered by the statement they stand
at and not counted; a commit whose answer is lost is not modelled; a job of
another kind is a `workspace_cleanup`, which has no state here.

### 3.4 Routines

| specification | code |
| --- | --- |
| `clock`, `nextRun`, `NextTick` | time in ticks of the cron expression; `next_run_at`; `nextCronTickInTimeZone` |
| `issue` | the routine's open issues by what `execution_run_id` says: none yet, a live run, one whose end is stored (`stale`), or cleared |
| `Bound`, `MayBind` | the unique index `issues_open_routine_execution_uq` |
| `Connection` | the pool of `createDb` |
| `TickRead`, `TickClaim`, `RunsFor` | `tickScheduledTriggers`, 1174-1238: read the due triggers, claim by compare-and-set, dispatch as often as missed |
| `Call`; `JobBegin`, `JobCheck` | `runRoutine` and `firePublicTrigger`; the worker's tick handler and `routineDispatchHandler` |
| `Connect` … `Commit` | `dispatchRoutineRun`, 513-674, statement by statement |
| `WakeAssignee`, `WakeDeclined`, `StartRun` | `enqueueWakeup`: the transaction that inserts a run and binds the issue, or its `return null` for an agent that does not wake on demand; and the `startNextQueuedRunForAgent` it awaits before it returns |
| `RunEnds`, `ReleaseIssue` | the end of a run is stored (`heartbeat.ts:2521`, `3441`), and some awaits later its issue released (`2567`, `3459`) |
| `CloseIssue`, `Rewake`, `Crash` | what the board, a comment or a promoted wake, and a stop do to the issues meanwhile |

The transaction holds the routine's row, but the issue and its wake are
committed by other connections: `CreateIssue` and `WakeAssignee` take effect at
once, and `Crash` rolls back the dispatch and not them. Between `RunEnds` and
`ReleaseIssue` an issue is unseen by `findLiveExecutionIssue` and held by the index.

Abstracted: one routine that stays active and one schedule trigger that stays
enabled; idempotency keys and the authentication of webhooks; the several statements of
the wake, which is one step because the issue's
row is locked (`HeartbeatRuns` has them); what `StartRun` does to runs (`AgentStartLock` has
it, and its wedge: a start lock that never opens keeps the dispatch, with the routine's row);
other users of the pool; the deduplication of jobs, which belongs to the queue; the look for a completed job of the same
tick, since a tick that was dispatched has been overtaken. A checkout also binds an
issue to a run; that belongs to `IssueCheckout`. Issues that are of no more
consequence are forgotten when a place is needed.

### 3.5 IssueCheckout

| specification | code (`issues.ts`, `routes/issues.ts`, `heartbeat.ts`) |
| --- | --- |
| `issue` | `status`, `assigneeAgentId`, `checkoutRunId`, `executionRunId` of one issue |
| `ReceiveCheckout`, `Take`, `Reread` | `checkout`, 925-1010: the conditional UPDATE, then why it did not match |
| `AdoptFree` | its second UPDATE, for a checkout that nobody has |
| `CheckStale`, `AdoptStale` | `adoptStaleCheckoutRun`, 441-477: is the former run over; the UPDATE that names it |
| `ReceiveChange`, `AssertOwner`, `ReadIssue`, `WritePatch`, `WriteRelease` | the routes' look, `assertCheckoutOwner`, `update`, `release` |
| `AdoptLegacyRun`, `QueueForIssue`, `QueueBeside`, `EndRun`, `ReleaseExecution`, `RetryLostRun` | what `heartbeat.ts` does to the execution lock meanwhile |

A request's `seen` and `stale` are what it read; its write asks the row again
only where the code's WHERE does. Abstracted: users as assignees, the check that an
agent may be assigned, the wakes that a change of an issue queues.

### 3.6 Budgets

| specification | code (`budgets.ts`, `costs.ts`, `heartbeat.ts`) |
| --- | --- |
| `CostEvent`, `SelectPolicies`, `ObserveNext` | `createEvent`; `evaluateCostEvent`, policy by policy |
| `SoftLook`, `SoftInsert`, `SoftResolve`, `HardLook`, `InsertApproval`, `HardInsert` | `createIncidentIfNeeded`, for each threshold: look, insert |
| `PauseScope`, `SelectWork`, `CancelWork` | `pauseAndCancelScopeForBudget`, `cancelBudgetScopeWork` |
| `UpsertPolicy`, `ObserveUpsert`; `ResolveIncident`, `ObserveRaise`, `RaiseLimit`, `Dismiss` | `upsertPolicy`; `resolveIncident` with its two actions |
| `ResumeScope`, `SelectOpen`, `ResolveOpen`, `MarkApproval` | `resumeScopeFromBudget`, `resolveOpenIncidentsForPolicy`, `markApprovalStatus` |
| `BoardPause`, `BoardResume`, `BoardPatch` | pause and resume of an agent; the PATCH of an agent or a company, which writes the status and leaves the reason |
| `DecideApproval`, `RequestRevision`, `ResubmitApproval` | `approvals.ts`: the routes that decide or reopen the approval of an incident, and nothing else of it |
| `CheckAgent` … `CheckSpend`, `Refuse`, `QueueRun`, `ClaimRun` | `getInvocationBlock`, read by read, in `enqueueWakeup` and `claimQueuedRun` |
| `ExecuteRun`; `ReadAgent`, `FinalizeAgent` | `executeRun` and `finalizeAgentStatus`, which write the status of the agent over whatever it has become |

A scope is an agent or the company; a project behaves as the company. Amounts are
counted in units of a cost event. The index of incidents is what refuses an insert;
an evaluation it ends is remembered in `aborted`. `state` has of each scope whether it is
paused and the reason of its last pause: a status that is overwritten leaves the reason,
and the end of a budget's pause asks for the reason alone. Each statement of the services is
a step; the routes' read of an approval is one with their write, which loses nothing here,
since each approval is pending at first and `RequestRevision` asks for nothing. `active`
stands for every status that is not `paused`; `terminated` and `pending_approval` are
those of `HeartbeatRuns` and `Approvals`.

### 3.7 Approvals

| specification | code (`approvals.ts`, `agents.ts`, the routes) |
| --- | --- |
| `RequestHire`, `FileHire`, `File` | the agent first, then its approval; other approvals |
| `ReadForDecision`, `Resolve` | `resolveApproval`: a read, then an UPDATE that asks for the status again |
| `CreateAgent`, `LookPending`, `Activate`, `TerminateRejected` | what `approve` and `reject` do next |
| `ReadForRevision`, `ReadForResubmit`, `Overwrite` | `requestRevision` and `resubmit`, whose UPDATE asks nothing |
| `ReadForPause`, `ReadForResume`, `SetAgent`, `TerminateAgent` | other writers of the agent's status |
| `ServerCrash` | ends every request where it stands |

Abstracted: comments, the budget policy and the wake of the requester that follow a
decision, the hire hook's call of the adapter.

### 3.8 PluginWorkers

| specification | code |
| --- | --- |
| `handle`, `proc`, `lock` | `WorkerHandle` and its child; `startupLocks` of `plugin-worker-manager.ts` |
| `Spawn`, `Initialized`, `NotInitialized`, `InitFailed` | `startInternal` up to the answer to `initialize`; a step of the activation may fail after it |
| `StopHandle`, `Escalate`, `SetStopped`, `Returned` | `stopInternal`: drain, SIGTERM, SIGKILL |
| `WorkerExit`, `FireTimer` | `handleProcessExit`, the backoff timer |
| `Install`, `Enable`, `TakeDown`, `UpgradePlugin`, `MarkError`, `WriteStatus`, `RestartWorker` | `plugin-lifecycle.ts`, with `registry.updateStatus` |
| `LoadSingle`, `StartWorker`, `UnloadSingle` | `plugin-loader.ts` |

Everything is one event loop. What follows the exit of a child at once (the
continuations of promises it settles) runs before any other event: `Immediate`.
Abstracted: calls other than `initialize`, the time a backoff takes, `stopAll`.

### 3.9 PluginJobs

| specification | code (`plugin-job-scheduler.ts`, `plugin-job-store.ts`) |
| --- | --- |
| `active`, `ticking` | `activeJobs`, `tickInProgress` |
| `Tick`, `CreateRun`, `MarkRunning`, `CallWorker`, `Answered`, `CompleteRun`, `Advance` | `tick`, `dispatchJob` |
| `TimesOut`, `LateEnd` | the timeout of a call, which rejects the host's promise and nothing else (`plugin-worker-manager.ts:1033`); the worker comes to its end all the same |
| `Trigger`, `QueryRuns`, `CreateManualRun` | `triggerJob`, `dispatchManualRun` |
| `SelectRuns`, `CancelRun`, `ForgetActive`; `EnsureNextRun` | `unregisterPlugin`; `registerPlugin` |
| `WorkerStops`, `WorkerStarts`, `HostCrash` | the worker answers every pending call when it stops; memory is lost, rows stay |

Any statement may fail (`MaxJobFaults`). Abstracted: cron expressions (a job becomes due
at any time), paused jobs, the declarations' sync.

### 3.10 RuntimeServices

| specification | code (`workspace-runtime.ts`) |
| --- | --- |
| `service`, `byKey` | `runtimeServicesById`, `runtimeServicesByReuseKey` |
| `Ensure`, `Reuse`, `Start`, `Ready`, `NotReady`, `Saved`, `NotSaved` | `ensureRuntimeServicesForRun`, `startLocalRuntimeService`, `registerRuntimeService` |
| `ReleaseService`, `Released`, `Stopped`, `ReleaseFails` | `releaseRuntimeServicesForRun`, `scheduleIdleStop` |
| `ServiceExit`, `IdleStop` | the child's exit, the idle timer |
| `CloseWorkspace`, `CloseNext` | `stopRuntimeServicesForExecutionWorkspace`, service by service; a row that cannot be saved ends the rest |

Abstracted: ports, URLs, environments and the content of the rows; that saving a row
takes time and may fail is kept.

### 3.11 Documents

| specification | code (`documents.ts`) |
| --- | --- |
| `link`, `latest`, `base` | `issue_documents`, `documents`, `document_revisions`; `base` is what the writer of a revision had read |
| `BeginUpsert` … `CommitDocument` | `upsertIssueDocument`, statement by statement |
| `BeginDelete` … `CommitDelete` | `deleteIssueDocument` |
| `Writing`, `Creating`, `Unlinking`, `Dropping` | the locks of PostgreSQL's default level: unique entries, rows, references |

Abstracted: content and authors. `Abort` is a failing statement, a crash, or the
deadlock of section 8 that PostgreSQL ends.

## 4. The runs

Every bound is a CONSTANT, named in the module that guards with it.

| run | instance | what it shows |
| --- | --- | --- |
| `start_lock` | 2 agents, 3 runs, 1 of them late, 4 activations (2 roots), 2 slots, 1 deferral, stops and pauses | `MutualExclusion`, `SlotBound`, `OldestFirst`; implements `RunSlots` |
| `start_lock_live` | 2 agents, 2 runs, 1 of them late, 1 slot, nothing refuses a claim, fair | `QueuedRunsAreDriven`: across two agents that promote into each other too |
| `runs_issue` | 2 agents, 1 issue, 2 runs, 1 of them late, 2 comment wakes at a time, 1 cancel, fair | `IssueIsHandedOn` while the owner finishes, is cancelled and promotes at once; `DeferredWakesArePromoted`, `QueuedRunsEnd` |
| `runs_board` | 2 agents, 2 runs, 1 of them late, timer and issue wakes, 1 failing run, 1 adapter exception, 1 pause, terminate or resume | `ChildrenKeepTheirSlot`; implements `RunSlots` |
| `runs_recovery` | 1 agent, 3 runs, two services, 2 crashes, reaper, fair | `RetriedOnce`, `LiveChildrenKeepTheirRun`, `RunningRunsEnd` |
| `job_queue` | 2 workers, 2 rows, 2 attempts, 1 cleanup, 1 failing statement | `OneLease`; implements `JobLifecycle` |
| `job_queue_live` | 1 worker that may be stopped once, handlers may hang, fair | `JobsSettle`, `TicksKeepComing` |
| `routines` | a timer, a request and a worker; 2 ticks, 2 issues, catch-up of 2; any 2 of failure, wake of an earlier issue, crash; 3 connections, fair | `NoLiveIssueIsMissed`, `CreatedIssuesAreWoken`, `DispatchesFinish`, `DueTicksFire` |
| `services` | the seven service modules, each by itself; bounds below | their safety properties, and `ServicesTypeOK`, their types |
| `start_lock_wedge` | as `start_lock_live` with budget stops | `QueuedRunsAreDriven` violated, section 7 |
| `missed_hard_stop` | 1 agent with a budget of 2, 2 cost events at once, nothing else | `HardStopPauses` violated, section 7 |
| `two_workers` | 1 plugin, 2 operators at once | `OneProcess` violated, section 7 |

`services` runs seven specifications side by side: no action of one touches a row
or a variable of another, so each behaviour drives one (`driven`, chosen at the
start) and leaves the others off. It is one run because each instance is small.

| module | instance in `services` |
| --- | --- |
| `Budgets` | 1 agent and its company, 2 evaluations, 1 starter, 1 run, 1 cost event, an amount of 1, 2 or none, 1 decision, 1 change of status by the board, 1 approval that the approval routes are called on |
| `Approvals` | 1 approval of any kind, 3 requests at once, 6 ever, 1 crash |
| `IssueCheckout` | 2 agents, 3 runs (2 of one agent), 2 requests, a patch that assigns; the issue starts free or in the hands of one of the two |
| `PluginWorkers` | 1 operator, 3 handles, 3 processes, 2 crashes in a row |
| `PluginJobs` | 1 job, 2 runs, 1 manual caller, 1 each of failing statement, outage, unload, crash |
| `RuntimeServices` | 2 runs that share a service, one with a second of its own; 3 processes, 1 row that cannot be saved, 1 closed workspace |
| `Documents` | 2 documents, 3 transactions at once, 3 revisions |

**Why the bounds are enough.** The protocols are symmetric in agents, runs and
workers, and each hazard needs few actors. Slots: two slots and three runs make
a selection of more than one run and a run left over; one slot would hide
a count taken too early. The lock: four activations are two roots, each of
which calls once more; the wedge and every cross-agent wait need no more. An issue:
an owner, a waiting wake, and one more that arrives while the owner is finished
by two tasks at once; a third run is the promoted one. Recovery: a run, its
retry, and the retry of the retry that must not exist, so two crashes and three
runs. Jobs: two workers on two rows show a skipped lock and a late tick beside a
new one; two attempts are the least that have a retry and a last attempt; a
window of one unit separates a tick that is a duplicate from one that is not.
Routines: the three kinds of dispatchers race for the row and the cursor; a second of
a kind meets the same compare-and-set and the same lock. Two ticks make a missed
one and a catch-up; two issues are one in work and one being created; of three
connections the two dispatches of the server leave one (section 8 says what
happens when they leave none).
Start lock: one late run is enough to be overtaken; a second would be overtaken by itself.
Budgets: two evaluations race for the incident and the scope, a cost event and a decision of
the board, one start slips between their statements, and its agent's status is written
between a hard stop and its end; the amounts allow a limit that is used up by one event, one
that is warned of by it, and a raise from the one to the other. Two cost events at once are in
`missed_hard_stop`. Approvals: a decision needs one request, its race a second, and a
stale revision a third; six requests are a hire, a revision, a resubmission and two
decisions with one to spare. A checkout has an owner, a successor of the same agent
and a stranger. A plugin's worker needs a handle that leaves, one that is registered
and one that is being started. Documents: a writer, a competitor and a deletion; a
second document is the one a key gets after a deletion.
Symmetry is used only for safety runs; in `services` it is that of the two runs of one
agent, and of one job.

`IssueIsHandedOn` (`NoStrandedWakes` and `OneActiveRunPerIssue`) is checked where
neither a crash nor the reaper occurs: with a crash both parts fail (section 8).
`DeferredWakesArePromoted` and `QueuedRunsEnd` are likewise checked without one.
The wake kind `mention` and the service `worker` are in the model and in no
passing run: each breaks a property, as section 8 tells.

## 5. Properties and fairness

### 5.1 What the safety properties say

* `MutualExclusion`, `SlotBound`: a count of free slots is used several awaits
  after it is taken; the promise chain alone keeps it right. A run may end in
  between (the count was too low, which is safe), none may start.
* `OldestFirst`: the selection is made once and the claims follow one by one, while
  other runs are queued, cancelled and promoted. Only a run that appeared late, after a
  younger one had been selected, is overtaken by it.
* `ImplementsRunSlots`: in both detailed modules an ended run never comes back,
  whichever of its enders writes last, and a run starts only into a free slot.
* `IssueIsHandedOn`: the execution lock is taken, handed on and coalesced into by
  wakes, adapters that return and cancellations, each in transactions of its own: an
  issue has one active run, and a deferred wake has somebody who will promote it,
  the safety half of `DeferredWakesArePromoted`.
* `ChildrenKeepTheirSlot`: nothing but a cancellation gives a slot away while
  the child that used it lives.
* `RetriedOnce`, `LiveChildrenKeepTheirRun`: the reaper acts on snapshots.
* `OneLease`: the outcome of a job is written by id with no guard; the lease
  from SKIP LOCKED and the check of the status by every other writer make it
  safe.
* `ImplementsJobLifecycle`: attempts are counted at the commit of the lease, so
  a job fails for good only when they are used up, whatever handlers, timers
  and cancels do.
* `NoLiveIssueIsMissed`: a dispatch looks for a live issue, creates one and binds it
  in three transactions; the routine's row lock, which only dispatches take, must
  keep every other dispatch out until the issue is bound, or two would be live. It does not
  say that dispatches succeed: the index refuses the wake of one that comes between the
  end of a run and the release of its issue (section 8).
* `CreatedIssuesAreWoken`: the issue is committed before the dispatch; whatever fails
  afterwards must take it back.
* `LiveCheckoutIsKept`: who had the checkout is judged in one statement and replaced
  in another; only what the second still asks keeps a live owner's checkout its own.
* `CheckoutHoldsExecution`: two services write two columns of one row, and a wake
  looks at one of them; were they to disagree, a second agent would be let in.
* `NoWorkOverLimit`: three requests read and write spend, policy and runs in orders that
  must fit: event before policies, policy before spend, and the start of a run both
  before the row that a cancellation also takes. It excepts an evaluation that died
  on the index (`missed_hard_stop`), and is checked with one decision of the board:
  a raise that lowers the limit breaks it (section 8).
* `BoardPauseIsKept`: a budget's pause and its end must not take over a pause that
  somebody else made, whoever writes the status between their statements. What lifts it is
  the board, and the status that a run of the agent writes: the code looks at neither's
  pause there, and section 8 says what follows from that.
* `OpenIncidentsAreDecidable`: no request of the budgets may close an approval it read long
  ago while its incident is open. The approval routes do (section 8): an approval they were
  called on is excepted.
* `HiredOnce`, `DecisionsTakeEffect`: the decision is stored before it takes effect;
  two decisions at once, a retried one, a termination in between must not hire
  twice, nor leave the agent in a state the decision does not say. Both name the
  excuse the code leaves: a stale write over a decision, a crash between the two.
* `OneProcess`, `NoOrphans`: an exit may be a crash, a stop or the end of an older child,
  and a timer may fire after each. Both hold for one operator's request at a time; two
  break `OneProcess` (`two_workers`) and `NoOrphans` too.
* `ScheduledRunsDoNotOverlap`: unregistering forgets which jobs are active while their
  calls go on; what keeps the next tick out is that the last one still waits. It is about
  the runs the host takes for its own: the worker goes on with one whose call timed out
  (`late`), and then two are at work in it, in no other case.
* `JobsAreReleased`: however a run ends or fails to be recorded, its job can run again.
* `LeasedServicesAreKept`, `UnleasedServicesStop`: timers, releases and exits act on what
  another run has leased since; and a service must be neither stopped under a run nor
  kept for nobody.
* `DocumentsAreWhole`: the check of the base revision, the insert and the update of the
  document are separate statements that lock nothing they read.

### 5.2 Fairness

`AgentStartLock`: weak fairness of each activation's step (the event loop runs a
continuation whose await has settled); strong fairness of `ResumeQueued` per
agent (the timer of `server/src/index.ts` calls `resumeQueuedRuns` for ever) and of
the end of a running run. The last is an assumption about the agents' programs: an
adapter's timeout is off unless its configuration sets `timeoutSec`, so the code
itself does not make a child end. Nothing makes wakeups, cancellations, stops
or pauses happen.

`HeartbeatRuns`: weak fairness of the tasks' steps, of the start chain (driven by
the timer), of `ChildExits` (the same assumption about children), and of the
reaper's passes. Nothing makes wakes,
faults, crashes or board calls happen, nor `RecordPid`, which is not awaited.

`Routines`: the timer fires for ever (`setInterval` in `server/src/index.ts`), the
continuations of a dispatch run, a row lock is handed on, time passes. Nothing makes
requests, jobs, refusals, ends of runs or crashes happen.

`JobQueue`: a process that ended is started again (`render.yaml` declares it as a
service, which the platform restarts), the loop polls, `setTimeout` fires, backoffs end and time passes, and the cron
route comes back. *No handler is assumed to return*: `JobsSettle` and
`TicksKeepComing` rest on the timer alone.

The seven service modules are checked for safety only and assume no fairness;
`CHECK_DEADLOCK FALSE` in `services`, `missed_hard_stop` and `two_workers` says that
they stop when their bounds are used up.

### 5.3 What liveness says

`QueuedRunsAreDriven` needs that nothing refuses a claim (section 7 shows what
happens otherwise). `RunningRunsEnd` holds through two crashes: the startup
pass ends or keeps each running row, and a detached run ends when its child does.
`JobsSettle` has an escape that the code leaves open: a job whose worker
stopped, or whose outcome could not be written, stays processing for ever.
`TicksKeepComing` needs the cron route: a tick's own attempt to enqueue the next
is mostly deduplicated against itself.
`DispatchesFinish` needs a free connection beside those of the dispatches.
`DueTicksFire` says the cursor moves on: a crash after the claim still loses the
tick itself, as the code keeps no record of it.

## 6. What is proved

For every value of the constants that satisfies the assumption of the module (and
the hypothesis of the theorem), checked by TLAPS. `Spec` stands for the specification
of the module.

| module | theorem | statement | hypotheses |
| --- | --- | --- | --- |
| `AgentStartLock` | `TypeCorrect` | `Spec => []TypeOK` | `ConstantsAssumption` |
| | `LockExcludes` | `Spec => []MutualExclusion` | |
| | `SlotsAreNeverExceeded` | `Spec => []SlotBound` | |
| | `StartsInOrder` | `Spec => OldestFirst` | |
| | `CallsGoOn` | `Spec => []NoActivationIsStuck` | nothing refuses a claim |
| | `Refinement` | `Spec => ImplementsRunSlots` | |
| `HeartbeatRuns` | `TypeCorrect` | `Spec => []TypeOK` | `ConstantsAssumption` |
| | `SlotsOutliveChildren` | `Spec => []ChildrenKeepTheirSlot` | `Reapers = 0` |
| | `LiveChildrenAreSpared` | `Spec => LiveChildrenKeepTheirRun` | `"worker" \notin Services` |
| | `LostRunsAreRetriedOnce` | `Spec => []RetriedOnce` | `Reapers <= 1` |
| | `OneRunPerIssue` | `Spec => []OneActiveRunPerIssue` | `Reapers = 0`, no `mention` |
| | `IssuesAreHandedOn` | `Spec => []IssueIsHandedOn` | these and `MaxCrashes = 0` |
| | `RunningRunsAreInHand` | `Spec => []NoRunIsForgotten` | |
| | `Refinement` | `Spec => ImplementsRunSlots` | `Reapers = 0`, one process |
| `JobQueue` | `TypeCorrect` | `Spec => []TypeOK` | `JobConstants` |
| | `LeaseIsExclusive` | `Spec => []OneLease` | |
| | `JobsAreLostOneByOne` | `Spec => []LossesAreAccountedFor` | |
| | `JobsFollowTheirLife` | `Spec => ImplementsJobLifecycle` | |
| `Routines` | `TypeCorrect` | `Spec => []TypeOK` | `RoutineConstants` |
| | `NoDispatchTripsAnother` | `Spec => []NoLiveIssueIsMissed` | |
| | `NoIssueIsLeftBehind` | `Spec => []CreatedIssuesAreWoken` | |
| | `NoDispatchIsStuck` | `Spec => []DispatchesGoOn` | more connections than dispatchers of the server |
| `IssueCheckout` | `OwnersAgree` | `Spec => []CheckoutHoldsExecution` | `CheckoutAssumption` |
| | `NoCheckoutIsStolen` | `Spec => LiveCheckoutIsKept` | |
| `Documents` | `NoRevisionIsLost` | `Spec => []DocumentsAreWhole` | `DocumentsAssumption` |
| `Budgets` | `IncidentsStayDecidable` | `Spec => []OpenIncidentsAreDecidable` | `BudgetsAssumption` |
| | `BudgetsKeepPauses` | `Spec => BoardPauseIsKept` | |
| | `HardStopsReachAllWork` | `Spec /\ [][RaisesRaise]_vars => []NoWorkOverLimit` | |
| | `OneDecisionIsSafe` | `Spec => []NoWorkOverLimit` | `MaxDecisions <= 1` |
| | `HardStopsPause` | `Spec /\ [][RaisesRaise]_vars /\ [][ResumesSpare]_vars => [](aborted \/ HardStopPauses)` | |
| | `CostEventsPause` | `Spec => [](aborted \/ HardStopTakes)` | no decisions of the board and no changes of status by it |
| `Approvals` | `NobodyIsHiredTwice` | `Spec => []HiredOnce` | `ApprovalsAssumption` |
| | `DecisionsAreCarriedOut` | `Spec => []DecisionsTakeEffect` | |
| `RuntimeServices` | `LeasesHold` | `Spec => LeasedServicesAreKept` | `RuntimeServicesAssumption` |
| | `ServicesEndWithTheirRuns` | `Spec => []UnleasedServicesStop` | |
| `PluginWorkers` | `OneProcessAtATime` | `Spec => []OneProcess` | `WorkersAssumption`, one operator |
| | `NoProcessIsLost` | `Spec => []NoOrphans` | |
| `PluginJobs` | `SchedulesDoNotOverlap` | `Spec => []ScheduledRunsDoNotOverlap` | none |
| | `RunsReleaseTheirJobs` | `Spec => []JobsAreReleased` | |
| `MCServices` | `ServicesKeepApart` | `Spec =>` the specification of each service | none |
| | `ServicesTypeCorrect` | `Spec => []ServicesTypeOK` | `ServicesAssumption` |
| | `ServicesStaySafe` | `Spec => []ServicesAreSafe` | |
| | `ServicesStepsAreSafe` | `Spec => BoardPauseIsKept /\ LiveCheckoutIsKept /\ LeasedServicesAreKept` | |

`IssueCheckout`, `Documents`, `Budgets`, `Approvals`, `RuntimeServices`, `PluginWorkers`
and `PluginJobs` have a theorem of their types too; that of `PluginWorkers` is for any
number of operators. The module of a run extends the modules it is about, so that TLC
evaluates their assumptions, and `MCServices` assumes those of the seven services.

**The hypotheses.** Each excludes a documented disagreement of section 8 and nothing
else, and without it TLC finds the property violated.
No `mention`: it bypasses the execution lock. `MaxCrashes = 0`: a crash between
the stored end of a run and its release strands what waits; `OneRunPerIssue`
needs no such hypothesis. One process (`"worker" \notin Services`): the worker has start locks and
handles of its own. `Reapers <= 1`: passes that overlap both retry. `Reapers = 0`: the
reaper acts on rows it read before, so that it may call a run running again which
ended meanwhile, free an issue before it queues the retry, and fail a run whose child is
alive but not recorded yet. What the reaper itself promises is `LiveChildrenAreSpared` and
`LostRunsAreRetriedOnce`, which hold with crashes, faults and board calls.
One operator (`\A o, u \in Operators : o = u`): a restart that meets another one's drain
starts a second worker (`two_workers`); crashes, timers and backoffs go on beside the one.
`RaisesRaise`: `resolveIncident` writes its amount over whatever the policy has become, so
that a raise may lower a limit or switch one on again, and evaluates nothing afterwards;
every other change of a limit enforces what it wrote. `MaxDecisions <= 1` implies it.
`ResumesSpare` (nobody lifts the pause of a scope that is over its limit): the board may
resume what it likes, a run of the agent writes its status over the pause, and an upsert or a
raise resumes what a cost event has paused since it looked. `CostEventsPause` has no such
hypothesis and promises less: the scope has been paused for its budget, which a status written
over the pause leaves as the reason.
Nothing refuses a claim (`~BudgetStops`, `~AgentPauses`): a refused claim closes the circle
that `start_lock_wedge` shows. More connections than dispatchers of the server: with as many
as there are, each holds one and waits for another.

**The start lock.** `SlotBound` is not inductive: `Claim` makes a run running
without looking at the count. The strengthening is
`IInv == TypeOK /\ LocalsOK /\ LockOK /\ SlotsOK /\ SlotBound`. `LockOK` says only
the head of an agent's queue is inside the lock *or still has selected runs*:
the second half covers an activation that awaits a nested call. `SlotsOK`
says what was counted is still free: running runs plus counted slots, and
later running runs plus selected runs, do not exceed the limit. `LocalsOK` says
what the locals mean at each `pc`. An action of an activation can disturb
`SlotsOK` of another only if it makes a run of the same agent running, and that
is `Claim`, which holds the lock. Cardinalities are handled once, in lemmas on
adding and removing a run. `Refinement` follows: a step of `IInv` is an Enqueue,
a Start into a slot that `SlotsOK` has kept, an End, or a stutter.
`OldestFirst` needs another invariant on top, `OrderInv`: a caller that waits has selected
nothing (`CallersWait`), and of the queued runs of an agent those selected are the oldest but
for the ones that appeared later (`SelectedAreOldest`): an insertion notes in `ahead` whom it
comes too late for, and a claim takes the first.
`CallsGoOn` needs `WaitInv`: a chain holds exactly the activations that wait for it or are in
it (`ChainsOK`), and a caller waits for a call that is chained (`CallsOK`). As no claim is
refused, only an activation that is in no chain makes a call, so that the head of a chain
awaits nobody and a wait is at most two links long.

**Heartbeat runs.** `IInv` says where a task can stand and with what locals (`Meant`), that the
runs it has in hand exist, and have left the queue where the code has seen that (`Known`),
and that a run is claimed, launched and waited for at most once (`LifeOK`, `MarkedOnce`).
One lemma per action shows that a step keeps it; three more classify every step for what
the theorems ask: which rows it writes (`RowStep`), how it moves a run's execution
(`Lived`), what it does to a pass of the reaper (`ReaperStep`). On these rest:

* `SlotsOutliveChildren`. `SlotsKept` adds to runs with a living child those that are
  claimed or about to launch one: only the run's own execution stores its end then, and it
  waits for the child; a cancellation is excepted by the property.
* `LiveChildrenAreSpared`. `AllSeen`: a pass that has a run in its snapshot without a
  recorded process, and one about to store its failure, is about a run that is attached to an
  execution or has no child, and that stays so, since a crash ends the pass too.
* `LostRunsAreRetriedOnce`. `RetryInv`: a retry's parent ended and is no retry itself, no two
  retries have one parent, and a run in the hands of a pass has none yet. A snapshot may
  be old, but a pass alone creates retries and there is one at a time.
* `Refinement`. `SlotsFree`: what a start chain has counted stays free until it claims,
  since it alone starts runs of its agent.
* `OneRunPerIssue`, `IssuesAreHandedOn`. `HandInv`: an active run owns its issue's lock
  (`ActiveOwns`); a lock's owner is about that issue (`LockOwned`) and, without crashes, is
  active or still to be released (`OwnerLives`); whatever waits, waits for an owner
  (`WaitsOwned`); an end is stored before the lock is looked at (`EndedFirst`); and what a
  wakeup decided under the row lock of the issue is true until it commits (`Decided`,
  `OneDecides`), although ends and cancellations go on beside it.
* `RunningRunsAreInHand`. `Handled`: a handle and, without crashes, a living child belong to
  an execution that waits for them, and a running run is marked by the starter that claimed
  it or is executed until its end is stored, by whichever task stores it. Three kinds
  of steps are told apart: one that goes on with an execution (`Goes`), one that stops
  it (`Stops`, a crash, which is counted), and the claim, which marks the run it makes running.
  It holds with any reapers, cancellations and processes.

**The job queue.** `OneLease` needs `JobsAreExclusive` (a worker has a job from
the row lock to the outcome, and no other has it) and `StatusOfLease` (the row of
a locked job is pending, of a leased one processing). The latter is what makes
cancels, inserts and other acquirers, which all ask for a status or skip the
locked row, leave a lease alone. `AttemptsOK` (a pending row has attempts left, a
settled one is reset) gives the refinement. `JobsAreLostOneByOne` counts: a step that leaves
a row in processing with no worker is the stop of that worker or the failure of its write,
each of which is counted and had one job in hand. `TypeCorrect` adds `OrderOK` (the order of the
rows has each live one once, which a removal keeps: a lemma on sequences), `LateOK` and
`SpentOK`.

**Routines.** `OneDispatch`: from its look for a live issue to its COMMIT a dispatch has the
row. So what it has in hand stays as it found it (`InHands`), and a dispatch that saw no live
issue meets none when it wakes its own: runs end, issues are released and closed beside it, but
only a dispatch, or a wake of an earlier issue, makes one live.
`NoDispatchIsStuck`: whoever has the row is past its own wait for it (`RowIsInUse`) and needs a
connection at most; each of the server's transactions holds one, so that one is left. At
most one issue is bound (`OneIsBound`), so that there is always a place for a new one.

**Checkouts.** `CheckoutHoldsExecution` says of a live owner that it has the execution
lock. It could be broken by a run that comes to life after it was made the owner,
and by an adoption of a checkout whose owner lives. So `StartedOK`: what has the
checkout was started; `RequestsOK`: a request about to adopt has seen the former
owner end, and an ended run stays ended. `NoCheckoutIsStolen` is a step of the same
invariant: the UPDATE names the owner that was seen.

**Documents.** `RevisionsFollow` holds because what a writer read is still so when its
revision appears. `LocksOK` says that: from the insert of its revision to its commit
no other writer has a revision of the document and no deletion has got to it.
`CreationOK` gives one document per key: while one is created the key names none.

**Budgets.** An incident's approval is written by requests that read it long before.
`OwnApprovals`: no two incidents share one. `EvalsOK`: an approval in hand is of the
request's own scope; it is new, pending and nobody else's while its incident is being
inserted; and it belongs to no open incident when it is about to be closed, since the
incidents of its policy were closed first; what the approval routes have changed is excepted
wherever a pending approval is meant. `BudgetsKeepPauses` needs the invariant's types only:
a hard stop's WHERE leaves out a paused agent, and a resume's asks for the reason `budget`.
`HardStopsReachAllWork` needs `WorkInv`: in a scope over its limit, what is at stake (a run
that runs, or that is queued and about to be claimed by a start no look at this budget can
still refuse) is reached by some evaluation in flight: it has yet to read the policies, to
come to this one with an amount that is used up, or to select the work, or it has selected
the run. A start puts nothing new at stake, since it reads the limit before the spend and
the spend only grows; a scope gets over its limit by a cost event or a new policy, each of
which begins such an evaluation, or by a raise. `OneDecisionIsSafe` adds `DecisionInv`: until
the first decision an incident exists only where the limit in force is used up, so that
an amount above the spend is above the limit.
`HardStopsPause` needs `PauseReached`, the same of the pause: a scope over its limit is paused
or some evaluation in flight will pause it, whichever statement of that evaluation is next. It
is what `missed_hard_stop` denies of an evaluation that dies. `CostEventsPause` rests on
`TakenReached`, the same of a scope that nothing has paused yet, and on `BudgetReasons`:
without the board the only reason of a pause is the budget, so that whatever lifts one
leaves that reason behind.

**Approvals.** `HiresArePaidFor` counts, beside the hires done, the requests that may
still hire: together they are at most one for each decision that was stored, by one
conditional UPDATE each, and a stale write that reopens an approval allows one more.
`FilingOK` says that an approval which is not filed yet is decided by nobody.
`DecisionsTakeEffect` speaks of quiet states only; `EffectInv` says for the others that a
decided hire either has its effect or the one request that stored the decision stands
between the two.

**Runtime services.** `TimersOK` (a service with a timer runs and has no lease) makes
the idle stop harmless; `StartsOK` (a service that is starting is one run's) does so for
a start that fails. `LeasesHold` excepts a workspace that is closed, as the code does.
`KeptInv` is the other half: each lease is one that its run has in its list and will come
to, and a service without leases has a timer, or a run that has just released it and is
about to decide.

**Plugin workers.** `WorkersInv` says that only the registered handle has a child, a timer
or somebody at work on it (`HandleOK`), that every process alive is that child (so that
there is one, and none is lost), what each caller at a step of the handle has in hand
(`ThreadOK`: a continuation follows the exit of its own child, a stop is intended and
leaves no timer), that a handle which is stopped is at rest and one that is stopping has
somebody who will finish it (`RegisteredOK`), and that a plugin marked `error` has no
handle (`MarkOK`). An exit of an older child is what it must exclude: `exited` clears the
handle's child whichever it is, and counts a crash.

**Plugin jobs.** `unregisterPlugin` forgets the active jobs, so they cannot be what keeps
scheduled runs apart. It is `TicksOK`: while a scheduled run is in flight its tick is
not over, and a tick dispatches each due job once; a call that timed out ends the run for the
host, and is in `late` until the worker is done with it. `HeldOK`: an active job is
held by a run that has still to release it; `RowsOK`: a row is final before its run is
done, unless it could not be stored.

**The services together.** A step of `MCServices` is a step of one service and leaves the
variables of the others alone, so that its behaviours are behaviours of each
(`ServicesKeepApart`); the theorems of the modules then give the invariants
and the action properties of the run for any constants (`ServicesStaySafe`,
`ServicesStepsAreSafe`), with its one decision and one operator.

Each proof has a lemma per action, and lemmas for what a statement does to a
row and for what leaves the locals alone.

**Only model-checked.** Liveness, since liveness under fairness and ENABLED are out of the
prover's reach: `QueuedRunsAreDriven`, `DeferredWakesArePromoted`, `QueuedRunsEnd`,
`RunningRunsEnd`, `JobsSettle`, `TicksKeepComing`, `DispatchesFinish`, `DueTicksFire`. What they
need besides fairness is proved where it is a statement about single states: nobody waits in
a circle (`CallsGoOn`, `NoDispatchIsStuck`), whatever is under way is in somebody's hands
(`RunningRunsAreInHand`, `IssuesAreHandedOn`), and what is lost is accounted for
(`JobsAreLostOneByOne`, `Lost` being the escape of `JobsSettle`). That those hands move is
the fairness of section 5.2.

Every invariant and action property of the passing runs has a theorem. Each `IInv`, and
what is added to it, was model-checked on small instances before it was proved; so were
`NoActivationIsStuck`, `DispatchesGoOn`, `LossesAreAccountedFor`, `NoRunIsForgotten` and
`PauseReached`. TLC refutes the first two when their hypothesis is dropped.

## 7. Disagreements the runs show

* `start_lock_wedge`: a claim refused inside the start lock cancels the run
  (`heartbeat.ts:1526`), and the cancellation awaits
  `startNextQueuedRunForAgent` of the same agent (`:3464`), which is chained
  behind its own caller. The agent starts nothing until the server restarts.
  With a pause instead of a stop the same happens in the few awaits between
  `Scan` and `Check`.
* `missed_hard_stop`: two cost events that pass the warning threshold together both look
  for a soft incident and both insert one; the unique index refuses the second, the
  error leaves `evaluateCostEvent` (`budgets.ts:355`), and the hard limit below is not
  looked at. The agent is over its budget and not paused, against
  `docs/api/costs.md:69`. `CostEventsPause` says that without the board this is the only way
  a hard stop is missed; what lifts one that was made is in section 8.
* `two_workers`: a restart finds the handle already stopping and does not wait
  (`plugin-worker-manager.ts:862`); it starts a worker beside the one that leaves, whose
  exit then counts as a crash of the new one, and a third is started, against the
  module's own comment at line 6.

## 8. Disagreements without a run

Met while modelling. The first group is reachable in the models by changing a
constant; the second was read in code that no module covers yet.

In the models of the heartbeat, the jobs and the routines:

* A terminated agent's status is overwritten by `executeRun` (`heartbeat.ts:2232`),
  by `finalizeAgentStatus` and by a pause or resume that read it before;
  `doc/SPEC-implementation.md:374` calls it irreversible.
* The reaper frees the issue before it inserts the retry (`:1704`), and the
  insert does not look: a wake in between leaves two active runs of one issue
  (`doc/plans/2026-02-20-issue-run-orchestration-plan.md:66`). `OneActiveRunPerIssue`
  fails with a crash, the reaper and two wakes.
* A dispatch holds a connection while its issue and its wake need another
  (`routines.ts:632`): as many concurrent dispatches as the pool has connections (20)
  wait for one another for ever. `Connections = 2` with two callers breaks
  `DispatchesFinish`.
* `updateRoutineTouchedState` (`routines.ts:414`) writes a `next_run_at` computed when its
  dispatch began over a claim made since: the tick fires twice.
* The end of a run is stored before `execution_run_id` of its issue is cleared
  (`heartbeat.ts:2521`, `2567`). A dispatch in between finds no live issue, creates one, and its
  wake is refused by the index (`:3182`): it fails, although nothing went wrong. After a crash
  in between every dispatch does, until the old issue is woken or closed.
* A dispatch whose agent does not wake on demand leaves its issue without a run (`:2922`). One
  whose start fails after the wake was committed deletes the issue of a live run
  (`routines.ts:654-657`).
* `createdAt` is the start of the inserting transaction (`packages/db/src/schema/heartbeat_runs.ts:41`),
  which may wait for the issue's row (`:2936`): a younger run selected meanwhile starts
  first. `OldestFirst` excepts just that.
* A run whose agent is paused between the claim and the launch starts all the
  same: `executeRun` does not look again (`heartbeat.ts:2392`, `doc/SPEC.md:37`).
* A mention bypasses the execution lock (`:2927`), so two agents work on one issue
  (`doc/plans/2026-02-20-issue-run-orchestration-plan.md:136`):
  `WakeKinds = {"plain", "mention"}` breaks `OneActiveRunPerIssue`.
* A cancelled run gives its issue and slot away while its child is still in the
  grace period (`:3459`, the same plan, line 22). `ChildrenKeepTheirSlot`
  therefore excepts cancelled runs.
* A crash between the stored end of a run and the release (`:2567`) strands the
  issue's deferred wakes until another wake comes (plan, line 62):
  `MaxCrashes = 1` breaks `NoStrandedWakes` and `DeferredWakesArePromoted`.
* Two unscoped wakes at a time both find nothing to coalesce into and queue two runs
  (`:3215`, `docs/agents-runtime.md:29`).
* A crash between the stored failure of a lost run and its retry loses the retry (`:1687`).
* `executeRun` writes back the context it read when it began (`:2224`) and drops what a
  coalesced wake merged into it since.
* `currentJobCompletion` is never set (`worker/index.ts:102`), so SIGTERM abandons the job
  in work, against `docs/superpowers/specs/2026-03-27-background-worker-design.md:588`,
  and no statement takes a processing row back. `JobsSettle` has an escape for it.
* Under `always_enqueue` a dispatch beside a live issue creates a second issue and wakes
  its assignee, and the wake's UPDATE is refused by `issues_open_routine_execution_uq`
  (`packages/db/src/schema/issues.ts:79`); the dispatch fails, against
  `ui/src/pages/RoutineDetail.tsx:60`. `NoLiveIssueIsMissed` is about the other policies.
* Two passes of the reaper at a time retry a run twice (`:1652`; compare
  `server/src/__tests__/heartbeat-process-recovery.test.ts:245`): `Reapers = 2` breaks `RetriedOnce`.
* A pass of the reaper that finds a lost run's child alive stores "running" again (`:1664`)
  without a look at the row: over a run that was cancelled since it read it. `Reapers = 1`
  with a crash and a cancellation breaks `ImplementsRunSlots`; without either it
  breaks `ChildrenKeepTheirSlot`, by a pass that fails a run which is being launched.
* `finalizeAgentStatus` counts, then writes (`:1600`): two runs that end together
  may leave the agent "running"
  (`docs/guides/board-operator/managing-agents.md:14`).
* A wake that read its agent before a terminate queues a run that nothing ever
  starts (`:2909`, `doc/spec/agent-runs.md:402`).
* The timer's reaper does not see the executions of the routes' instance
  (`:734` against the comment at `:1654`).
* The worker process has start locks of its own, so slots are exceeded across
  processes (`:65`, `doc/spec/agent-runs.md:362`): `Services = {"routes", "worker"}`
  breaks `ImplementsRunSlots`.
* The tick handler finds its own job, which is processing, when it looks for a
  duplicate of the next tick (`worker/handlers/heartbeat-tick.ts:49` against its
  comment at `:48` and the design document, line 397).
* A handler that timed out goes on beside its retry (`worker/index.ts:68`; the
  design document, lines 579 and 599, asks for exactly-once processing).

In the models of the services:

* Budgets. Two decisions may leave an agent at work over its limit: a raise holds
  its amount against the spend (`budgets.ts`, `resolveIncident`), and writes it long
  after, over a policy that was taken back in between and while a cost event saw none.
  `MaxDecisions = 2` with `MaxSpend = 3`, `Amounts = {0, 2, 3}` breaks `NoWorkOverLimit`.
* `executeRun` writes "running" (`heartbeat.ts:2232`) and `finalizeAgentStatus` "idle" or "error"
  (`:1593-1615`) over whatever the status has become since they looked. Both lift a pause, of
  the board as of a budget, and leave its reason. A hard stop may then take over an agent
  that the board had paused, and a raise resume it; an agent that a hard stop paused is over its limit and
  not paused until the next cost event, although its starts are refused by the spend. A PATCH of the status does the same to the
  reason: a pause made by it over the reason `budget` is ended with the budget's.
* The approval routes decide a `budget_override_required` approval as any other
  (`approvals.ts:53-65`, `190-231`): approved or rejected there, its incident stays open, its
  limit is not raised and its scope stays paused. The incident can still be resolved by itself.
* A resolved hard incident still counts as existing (`:363`), so a second hard stop in the
  window pauses with no incident to decide. An evaluation that read before a raise pauses
  after it; an upsert that read before a pause resumes it. An approval whose incident
  the index refuses stays pending for nothing. `resolveOpenIncidentsForPolicy`
  selects, then updates, and `markApprovalStatus` asks for no status.
* A company paused by the board is taken over by a hard stop of its budget and
  resumed by a raise: only an agent's pause is kept (`BoardPauseIsKept` says agents).
* Issue checkout. `adoptStaleCheckoutRun` takes the execution lock from a live run of
  another wake; `update` and `release` write by id after the check of the owner
  (`issues.ts:1133`) and clear a checkout taken since; `release` keeps the execution lock.
  `docs/guides/agent-developer/task-workflow.md:17` promises a checkout that excludes.
* Approvals. A pause and a resume make a pending agent idle with no approval
  (`doc/plans/2026-02-19-ceo-agent-creation-and-hiring.md:65`); a pause, resume or activation
  that read before a terminate revives the agent
  (`docs/guides/board-operator/managing-agents.md:70`); a revision or resubmission that read
  before a decision reopens it and a second agent is hired (`HiredOnce` counts those); a
  crash between the stored decision and the hire (`approvals.ts:116`), or between the agent
  and its approval, leaves it so.
* Plugin workers. A disable during a backoff or a start leaves the timer or the start alone
  (`plugin-loader.ts:1607` stops only a running worker), so a disabled plugin's worker
  comes back, against the comment at `plugin-lifecycle.ts:272`; then an enable fails as
  "already registered". A failed upgrade leaves the plugin "ready" with no worker. An
  `initialize` that times out is never retried.
* Plugin jobs. A call that times out rejects the host's promise alone
  (`plugin-worker-manager.ts:1033`); the worker goes on, has no guard of its own
  (`packages/plugins/sdk/src/worker-rpc-host.ts:995`), and the next tick starts another run beside
  it, against `doc/plugins/PLUGIN_SPEC.md:835` ("The host prevents overlapping execution of the
  same plugin/job combination"). `triggerJob` awaits between its look at `activeJobs` and its entry in it, so a
  manual run overlaps a scheduled one (`doc/plugins/PLUGIN_SPEC.md:835`); a run left
  "running" by a crash refuses every later `triggerJob`; the end of a run overwrites its
  "cancelled"; one slow job holds up all ticks until its timeout.
* Runtime services. Two runs that ensure the same key at once start two services
  (`workspace-runtime.ts:1361`); a stop deletes the key's entry although it may name
  another service (`:1271`); a row that cannot be saved leaks the lease, or the rest
  of a release (`UnleasedServicesStop` excepts those); a child that exits before it is
  registered leaves a record that says running.
* Documents. An upsert holds the document's row and needs the link's, a deletion the other
  way round: PostgreSQL ends one of them, and nothing retries. A lost race to create or to
  update is reported as "Document key already exists" either way (`documents.ts:387`).

Read only:

* `child.killed` is true as soon as a signal was sent, so SIGKILL never follows
  (`packages/adapter-utils/src/server-utils.ts:788`, `doc/spec/agent-runs.md:326`).
* The worker's tick handler selects due triggers without a look at the routine
  (`worker/handlers/heartbeat-tick.ts:26`), and `runRoutine` refuses archived ones
  only: a paused routine is dispatched by the worker.
* The routes of approvals, agents and companies make a budget service without the hook that
  cancels work. A scope is not resumed when the month turns (`docs/api/costs.md:71`).
* The lifecycle of `app.ts:188` has no runtime loader, and the job coordinator and the tool
  dispatcher listen to that lifecycle alone.
* A crash leaves detached services running while startup reconciles their rows to stopped.
* The removal of an issue selects its documents before it deletes them (`issues.ts:897`): one
  created in between is left without an issue.
* The catch of the index violation around the issue's creation
  (`routines.ts:600-630`) cannot be reached: a new issue has no `execution_run_id`.

## 9. Not modelled

What is left of the plan:

* The rest of `Routines`: several triggers, edits and archival, idempotency
  keys, `syncRunStatusForIssue` (`routines.ts` 1240-1280), and the deduplication of
  dispatch jobs (`job-queue.ts` 168-195) with `JobQueue`.
* `ChildProcess`: timeouts, signals and their escalation. `HeartbeatRuns` has a child that
  starts, is tracked and ends; what a signal does depends on the operating system.
* Budgets: projects, which differ from companies in where the pause is stored, and the turn
  of a window, which is a clock's. `finance.ts` and `quota-windows.ts` aggregate in SQL.
* Issues: creation, labels, comments, attachments, and what goes with a removed issue.
* Plugins: calls other than `initialize` and a job's, `stopAll`, discovery, manifests,
  host services. Each call waits for one answer of one worker and keeps nothing.
* Workspaces: worktrees and their clean-up, which are git commands, and the services of adapters.
* Secrets: versions are made one request at a time, and a unique index decides a race.

Not planned: plugin host services and buses, live events, access and
authentication, portability and skills, adapters' parsing, the web UI, the
command line, the schema. They are most of the repository's lines, and are
input/output, presentation and conversion: what they do does not depend on an order of steps.
