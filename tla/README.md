# A verification project for AkerDock

AkerDock is a self-hosted platform: a Go control plane keeps its state and its
job queue in PostgreSQL and drives Docker servers through an agent channel.
This directory holds TLA+ models of its core, the TLC configurations that check
them on small instances, and proofs checked by TLAPS.

1. [Inventory](#1-inventory) — the parts, their state, what makes them correct
2. [Modules](#2-modules) — what is modelled and how it corresponds to the code
3. [Runs](#3-runs) — what TLC checks, with which bounds
4. [Disagreements](#4-disagreements) — where code and documentation differ
5. [Proofs](#5-proofs)
6. [Limits](#6-limits) — abstractions, and what is not modelled
7. [Plan](#7-plan)

## 1. Inventory

| part | state | operations | what is hard | what makes it correct |
|---|---|---|---|---|
| Job queue (`internal/queue`, `db/queries/jobs.sql`) | `jobs` rows: status, attempt, resume count, lease, steps; goroutines of the worker pools | enqueue, dequeue, heartbeat, complete, fail, reap, promote, retry, forget, purge | several processes on one table; snapshots older than commits; leases lapsing under live workers; crashes, drain | one active job per lock key, bounded attempts, earned dead letters, no job lost |
| Deployment pipeline (`internal/jobs/deploymentrun.go`) | `deployments.status`, the cancel flag on the job, two container names on the server, the proxy's route | stages, checkpoints, switch, compensation, resume | a crash between any two remote effects; triggers and cancellations racing the worker; ignored errors | traffic always reaches a running container; the barrier; success means *my* container; statuses end |
| Triggers and cancellation (`handlers/applications.go`, `handlers/deployments.go`, `jobs/webhookprocess.go`) | requests half-way through their statements | admit, create, coalesce, enqueue, cancel | five statements, no transaction | accepted cancellations are not lost; every deployment has a job |
| Server cleanup (`jobs/servercleanup.go`, `queries/servers.sql`) | cleanup jobs against deployments in flight, build-server reservations | ask, guard, defer, prune | two statements that lock one row but read older snapshots; a crash after the deferral | never during a deployment; neither side waits for ever |
| HTTP idempotency (`httpapi/idempotency.go`) | one row per key and endpoint: in progress or completed; the same key on a job | claim, replay, complete, purge | crashes and failures between claim and completion; one key, two unique indexes | an operation runs once; a replay is its answer; what was accepted will run |
| Agent channel and agent (`internal/agentwire`, `handlers/agent*.go`, `internal/agent`) | pending calls, stream buffers, the registry, the executor's inflight table | command, stream, deliver, shed, cancel, reconnect | results racing cancellation and disconnection; slow readers; ids that restart with each connection | each answer reaches its call, a clean end is a whole stream, nobody hangs |
| Tunnels (`internal/tunnel`) | admission slots, stream maps at both ends, bounded queues | open, dial, pump, reset, close, shut down | five ways to close one stream; opens half-way when the session ends | slots are exact, no stream has a hole or blocks another, nothing is left behind |
| Scheduler (`internal/scheduler`) | an advisory lock and the session that holds it | elect, run passes, step down | two leaders after a lost session | what leaders do is safe even when there are two |
| Scheduled tasks (`scheduler/scheduledtasks.go`, `handlers/scheduledtasks.go`, `jobs/scheduledtask.go`) | the window, execution rows, jobs | seed, skip, fire, advance, run by hand, edit | three statements per occurrence; retries of what ran | an occurrence runs once; a task never stays due; rows are closed |
| Notifications and outbox (`internal/notify`, `internal/audit`) | outbox rows, one cursor, delivery rows, digests | insert, commit, dispatch, deliver, flush, purge | ids in insertion order and commits in any; crashes between row, message and cursor | no event skipped, no rule told twice |
| Proxy, compose, previews, backups, databases, adoption, sessions, encryption | see `PROJECT.json` | | | |

How they interact: HTTP handlers and the scheduler insert jobs; the worker pool
leases a job, runs its handler, heartbeats, and completes or fails it; the
handler of `deployment.run` writes `deployments.status` *before* each stage and
then acts on the server; `CancelDeployment` talks to the handler only through
`cancel_requested_at` on the job; crashes are visible only as lapsed leases.
Before its first remote effect a deployment asks the database whether a cleanup
holds its server, and a cleanup asks the same of deployments. Handlers reach
Docker through the agent channel, whose owner is the WebSocket handler of the
process the agent is connected to. Every state change also inserts an outbox
event, which the elected scheduler dispatches.

The hazards, each at its line, are listed in `PROJECT.json`.

## 2. Modules

| module | models |
|---|---|
| `JobQueue` | the jobs table and the worker pool |
| `JobContract` | what the queue promises, without leases, workers or clocks |
| `DeploymentRun` | the deployment pipeline of one application, with its triggers and cancellations |
| `ServerCleanup` | the exclusion between cleanups and deployments, with the snapshots of its statements |
| `IdempotencyKeys` | the idempotency middleware, the deploy handlers behind it and the key's second use by the queue |
| `AgentChannel` | calls and streams between control plane and agent, over connections that break |
| `Scheduler` | the election of the scheduler; extended by the next two |
| `Notifications` | outbox, dispatcher and digests, run by the leaders of `Scheduler` |
| `ScheduledTasks` | one scheduled task: window, executions and jobs, run by the leaders of `Scheduler` |
| `TunnelMux` | both ends of a multiplexed tunnel session |
| `…Proofs` | theorems about the module of that name: `JobQueue`, `DeploymentRun`, `IdempotencyKeys`, `ServerCleanup`, `Notifications`, `ScheduledTasks`, `TunnelMux`, `AgentChannel` |
| `MC…` | instances of the above for TLC |

### JobQueue

`row[j]` is a row of `jobs`; `th[t]` a consumer goroutine of `Worker.Run` (its
place in `process` and the row it remembers); `up` and `draining` the processes.
Every SQL statement is an operator on a row with the statement's name
(`DequeueJob`, `HeartbeatJob`, `SucceedJob`, `FailJob`, `Reaped`, …) and every
step of a goroutine between two statements is an action.

- `DequeueJob` is two actions: `DequeueSelect` (the snapshot's choice, locked
  `FOR UPDATE SKIP LOCKED`) and `DequeueLease` (the update, refused by the
  partial unique index). Between them another dequeue may commit.
- Time is reduced to the two comparisons the statements make: `due`
  (`run_at <= now()`) and `lapsed` (`lease_expires_at < now()`).
- `StallsPossible` says whether a lease may lapse under a goroutine that is
  still executing (a paused virtual machine, a database out of reach for
  longer than `LeaseDuration`). When it is FALSE, heartbeats keep up and a
  lease lapses only when nobody attends it.
- `Proc` maps goroutines to worker ids: `leased_by` names the *process*, so two
  goroutines of one process look alike to every `WHERE leased_by = …`.
- `Drain` is SIGTERM: the context given to `MarkJobRunning`, `SucceedJob`,
  `FailJob` and the step recorder is cancelled, the heartbeat's is not.
- `WriteLost` is a statement that fails, which `process` only logs.
- `lease`, `failures` and `steps` are history columns used by the properties.

`JobContract` has two variables per job, its phase and how often it was
started. `JobQueue` implements it under the mapping of the statuses to phases
(`ImplementsContract`).

### DeploymentRun

`status`, `job`, `trigger` and `cancel` are the database and the requests under
way; `run` is the `deploymentRun` a worker executes (`at` is its next step,
`stage` the stage it is in, `loaded` the status `Execute` read); `app` and
`next` are the containers under the application's name and under `<name>-next`;
`route` is where the proxy sends traffic, by name or to one container's address.
The queue is reduced to what `JobQueue` establishes of it: one active job per
lock key, and a job whose worker died is reaped at most `MaxResumes` times.

One action per step of `execute`: `Load`, `Checkpoint`, `SetStatus`, the work of
each stage, the five remote effects of the switch, `Finish`, the compensation
(`Compensate`, `Verdict`) and `Acknowledge`; `Resume` chooses between replay and
inspection. `Crash` may strike between any two of them. Errors the code ignores
(the stop and the removal in `promoteCandidate`, the removal and the status
write of `markFailed`, the read of `checkpoint`) are ignored by the model too.
A step that fails in `preparing` may do so before or after the run has its Docker
runtime, on which the compensation depends. A trigger counts the unfinished
deployments against `QueueLimit` in a statement of its own (`AdmitDeployment`).
`barred` and `erased` are history: the deployments that entered `switching`, and
those of them whose worker died after it had written `preparing` over it.

### ServerCleanup

`job` and `work` are the cleanup rows and the goroutines executing them, `dep`
and `run` the deployments and theirs. A guarded statement is two actions
(`BeginCanStart` / `CanStartServerCleanup`, `BeginStart` / `StartDeployment`,
`BeginReserve` / `ReserveBuildServer`): its READ COMMITTED snapshot is taken when
it begins, its answer is given when it has the lock of the server row, and
waiting for that lock does not renew the snapshot of the other tables. `crossed`
is a history variable: the pairs whose latest statements were in flight
together. The queue is the part of `JobQueue` that matters here: lock key,
attempts, resumes, promotion, purge. A deferral delay and a retry backoff are
one status, `waiting`. A cron window and a threshold only say when somebody asks
(`AskCleanup`); an insert that fails, or that finds the Idempotency-Key of the API
on another job, ends the request (`EnqueueFails`).

### IdempotencyKeys

`row` is `idempotency_keys`, `req` the requests between their statements, `dep`
and `job` what they create. A retry is a request with the same key, endpoint and
hash. `CreateDeployment` takes the insert, the superseding and the cancellation
of jobs in one step: `DeploymentRun` has them apart. `gen` counts the purges a
key has seen, so that "once per key" has a meaning.

### AgentChannel

`call[c]` is a call of `Command`, `Stream` or `Attach` with the entry of
`Conn.calls`; `exec[c]` the agent's goroutine; `up` and `down` the two
directions of a WebSocket, lost together (`Break`) and noticed at different
times (`CloseCP`, `CloseAgent`); the agent also leaves a connection that is fine
when an acknowledgement does not come (`AckTimesOut`). The three cases of each `select` are three
actions. `DeliverChunk` and `ShedChunk` are apart because the reader runs
between them. Frames carry the id the code uses and, as history, the call they
belong to.

### Scheduler, Notifications, ScheduledTasks

`Scheduler` has the lock, the roles and each leader's connection as its client
knows it: a session may end (`LoseSession`) long before the driver notices, and
only the cron branch looks. `Notifications` and `ScheduledTasks` extend it; a
replica's `pass` is its progress between two statements, so two leaders
interleave statement by statement. `trouble` bounds what goes wrong: deaths,
lost sessions, failed statements.

In `Notifications` an outbox row has its id when it is inserted and is visible
when it commits. `Match` takes the rules that listen to an event; when the lookup
of the event's project and environment fails, which the dispatcher swallows,
`MatchUnscoped` takes them without the `Scoped` ones and records those in
`missed`. `heard`, `missed`, `told`, `top` and `late` are history. In
`ScheduledTasks` a cron expression is its period and `NextAfter` the strict
successor `cronexpr` computes; period 0 is an expression that parses and never
matches, for which `NextAfter` is 0, the zero time. `occ`, `ran`, `misled` and
`since` are history.

### TunnelMux

One record per stream and side: in the map or not, its queue, its pump and its
reader. Origin and bridge share the actions of pump, reader and decoder and
differ where the code does (the origin announces the end and then closes the
stream, the bridge closes it first). An open may fail on a socket that is fine
(the caller's context has ended), and the end of a side is two steps: it sweeps
its streams (`Shutdown`, `CloseAll`), then it returns and the socket is closed
(`Returns`). Slots are tokens of the semaphore; a
stream id is never reused, so a call and its stream have one name.

## 3. Runs

Passing runs:

| run | instance | shows |
|---|---|---|
| `JobQueueCrashes` | 2 jobs of one lock key, 2 processes, 3 goroutines (2 share an id), `MaxAttempts` 2, `MaxResumes` 1, no stalls | `TypeOK`, `LockKeyExclusive`, `HandlersExclusive`, `DeadLetterJustified`, `StepsMonotone` under crashes, drains and lost writes |
| `JobQueueStalls` | 1 job, 2 processes of one goroutine each, stalls, `MaxAttempts` 2, `MaxResumes` 2, fairness | `QueueInv`, `OnlyHolderCompletes`, `ImplementsContract`, `EventuallySettled` although leases lapse under live workers |
| `DeploymentRolling` | 2 rolling webhook deployments, no crash; cancellation and coalescing race the worker | `TypeOK`, `SingleActiveDeployment`, `KeepsServing`, `AcceptedCancelRecorded`, `TerminalIsFinal` |
| `DeploymentRecovery` | 1 rolling deployment, up to 3 crashes anywhere, `MaxResumes` 3 as in the code, fairness | `SucceededRunsOwn`, `ReplayNeedsErasure`, `EventuallyTerminal` |
| `DeploymentMixed` | a stop-then-start and a rolling deployment; remote calls, statements and trigger requests may fail | `BarrierHolds`, `SucceededRunsOwn` |
| `ServerCleanup` | 1 deployment, its server and a build server, 1 request, 3 row identities (the request, its deferral, the deferral's), 2 attempts, 1 resume, 1 crash, fairness | `OverlapNeedsCrossing`, `OneSuccessor`, `DeploymentsEnd`, `CleanupsSettle` |
| `IdempotencyKeys` | 4 requests: one, its retry, one with the same key and another body, one without a key; 1 application, 1 purge | `ExecutedOncePerKey`, `ReplayIsOriginal`, `AcceptedHasOwnJob` |
| `AgentChannel` | a command and a stream of 2 chunks over a buffer of 1, one connection, 2 frames in flight, fairness | `AnswersOwnCall`, `CleanEndIsComplete`, `CallsAreAnswered` |
| `Notifications` | 2 replicas, 2 events (one critical), an immediate rule of the team and a scoped digest rule, 1 trouble and any failed scope lookups, fairness | `NotifiedAtMostOnce`, `NoneSkipped`, `EveryEventHeard`, `DigestsFlushed` |
| `ScheduledTasks` | 1 replica, periods 1 and 2, 3 ticks, 2 execution rows, both policies `skip`, 2 attempts, 1 trouble, 1 edit, fairness | `FiredOnce`, `DueIsHandled`, `ExecutionsClose` |
| `TunnelMux` | 2 callers, 1 slot, 1 place in the queue of callers, stream queues of 1, a target that sends 2 chunks, a caller that may close, an origin that may end, fairness | `SlotsAccounted`, `NoHole`, `DecoderFlows`, `OriginTornDown` |

The type invariants of the modules without a `TypeOK` in this table, and the
inductive invariants of section 5 (`KeysInv`, `CleanupInv`, `DispatchInv`,
`TasksInv`, `MuxInv`, `ChannelInv`), hold on the same instances: 200,468, 235,225,
248,043, 544,186, 439,034 and 381,856 states. `ChannelInv`, and with it the two
invariants of `AgentChannel`, also holds with two connections
(`Channels <- TwoChannels`, `Spec`: 4.6 million states). `RunInv` holds on the
instance of `DeploymentMixed` (167,940 states), on that of `DeploymentRecovery`
(30,239), on that of `DeploymentRolling` with an aborted request (30,643), and on that of `DeploymentMixed` with two crashes and two
resumes (14.6 million).

Why the bounds are enough: two jobs and two processes are the least with which
a lock key, an overtaking lease and a shared worker id mean anything; a third
goroutine adds the shared id. Budgets of one or two meet every comparison at,
below and above its limit. For a deployment one crash reaches every
intermediate state of the switch, a second strikes the recovery, a third spends
the resumes the code allows, and the second deployment is what the lock
key, coalescing and overtaking need. A cleanup needs a target and a build
server, because its guard looks at both, and a chain of two deferrals, because
the second comes from a row that is itself one. A key needs a retry and a
conflicting body. A stream longer than its buffer overflows it; two calls are
what an answer could be confused between. Two events and two replicas are the
least with an order of commits and a second leader; one trouble puts a failure
at every place, and two failures in one pass meet the same rows. A window
needs two ticks to be missed and a third to be reached again. Two callers of
one slot make the second wait while the first closes in every way. Counters
other than these are bounded by the budgets themselves.

Deadlock is not checked: the supply of jobs, requests, events and ticks is
finite, so every instance may stop when all of them are done.

Fairness. In `JobQueue`: each goroutine keeps taking its steps (handlers return,
since their remote commands carry timeouts), the maintenance ticker fires every
five seconds on every live process, and the clock advances; a crash, a drain, an
enqueue or a heartbeat is never forced. One process is assumed to stay (replicas
or a supervisor's restart). In `DeploymentRun`: the run takes its steps, requests
finish their statements, the pool reaps, promotes and dequeues. In
`ServerCleanup`: workers step, rows are promoted and reaped, statements return;
strong fairness is assumed of a poll that finds no cleanup leased, because a
deployment polls every second (`deploymentCleanupPollInterval`) while a cleanup
that finds it comes back after a minute (`serverCleanupDeferDelay`), so the polls
cannot always fall into the instants of a deferring lease. In `AgentChannel`: the
goroutines of both ends run and a dead peer is noticed (the 30 s ping, the
flusher's acknowledgement timeout); callers, the network and streams nobody
cancels are free. In `Notifications`: followers retry the lock, dead processes are
restarted, leaders work their passes; strong fairness of `DigestRead` says that
the window of a digest elapses, and assumes an enabled rule and a channel that can
be read (`flushDigest` leaves the rows pending otherwise). In `ScheduledTasks`: the same for passes and jobs;
the clock stops at `Horizon`, so a task is asked to catch up with it only there.
In `TunnelMux`: the session takes some step while it has one, and it has finitely
many; callers and targets may read nothing for ever. Nothing forces a failure
or a crash.

Every property of a passing run comes with a faulty variant of the code that
breaks it (the operators commented *Faulty variant of …*; `PROJECT.json` lists
them under `mutants`).

## 4. Disagreements

One run is expected to be violated: `DeploymentLastHealthy`. A worker that dies
between the stop and the removal of the old container makes the resume remove
the running candidate, the last healthy container.

Further configurations are kept beside it; each ends with a counterexample to
the property it names; where several are refuted on one instance they are
listed in one file, all but one in comments, to be checked one at a time. Where
the repository says otherwise, `PROJECT.json` quotes both sides under `findings`.

| configuration | property | what it shows |
|---|---|---|
| `JobQueueSharedWorkerId` | `AbandonsLostLease` | a worker that learns its lease is lost goes on with its handler |
| `JobQueueSharedWorkerId` | `DrainRecordsOutcome` | a handler that ends during the drain cannot record its outcome |
| `JobQueueSharedWorkerId` | `AttemptWithinCeiling` | a stalled goroutine completes the lease of a sibling of the same process (`leased_by` is one id per process), and the attempt counter loses its ceiling |
| `DeploymentOneCrash` | `KeepsServing` | crash before the proxy is told: the resume stops the container the proxy still routes to |
| `DeploymentDeadLetter` | `EventuallyTerminal` | the reaper gives up on a deployment job and its deployment never ends |
| `DeploymentOneCrash` | `BarrierHolds` | a resume writes `preparing` over `switching`, which makes a deployment past the barrier cancellable (`deploymentrun.go:768`) |
| `DeploymentSecondCrash` | `NoBlindReplay` | the second crash, after `preparing` was written over `switching`, makes the next resume start a candidate again |
| `DeploymentSecondCrash` | `SucceededRunsOwn` | a switch that failed, whose candidate was removed and whose worker died before `failed` was written: the resume takes the old container for the promoted candidate |
| `DeploymentOvertaken` | `QueueWithinLimit` | two triggers count before either inserts: both are admitted beyond the limit |
| `DeploymentOvertaken` | `SucceededRunsOwn` | after a crash another deployment starts while the first waits in `retry_wait`; when it resumes, the first finds the other's container and declares success |
| `DeploymentOneCrash` | `AcceptedCancelRecorded` | a cancellation during `retry_wait` is answered 202 and recorded nowhere (`jobs.sql:120`) |
| `DeploymentOrphan` | `EventuallyHasJob` | a trigger request that dies between its statements leaves a queued deployment without a job |
| `ServerCleanupTogether` | `NeverTogether` | the two guarded statements in flight together both answer yes |
| `IdempotencyOrphan` | `AcceptedHasJob` | a multi-target deploy with a key: every target after the first is accepted and has no job |
| `IdempotencyOneKey` | `AcceptedHasJob` | the same key on another endpoint: the same |
| `IdempotencyOneKey` | `InProgressMeansRunning` | a request that failed or crashed keeps its key in progress until the purge |
| `AgentStreamCancel` | `ReaderGoneStopsStream` | a caller whose context ends while it reads sends no cancel frame: the agent streams on |
| `AgentStreamCancel` | `CancelReachesStream` | a cancel frame read before the command's goroutine registered is dropped |
| `AgentLateRegister` | `LiveChannelIsRouted` | a dead connection that registers late replaces the live one |
| `NotificationsLate` | `LateEventHeard` | an event committed after a higher id was dispatched is never read |
| `NotificationsScope` | `ScopedToo` | the lookup of an event's project fails and is swallowed: the scoped rules never hear of it and the cursor passes |
| `SchedulerTwoLeaders` | `ToldBeforePassed` | a crash between the delivery row and the message: the row stays pending, the cursor passes |
| `SchedulerTwoLeaders` | `SingleLeader` | a leader that lost its session leads on beside the new one |
| `ScheduledTasksRestart` | `OncePerOccurrence` | a leader that stops between enqueue and advance fires the occurrence again |
| `ScheduledTasksRestart` | `NeverReplayed` | a worker that dies after the dispatch: it is sent again |
| `ScheduledTasksRestart` | `SkipReasonTrue` | an execution row without a job blocks the task, with a reason that is not true |
| `ScheduledTasksRestart` | `ReenabledIsSeeded` | a task enabled again fires an occurrence from before |
| `ScheduledTasksNever` | `OncePerOccurrence` | an edit to an expression that never matches, crossed by a pass: the window stays where it is and fires on every tick |
| `ScheduledTasksNever` | `DueIsHandled` | an expression that never matches is accepted and its task never runs |
| `TunnelTeardown` | `BridgeTornDown` | a dial that ends around `closeAll` leaves a stream nobody closes |
| `TunnelReplacement` | `ReplacementAdmitted` | the origin frees a slot the bridge still holds; the replacement is refused |
| `TunnelEof` | `EofKeepsData` | eof closes both directions and drops what is queued for the target |

More were met while reading: `docs/specs/deployment-engine.md:64` says a
lower priority number is served first, `jobs.sql:23` orders by `priority DESC`;
with failing statements (`StoreFaults`) an error of the first status write
makes `markFailed` overwrite `cancelled` with `failed`; and the comment of
`PumpReader` (`conn.go:354`) says a cancelled stream ends in silence, where the
code sends an EOF (`conn.go:369`).

## 5. Proofs

Each `…Proofs` module proves its theorems for every value of the constants that
satisfies the assumption its component states. `Spec` is the specification
without fairness. `PROJECT.json` lists the theorems; the table says which hold
under a condition.

| module | theorems | condition |
|---|---|---|
| `JobQueueProofs` | `TypeCorrect`, `LockExclusion` | none |
| | `QueueInvariant`, `CeilingHolds`, `DeadLettersJustified`, `HolderCompletes`, `QueueImplementsContract` | every worker id names one goroutine, or no stalls |
| | `LeasesHeld`, `HandlerExclusion`, `TimelineAdvances` | no stalls |
| `DeploymentRunProofs` | `RunInvariant`, `TypeCorrect` | none |
| | `SingleActive`, `CancelIsRecorded` | no failing statements of a run; until the first crash |
| | `RollingServes` | no failing calls of the switch; until the first crash |
| | `BarrierIsKept` | until the first crash |
| | `SucceedsWithOwn` | no crash |
| | `ReplaysOnlyErased` | none; any number of crashes |
| | `TerminalStays` | no failing statements of a run; any number of crashes |
| `IdempotencyKeysProofs` | `KeysInvariant`, `ExecutedOnce`, `ReplaysOriginal`, `AcceptedRuns` | none |
| `ServerCleanupProofs` | `CleanupInvariant`, `MeetOnlyByCrossing`, `DeferredOnce` | none |
| `NotificationsProofs` | `DispatchInvariant`, `AtMostOnce`, `NothingSkipped` | none |
| `ScheduledTasksProofs` | `TasksInvariant`, `OccurrenceFiresOnce` | every expression matches some time (0 is not in `Periods`); the property itself speaks of the time before the first trouble |
| `TunnelMuxProofs` | `MuxInvariant`, `ExactSlots`, `ReadsPrefix` | none |
| `AgentChannelProofs` | `ChannelInvariant`, `AnswersReachCall`, `CleanEnds` | none |

All of them follow one plan: `Init` implies the inductive invariant, each action
preserves it (one lemma per action, the conjuncts an action cannot disturb
settled by frame lemmas), and the invariant implies the property.

**JobQueue** (`QueueAssumption`). The conditions are needed: without them
`JobQueueSharedWorkerId` refutes the properties. `AttemptWithinCeiling` needs
the verdict of `Worker.fail` to be taken from the row's own attempt, so it needs
`LeaseKnown` (a goroutine whose process owns a lease remembers that lease);
`LeaseKnown` needs `RowLocks` (nobody else moves a row under a dequeue in
flight) and either one goroutine per id or `LeaseHeld`; the dead letter needs
`Accounted`, which ties attempt, failures, resumes and leases together in each
status. The inductive invariant is `FullInv`: `TypeOK`, `Busy`,
`LockKeyExclusive`, `QueueInv`, and, without stalls, `LeaseHeld`. The many
actions are handled by two classifying lemmas: `RowMoves` says the few ways a
step can change a row, `ThreadMoves` those in which it can change a goroutine;
invariants are then preserved move by move. Refinement follows from the same
classification: each move of a row is a step of the contract or a stutter.

`StepsMonotone` needs one more part, `StepsGranted`: a row shows the timeline of a
lease that was granted, so that the holder's flush, the only statement that writes
it, cannot lower it.

**DeploymentRun** (`DeploymentAssumption`). One inductive invariant, `RunInv`, carries
all the theorems; each of its parts names the failures it excludes, so the
theorems need them only where the code does. The excluded cases are real: the
counterexamples of section 4 to `KeepsServing`, `BarrierHolds` and
`AcceptedCancelRecorded` happen in them. Always true: `OneRun` (the run is that of
the one active job), `OnCourse` (a step belongs to its stage, and only a checkpoint
cancels) and `Requested` (row, job and cancellation come into being in this order).
`StatusKept` is what makes the
unconditional writes of `setStatus` and `markFailed` harmless: from its first
transition to its verdict the row of a run is in flight, and before that, where a
request may still close it, only the guarded write or a cancellation follows.
`FirstRun` says that without a crash a deployment has one run, which finds it
queued; hence `OnlyRunInFlight`, and hence a cancellation finds the job active
(`CancelKept`). `BarrierKept` says where a run of a deployment past the barrier can be:
before a crash beyond the barrier; after any number of them still in recovery, on
its way to inspect, as long as no worker has died that had written `preparing`
over the switch (`erased`), and such a worker is not the first to die. That is
`ReplayNeedsErasure`; that the erasure happens, and that a candidate is then
started again, is the counterexample of `DeploymentSecondCrash`. `OwnContainer` follows the candidate from its creation to the stable
route through ignored failures; `Serving` adds to it that the old container never
belongs to the deployment that is running, which is why the candidate's address
cannot be mistaken for its own.

**IdempotencyKeys** (`KeysAssumption`: every request names targets among the
applications). Two requests under one key cannot both execute because the second
would have to claim a row the first still owns, so `KeysInv` says who owns a row
(`Owned`), that a request in its handler, or one that has executed, owns its row
or claimed it before the last purge (`HoldsClaim`), how far a handler has come
(`Progressed`) and that the tables show exactly that (`Recorded`). That an
accepted deployment has its own job needs the uniqueness of the job's key turned
around: `JobInserted` says that a key of one operation was still free when its
job was inserted.

**ServerCleanup** (`CleanupAssumption`). `OverlapNeedsCrossing` is about two
sides that both hold a server; by then the snapshots that let them in are gone.
`Excluded` therefore speaks of the earlier moment: whoever has been told, or will
be told by a statement in flight, that the server is clear, has crossed everyone
on the other side who holds it or will be told so. `BuildsStarted` and
`WorkIsHeld` say which statements can be in flight at all, `Budgeted` that a row
that is still to be worked on has an attempt left.

**Notifications** (`NotificationAssumption`: events are numbered, finitely many).
Nothing assumes that there is one leader: any number of replicas may be in the
middle of a pass. `NoneSkipped` needs `PassInOrder`, an invariant about what each
pass has in its hands: every event before its batch, and every rule it has taken
from its list, has been considered (`Considered`: heard, or missed because the
scope lookup failed), whatever the others do to the cursor. `MissedScoped` says
that only scoped rules are ever missed, so that for every other rule considered
means heard.
`NotifiedAtMostOnce` needs `SendsFirst`: the unique delivery row puts a message
into the hands of one replica only.

**ScheduledTasks** (`TaskAssumption`; the theorems assume `0 \notin Periods`, without
which `ScheduledTasksNever` refutes them). `FiredOnce` is a promise about the time
before anything fails, and the invariant is conditional in the same way. What has
to be shown is that the row may be edited, disabled, deleted and run by hand
between the statements of a pass and the pass still moves the window past every
occurrence that has fired (`WindowAhead`, `ReadStillGood`), and that neither the
pass nor the manual run queues a job for the other's execution (`OwnExecution`,
`OwnManual`).

**TunnelMux** (`MuxAssumption`: streams are numbered, finitely many). Exact slots
are a matter of counting (`SlotsAccounted`, `QueueAccounted`) with
`FiniteSetTheorems`. `NoHole` is not: a chunk may be with a reader, on the wire,
in a queue, with a pump, and any of the five ways of closing may come between.
`Consecutive` says that along this whole path the numbers follow each other,
without induction over the wire: every data frame of a live stream continues the
queue or an earlier frame. `SentOnce` keeps these numbers apart, `Mapped` ties
the map to the life of a stream, and `OpenedOnce` excludes that a stream begins a
second time with what the first left on the wire.

**AgentChannel** (`ChannelAssumption`: finitely many calls, successive
connections that are numbered). The invariant `ChannelInv` has two halves.

*Naming.* Both ends look a frame up by its id alone, and the agent's table
outlives a connection. A call is named by its connection and its id together
(`CallNamed`); every frame in flight, in either direction, carries the name of the
call it is about and was written when that call was far enough along (`DownNamed`,
`UpNamed`); an entry of the agent's table is a command with that id
(`InflightNamed`), perhaps one of an earlier connection; and a connection is
opened only after the agent has left the one before (`ChannelKept`). Every action
preserves the naming half with `TypeOK` alone, so it is proved first.

*Flow.* `CleanEndIsComplete` is about what the reader has; a reader that reaches
EOF must have been given every chunk, so `InOrder` says that what it has, what is
buffered and what is on the wire are consecutive up to the last chunk the pump
sent, as long as no error waits to be read. As in `TunnelMux` this is said without
induction over the wire: every chunk of the stream continues the delivered ones or
an earlier chunk. `EndsOnce` says that nothing of a stream follows its terminal
chunk. `CancelledFor` is the part that is easy to overlook: a cancelled pump ends
its stream with a plain EOF in the middle, so a cancel may be on its way or in
effect only if the reader has gone, has lost the connection or has an error
buffered. That the agent's table finds the right command for a cancel needs the
naming half.

Only model-checked:

- liveness (the prover handles neither fairness nor `ENABLED`), and with it
  `EventuallySettled`, `EventuallyTerminal`, `DeploymentsEnd`, `CleanupsSettle`,
  `CallsAreAnswered`, `EveryEventHeard`, `DigestsFlushed`, `DueIsHandled`,
  `ExecutionsClose`, `DecoderFlows`, `OriginTornDown`;
- `SucceededRunsOwn` for a deployment whose worker dies (`DeploymentRecovery`: one
  deployment, a switch whose remote calls do not fail); the theorem is about runs without a crash.

## 6. Limits

- Payloads, results, errors, logs, metrics and audit events are left out; so are
  the queue names (every worker consumes all of them). `DeploymentRun` leaves out
  the wait of `setStatus` for a running cleanup, which `ServerCleanup` is about.
- `DeploymentRun` has one application with the container names of a normal
  deployment: previews, adopted names, build servers, compose stacks and
  scale-to-zero routing are out. Building is one step that succeeds or fails.
  Creating and starting a container is one step with its failures. A drain looks
  like a crash to a run. The API's retry of a dead deployment job is left out.
- The application of a route is atomic, as `ProxyApplier.Apply` intends; its own
  protocol is not modelled.
- The idempotency key of a job is in the model, but no instance uses one yet.
- `StepsMonotone` and `HandlersExclusive` are claims about workers that do not
  stall; with stalls the code allows both to fail.
- `ServerCleanup`: a prune is one step; which images and volumes it removes is
  out. A deployment's own queue row is reduced to "a worker claims it again".
- `IdempotencyKeys`: one team; a purge waits for the owner to have ended (a day
  is longer than a request).
- `AgentChannel`: the input side of `Attach`, the relay between processes and the
  observation batches are out. A command's work at the daemon is one step. Frames
  in flight are bounded by `Window` and `DownWindow`.
- `Notifications`: what a rule listens to is a constant relation, of which a pass
  sees only the unscoped part when its lookup fails; quiet hours and debounce are
  choices of the moment. An event's scope is that of its resource: whether a rule
  is scoped is a property of the rule.
- `ScheduledTasks`: one task; time zones and the parsing of expressions are out.
  A missing agent whose execution row cannot be closed either changes the state
  as `LookupFails` does, and is that action.
- `TunnelMux`: looking a stream up and handing it a chunk is one step; in the code
  a close may come between the two, which then costs one superfluous close frame
  and a buffer that is left to the garbage collector. The slot of a closed stream is
  given back in the step that takes it from the map (in the code just after the
  mutex; nothing reads both). A chunk is one read into a buffer of the frame size, so
  the queue's refusal of empty and oversized frames is not met. Connections with parallel
  lanes, which keep no order between frames, are out.
- The compositions take the queue by its contract (one active job per lock key,
  bounded retries and resumes), which `JobQueue` is shown to keep; `Scheduler` is
  composed with the modules that extend it.
- `PROJECT.json` lists the parts not modelled, with the reason for each. Half of
  the repository's lines are generated (`internal/api`, `internal/store`) or
  presentation, and are not what these models are about.

## 7. Plan

Proofs, most important first:

1. `DeploymentRun`: `SucceededRunsOwn` for one deployment and any number of crashes
   (what the inspection may find when nobody else has used the names).
2. `DeploymentRun`: that its reduced queue is implemented by `JobContract`.

Further modules: the compose pipeline and its resume rules; the proxy's
write-verify-rollback; the waker (scale to zero); the event stream; backups and
drills; `imagesToReclaim` and `cronexpr` against reference definitions.
Compositions: `DeploymentRun` over `JobQueue` instead of its reduced queue.
