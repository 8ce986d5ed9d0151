------------------------------ MODULE JobQueue ------------------------------
(***************************************************************************)
(* The durable PostgreSQL job queue: the jobs table (db/queries/jobs.sql)  *)
(* and the worker pool that consumes it (internal/queue).                  *)
(*                                                                         *)
(* Every SQL statement of the store is one operator on a row, every step   *)
(* of a worker goroutine between two statements is one action.  Time is    *)
(* abstracted to the two comparisons the statements make: `due` is         *)
(* run_at <= now(), `lapsed` is lease_expires_at < now().                  *)
(***************************************************************************)
EXTENDS Naturals, FiniteSets

CONSTANTS
    Jobs,            \* identities of job rows
    Workers,         \* worker ids: one per process start (NewWorker mints it)
    Threads,         \* consumer goroutines of all the processes
    Proc,            \* Proc[t]: the process of goroutine t, its leased_by value
    LockKey,         \* LockKey[j]: the lock_key column, or None
    IdemKey,         \* IdemKey[j]: the idempotency_key column, or None
    Priority,        \* Priority[j]: the priority column
    MaxAttempts,     \* MaxAttempts[j]: the max_attempts column
    MaxResumes,      \* worker.go: const maxResumes
    StallsPossible,  \* TRUE: a lease may lapse under a worker still executing
    None             \* SQL NULL

ASSUME QueueAssumption ==
    /\ Proc \in [Threads -> Workers]
    /\ Priority \in [Jobs -> Nat]
    /\ MaxAttempts \in [Jobs -> Nat \ {0}]
    /\ MaxResumes \in Nat
    /\ StallsPossible \in BOOLEAN
    /\ None \notin Jobs
    /\ None \notin Workers

VARIABLES
    row,       \* the jobs table
    th,        \* the goroutines: program counter and the row they dequeued
    up,        \* processes that are alive
    draining,  \* processes whose context is cancelled (SIGTERM)
    retrying   \* rows a RetryJob request has read as dead_letter

vars == <<row, th, up, draining, retrying>>

Status == {"absent", "scheduled", "queued", "leased", "running", "retry_wait",
           "succeeded", "cancelled", "dead_letter", "purged"}
Active == {"leased", "running"}
Waiting == {"scheduled", "retry_wait"}
Terminal == {"succeeded", "cancelled", "dead_letter", "purged"}

\* lease, failures and steps are history: the number of leases granted on the
\* row, of FailJob writes applied to it, and the lease whose step timeline the
\* row shows.
Row == [status : Status, attempt : Nat, resumes : Nat,
        owner : Workers \cup {None}, lapsed : BOOLEAN, due : BOOLEAN,
        lease : Nat, failures : Nat, steps : Nat]

PC == {"idle", "selected", "leased", "running", "succeeding", "failing"}
Thread == [pc : PC, job : Jobs \cup {None}, attempt : Nat, lease : Nat,
           lost : BOOLEAN]  \* lost: a heartbeat has renewed no row

NoRow == [status |-> "absent", attempt |-> 0, resumes |-> 0, owner |-> None,
          lapsed |-> FALSE, due |-> FALSE, lease |-> 0, failures |-> 0,
          steps |-> 0]
Idle == [pc |-> "idle", job |-> None, attempt |-> 0, lease |-> 0,
         lost |-> FALSE]

Init ==
    /\ row = [j \in Jobs |-> NoRow]
    /\ th = [t \in Threads |-> Idle]
    /\ up = Workers
    /\ draining = {}
    /\ retrying = {}

-----------------------------------------------------------------------------
(* Predicates of the statements' WHERE clauses.                            *)

IsActive(j) == row[j].status \in Active

\* Faulty variant of LockHeld: a row that is leased but not yet running is
\* overlooked.
LockHeldByRunning(j) ==
    /\ LockKey[j] # None
    /\ \E k \in Jobs : /\ k # j /\ LockKey[k] = LockKey[j]
                       /\ row[k].status = "running"

\* The partial unique index jobs_lock_key_active_key and the NOT EXISTS of
\* DequeueJob: another leased or running row holds j's lock_key.
LockHeld(j) ==
    /\ LockKey[j] # None
    /\ \E k \in Jobs : k # j /\ LockKey[k] = LockKey[j] /\ IsActive(k)

\* FOR UPDATE ... SKIP LOCKED: a DequeueJob statement in flight locks the row.
RowLocked(j) == \E t \in Threads : th[t].pc = "selected" /\ th[t].job = j

Eligible(j) ==
    /\ row[j].status = "queued"
    /\ row[j].due
    /\ ~LockHeld(j)
    /\ ~RowLocked(j)

\* WHERE id = $1 AND leased_by = worker_id AND status IN (leased, running):
\* all a heartbeat or a completion checks of the lease it believes it holds.
LeasedBy(j, w) == row[j].owner = w /\ IsActive(j)

\* The unique index on idempotency_key: a live row already carries j's key.
KeyTaken(j) ==
    /\ IdemKey[j] # None
    /\ \E k \in Jobs : /\ k # j /\ IdemKey[k] = IdemKey[j]
                       /\ row[k].status \notin {"absent", "purged"}

-----------------------------------------------------------------------------
(* The statements: the row each of them writes in place of the row r.      *)

Enqueued(r, later) ==
    [r EXCEPT !.status = IF later THEN "scheduled" ELSE "queued",
              !.due = ~later]

\* Faulty variant of DequeueJob: lease_expires_at keeps a past value.
DequeueExpired(r, w) ==
    [r EXCEPT !.status = "leased", !.owner = w, !.lapsed = TRUE,
              !.attempt = r.attempt + 1, !.lease = r.lease + 1]

DequeueJob(r, w) ==
    [r EXCEPT !.status = "leased", !.owner = w, !.lapsed = FALSE,
              !.attempt = r.attempt + 1, !.lease = r.lease + 1]

MarkJobRunning(r) == [r EXCEPT !.status = "running"]

HeartbeatJob(r) == [r EXCEPT !.lapsed = FALSE]

SucceedJob(r) ==
    [r EXCEPT !.status = "succeeded", !.owner = None, !.lapsed = FALSE]

FailJob(r, toDeadLetter) ==
    [r EXCEPT !.status = IF toDeadLetter THEN "dead_letter" ELSE "retry_wait",
              !.due = toDeadLetter, !.owner = None, !.lapsed = FALSE,
              !.failures = r.failures + 1]

UpdateJobSteps(r, lease) == [r EXCEPT !.steps = lease]

CancelledRow(r) == [r EXCEPT !.status = "cancelled"]

Promoted(r) == [r EXCEPT !.status = "queued"]

\* Faulty variants of Reaped: the attempt is given back twice, and the cap on
\* resumes is met one loss early.
ReapedTwice(r) ==
    [r EXCEPT !.status = "retry_wait", !.resumes = r.resumes + 1,
              !.attempt = r.attempt - 2, !.due = TRUE, !.owner = None,
              !.lapsed = FALSE]

ReapedEarly(r) ==
    LET dead == r.resumes + 1 >= MaxResumes
    IN [r EXCEPT !.status = IF dead THEN "dead_letter" ELSE "retry_wait",
                 !.resumes = r.resumes + 1,
                 !.attempt = IF dead \/ r.attempt = 0 THEN r.attempt
                                                      ELSE r.attempt - 1,
                 !.due = TRUE, !.owner = None, !.lapsed = FALSE]

\* A reaped row: the crashed attempt is given back until maxResumes is spent.
Reaped(r) ==
    LET dead == r.resumes >= MaxResumes
    IN [r EXCEPT !.status = IF dead THEN "dead_letter" ELSE "retry_wait",
                 !.resumes = r.resumes + 1,
                 !.attempt = IF dead \/ r.attempt = 0 THEN r.attempt
                                                      ELSE r.attempt - 1,
                 !.due = TRUE, !.owner = None, !.lapsed = FALSE]

\* The statement updates row j, or matches no row when the condition fails.
Write(j, r) == row' = [row EXCEPT ![j] = r]
WriteIf(cond, j, r) == row' = IF cond THEN [row EXCEPT ![j] = r] ELSE row

-----------------------------------------------------------------------------
(* Producers: queue.Enqueue, and the job endpoints of the API.             *)

\* A conflicting idempotency key inserts nothing: the caller is handed the
\* original row, so no step of the queue happens.
Enqueue(j) ==
    /\ row[j].status = "absent"
    /\ ~KeyTaken(j)
    /\ \E later \in BOOLEAN : Write(j, Enqueued(row[j], later))
    /\ UNCHANGED <<th, up, draining, retrying>>

\* CancelJobsForDeployments, the coalescing of queued webhook deployments.
CancelJobsForDeployments(j) ==
    /\ row[j].status = "queued"
    /\ ~RowLocked(j)
    /\ Write(j, CancelledRow(row[j]))
    /\ UNCHANGED <<th, up, draining, retrying>>

\* RetryJob reads the row, then inserts a linked copy in a second statement.
RetryRead(j) ==
    /\ row[j].status = "dead_letter"
    /\ retrying' = retrying \cup {j}
    /\ UNCHANGED <<row, th, up, draining>>

RetryEnqueue(j, n) ==
    /\ j \in retrying
    /\ row[n].status = "absent"
    /\ ~KeyTaken(n)
    /\ LockKey[n] = LockKey[j]
    /\ Priority[n] = Priority[j]
    /\ MaxAttempts[n] = MaxAttempts[j]
    /\ Write(n, Enqueued(row[n], FALSE))
    /\ retrying' = retrying \ {j}
    /\ UNCHANGED <<th, up, draining>>

ForgetDeadLetterJob(j) ==
    /\ row[j].status = "dead_letter"
    /\ Write(j, CancelledRow(row[j]))
    /\ UNCHANGED <<th, up, draining, retrying>>

PurgeTerminalJobs(j) ==
    /\ row[j].status \in {"succeeded", "cancelled"}
    /\ Write(j, [row[j] EXCEPT !.status = "purged"])
    /\ UNCHANGED <<th, up, draining, retrying>>

-----------------------------------------------------------------------------
(* The consumer loop of Worker.Run and Worker.process.                     *)

\* The context of the process is live: its statements reach the database.
Serving(w) == w \in up \ draining

\* DequeueJob, first half: the snapshot's choice, locked FOR UPDATE.
DequeueSelect(t) ==
    /\ th[t].pc = "idle"
    /\ Serving(Proc[t])
    /\ \E j \in Jobs :
         /\ Eligible(j)
         /\ \A k \in Jobs : Eligible(k) => Priority[k] <= Priority[j]
         /\ th' = [th EXCEPT ![t] = [Idle EXCEPT !.pc = "selected",
                                                 !.job = j]]
    /\ UNCHANGED <<row, up, draining, retrying>>

\* DequeueJob, second half: the UPDATE commits, unless a row leased since the
\* snapshot makes it violate the unique index on lock_key.
DequeueLease(t) ==
    LET j == th[t].job IN
    /\ th[t].pc = "selected"
    /\ ~LockHeld(j)
    /\ Write(j, DequeueJob(row[j], Proc[t]))
    /\ th' = [th EXCEPT ![t] = [pc |-> "leased", job |-> j,
                                attempt |-> row[j].attempt + 1,
                                lease |-> row[j].lease + 1, lost |-> FALSE]]
    /\ UNCHANGED <<up, draining, retrying>>

DequeueFails(t) ==
    /\ th[t].pc = "selected"
    /\ LockHeld(th[t].job) \/ ~Serving(Proc[t])
    /\ th' = [th EXCEPT ![t] = Idle]
    /\ UNCHANGED <<row, up, draining, retrying>>

\* Faulty variant of MarkRunning: WHERE id = $1 alone.
MarkRunningUnfenced(t) ==
    LET j == th[t].job IN
    /\ th[t].pc = "leased"
    /\ Serving(Proc[t])
    /\ Write(j, MarkJobRunning(row[j]))
    /\ th' = [th EXCEPT ![t].pc = "running"]
    /\ UNCHANGED <<up, draining, retrying>>

\* process: MarkJobRunning; no row updated means the lease is lost.
MarkRunning(t) ==
    LET j == th[t].job
        held == LeasedBy(j, Proc[t]) /\ row[j].status = "leased"
    IN
    /\ th[t].pc = "leased"
    /\ Serving(Proc[t])
    /\ WriteIf(held, j, MarkJobRunning(row[j]))
    /\ th' = IF held THEN [th EXCEPT ![t].pc = "running"]
                     ELSE [th EXCEPT ![t] = Idle]
    /\ UNCHANGED <<up, draining, retrying>>

\* The heartbeat goroutine runs on a context that survives the drain; the
\* number of rows it renewed is discarded, only the history field keeps it.
Heartbeat(t) ==
    LET j == th[t].job
        held == LeasedBy(j, Proc[t])
    IN
    /\ th[t].pc \in {"running", "succeeding", "failing"}
    /\ WriteIf(held, j, HeartbeatJob(row[j]))
    /\ th' = [th EXCEPT ![t].lost = ~held]
    /\ UNCHANGED <<up, draining, retrying>>

\* StepRecorder.Flush: not fenced by the lease.
RecordStep(t) ==
    LET j == th[t].job IN
    /\ th[t].pc = "running"
    /\ Serving(Proc[t])
    /\ Write(j, UpdateJobSteps(row[j], th[t].lease))
    /\ UNCHANGED <<th, up, draining, retrying>>

\* The handler returns, and the timeline is flushed once more.
HandlerReturns(t, ok) ==
    LET j == th[t].job IN
    /\ th[t].pc = "running"
    /\ WriteIf(Serving(Proc[t]), j, UpdateJobSteps(row[j], th[t].lease))
    /\ th' = [th EXCEPT ![t].pc = IF ok THEN "succeeding" ELSE "failing"]
    /\ UNCHANGED <<up, draining, retrying>>

\* Faulty variant of Succeed: the statement is not fenced by leased_by.
SucceedUnfenced(t) ==
    LET j == th[t].job IN
    /\ th[t].pc = "succeeding"
    /\ Serving(Proc[t])
    /\ WriteIf(IsActive(j), j, SucceedJob(row[j]))
    /\ th' = [th EXCEPT ![t] = Idle]
    /\ UNCHANGED <<up, draining, retrying>>

\* process: SucceedJob, a no-op when the WHERE clause matches nothing.
Succeed(t) ==
    LET j == th[t].job IN
    /\ th[t].pc = "succeeding"
    /\ Serving(Proc[t])
    /\ WriteIf(LeasedBy(j, Proc[t]), j, SucceedJob(row[j]))
    /\ th' = [th EXCEPT ![t] = Idle]
    /\ UNCHANGED <<up, draining, retrying>>

\* Faulty variant of Fail: the statement is not fenced by leased_by.
FailUnfenced(t) ==
    LET j == th[t].job IN
    /\ th[t].pc = "failing"
    /\ Serving(Proc[t])
    /\ WriteIf(IsActive(j), j,
               FailJob(row[j], th[t].attempt >= MaxAttempts[j]))
    /\ th' = [th EXCEPT ![t] = Idle]
    /\ UNCHANGED <<up, draining, retrying>>

\* Worker.fail: the verdict is taken from the row as it was dequeued.
Fail(t) ==
    LET j == th[t].job
        toDeadLetter == th[t].attempt >= MaxAttempts[j]
    IN
    /\ th[t].pc = "failing"
    /\ Serving(Proc[t])
    /\ WriteIf(LeasedBy(j, Proc[t]), j, FailJob(row[j], toDeadLetter))
    /\ th' = [th EXCEPT ![t] = Idle]
    /\ UNCHANGED <<up, draining, retrying>>

\* A statement of process fails because the database is unreachable: it is
\* logged and the row stays as it is.
WriteLost(t) ==
    /\ th[t].pc \in {"leased", "succeeding", "failing"}
    /\ Serving(Proc[t])
    /\ th' = [th EXCEPT ![t] = Idle]
    /\ UNCHANGED <<row, up, draining, retrying>>

\* process passes its statements the context SIGTERM cancels: once the process
\* drains they fail before they reach the database.
WriteCancelled(t) ==
    /\ th[t].pc \in {"leased", "succeeding", "failing"}
    /\ Proc[t] \in draining
    /\ th' = [th EXCEPT ![t] = Idle]
    /\ UNCHANGED <<row, up, draining, retrying>>

-----------------------------------------------------------------------------
(* The maintenance loop of Worker.Run, and the passage of time.            *)

PromoteWaitingJobs ==
    LET S == {j \in Jobs : row[j].status \in Waiting /\ row[j].due} IN
    /\ \E w \in Workers : Serving(w)
    /\ S # {}
    /\ row' = [j \in Jobs |-> IF j \in S THEN Promoted(row[j]) ELSE row[j]]
    /\ UNCHANGED <<th, up, draining, retrying>>

\* Faulty variants of ReapExpiredLeases: lease_expires_at is not compared, and
\* rows that are leased but not yet running are left out.
ReapLiveLeases ==
    LET S == {j \in Jobs : IsActive(j)} IN
    /\ \E w \in Workers : Serving(w)
    /\ S # {}
    /\ row' = [j \in Jobs |-> IF j \in S THEN Reaped(row[j]) ELSE row[j]]
    /\ UNCHANGED <<th, up, draining, retrying>>

ReapRunningOnly ==
    LET S == {j \in Jobs : row[j].status = "running" /\ row[j].lapsed} IN
    /\ \E w \in Workers : Serving(w)
    /\ S # {}
    /\ row' = [j \in Jobs |-> IF j \in S THEN Reaped(row[j]) ELSE row[j]]
    /\ UNCHANGED <<th, up, draining, retrying>>

ReapExpiredLeases ==
    LET S == {j \in Jobs : IsActive(j) /\ row[j].lapsed} IN
    /\ \E w \in Workers : Serving(w)
    /\ S # {}
    /\ row' = [j \in Jobs |-> IF j \in S THEN Reaped(row[j]) ELSE row[j]]
    /\ UNCHANGED <<th, up, draining, retrying>>

BecomesDue(j) ==
    /\ row[j].status \in Waiting
    /\ ~row[j].due
    /\ Write(j, [row[j] EXCEPT !.due = TRUE])
    /\ UNCHANGED <<th, up, draining, retrying>>

\* A goroutine is inside process for the current lease of j: its heartbeats
\* (every LeaseDuration/3) keep the lease alive unless the process stalls.
Attended(j) ==
    \E t \in Threads :
        th[t].pc # "idle" /\ th[t].job = j /\ th[t].lease = row[j].lease

LeaseLapses(j) ==
    /\ IsActive(j)
    /\ ~row[j].lapsed
    /\ StallsPossible \/ ~Attended(j)
    /\ Write(j, [row[j] EXCEPT !.lapsed = TRUE])
    /\ UNCHANGED <<th, up, draining, retrying>>

-----------------------------------------------------------------------------
(* Process events.  Another process keeps serving: an operator runs        *)
(* replicas, or the supervisor restarts the process under a new id.        *)

OthersServe(w) == \E v \in Workers : v # w /\ Serving(v)

Drain(w) ==
    /\ Serving(w)
    /\ OthersServe(w)
    /\ draining' = draining \cup {w}
    /\ UNCHANGED <<row, th, up, retrying>>

Crash(w) ==
    /\ w \in up
    /\ OthersServe(w)
    /\ up' = up \ {w}
    /\ th' = [t \in Threads |-> IF Proc[t] = w THEN Idle ELSE th[t]]
    /\ UNCHANGED <<row, draining, retrying>>

-----------------------------------------------------------------------------
ThreadStep(t) ==
    \/ DequeueSelect(t) \/ DequeueLease(t) \/ DequeueFails(t)
    \/ MarkRunning(t) \/ Heartbeat(t) \/ RecordStep(t)
    \/ \E ok \in BOOLEAN : HandlerReturns(t, ok)
    \/ Succeed(t) \/ Fail(t) \/ WriteLost(t) \/ WriteCancelled(t)

JobStep(j) ==
    \/ Enqueue(j) \/ CancelJobsForDeployments(j)
    \/ RetryRead(j) \/ (\E n \in Jobs : RetryEnqueue(j, n))
    \/ ForgetDeadLetterJob(j) \/ PurgeTerminalJobs(j)
    \/ BecomesDue(j) \/ LeaseLapses(j)

Next ==
    \/ \E t \in Threads : ThreadStep(t)
    \/ \E j \in Jobs : JobStep(j)
    \/ PromoteWaitingJobs
    \/ ReapExpiredLeases
    \/ \E w \in Workers : Drain(w) \/ Crash(w)

Spec == Init /\ [][Next]_vars

\* The goroutines keep running, handlers return (their remote commands carry
\* timeouts), the maintenance ticker fires, and time passes.
Progress(t) ==
    \/ DequeueSelect(t) \/ DequeueLease(t) \/ DequeueFails(t)
    \/ MarkRunning(t) \/ (\E ok \in BOOLEAN : HandlerReturns(t, ok))
    \/ Succeed(t) \/ Fail(t) \/ WriteLost(t) \/ WriteCancelled(t)

Fairness ==
    /\ \A t \in Threads : WF_vars(Progress(t))
    /\ \A j \in Jobs : WF_vars(BecomesDue(j)) /\ WF_vars(LeaseLapses(j))
    /\ WF_vars(PromoteWaitingJobs)
    /\ WF_vars(ReapExpiredLeases)

FairSpec == Spec /\ Fairness

-----------------------------------------------------------------------------
(* Properties.                                                             *)

\* Every column and every goroutine keeps a value of its type.
TypeOK ==
    /\ row \in [Jobs -> Row]
    /\ th \in [Threads -> Thread]
    /\ up \subseteq Workers
    /\ draining \subseteq Workers
    /\ retrying \subseteq Jobs

\* Two rows of one lock_key are never leased or running together, although
\* DequeueJob's NOT EXISTS reads a snapshot older than its commit.
LockKeyExclusive ==
    \A j, k \in Jobs :
        /\ j # k /\ LockKey[j] # None /\ LockKey[j] = LockKey[k]
        => ~(IsActive(j) /\ IsActive(k))

InHandler(t) == th[t].pc = "running"

\* No two goroutines are inside handlers of one job or of one lock_key: what
\* the lease is for.  It rests on leases outliving the workers' pauses.
HandlersExclusive ==
    \A t, u \in Threads :
        LET j == th[t].job
            k == th[u].job
        IN t # u /\ InHandler(t) /\ InHandler(u)
           => j # k /\ (LockKey[j] # None => LockKey[j] # LockKey[k])

\* The attempt counter DequeueJob increments and the reaper gives back never
\* passes max_attempts, so Worker.fail's test always meets its ceiling.
AttemptWithinCeiling == \A j \in Jobs : row[j].attempt <= MaxAttempts[j]

\* A row is dead-lettered only when its handler really failed max_attempts
\* times or its worker was lost more than maxResumes times.
DeadLetterJustified ==
    \A j \in Jobs :
        row[j].status = "dead_letter"
        => row[j].failures = MaxAttempts[j] \/ row[j].resumes = MaxResumes + 1

\* A row's step timeline never goes back to that of an older lease, although
\* UpdateJobSteps is not fenced by the lease.
StepsMonotone == [][\A j \in Jobs : row'[j].steps >= row[j].steps]_row

\* SucceedJob and FailJob, which are fenced by the process id only, end no
\* lease but the one of the goroutine that issues them.
OnlyHolderCompletes ==
    [][\A t \in Threads :
         LET j == th[t].job IN
         /\ th[t].pc \in {"succeeding", "failing"} /\ th'[t] = Idle
         /\ IsActive(j) /\ row'[j].status \notin Active
         => th[t].lease = row[j].lease]_vars

\* A goroutine whose heartbeat found the lease lost does not carry its handler
\* through to the end.
AbandonsLostLease ==
    [][\A t \in Threads :
         InHandler(t) /\ th[t].lost => th'[t].pc # "succeeding"]_vars

\* A handler that finishes inside the drain window has its outcome recorded: a
\* goroutine about to write SucceedJob, of a process that is up, under a lease
\* nobody took away, does not return to idle with the row still active.
DrainRecordsOutcome ==
    [][\A t \in Threads :
         /\ th[t].pc = "succeeding" /\ th'[t] = Idle
         /\ Proc[t] \in draining /\ Proc[t] \in up'
         /\ th[t].lease = row[th[t].job].lease /\ IsActive(th[t].job)
         => row'[th[t].job].status = "succeeded"]_vars

\* Every job that enters the queue is eventually settled, whatever its workers
\* do (INV-013: a job is never lost).
EventuallySettled ==
    \A j \in Jobs : row[j].status # "absent" ~> row[j].status \in Terminal

-----------------------------------------------------------------------------
(* The inductive invariant behind the counting properties.                 *)

\* The counters of a row agree with its history: an attempt is a recorded
\* failure or the lease in progress, a lease is an attempt or a resume.
Accounted(r, j) ==
    /\ r.attempt <= MaxAttempts[j]
    /\ r.status \in {"absent", "queued"} \cup Waiting =>
         /\ r.attempt = r.failures /\ r.attempt < MaxAttempts[j]
         /\ r.resumes <= MaxResumes /\ r.lease = r.attempt + r.resumes
    /\ r.status \in Active =>
         /\ r.attempt = r.failures + 1
         /\ r.resumes <= MaxResumes /\ r.lease = r.attempt + r.resumes
    /\ r.status = "dead_letter" =>
         r.failures = MaxAttempts[j] \/ r.resumes = MaxResumes + 1

\* A busy goroutine works on a row; while its DequeueJob is in flight the row
\* is queued and locked for it alone.
RowLocks ==
    \A t \in Threads :
        /\ th[t].pc # "idle" => th[t].job \in Jobs
        /\ th[t].pc = "selected" =>
             /\ row[th[t].job].status = "queued"
             /\ \A u \in Threads :
                  th[u].pc = "selected" /\ th[u].job = th[t].job => u = t

\* A goroutine whose process owns the row's lease remembers that very lease.
LeaseKnown ==
    \A t \in Threads :
        /\ th[t].pc \notin {"idle", "selected"}
        /\ LeasedBy(th[t].job, Proc[t])
        => /\ th[t].attempt = row[th[t].job].attempt
           /\ th[t].lease = row[th[t].job].lease

\* When no process stalls past its lease, a goroutine inside process holds the
\* current, unexpired lease of its row, and no other goroutine is on that row.
\* Without stalls nothing takes a job from a worker that is still executing it.
LeaseHeld ==
    \A t \in Threads :
        th[t].pc \notin {"idle", "selected"} =>
        /\ LeasedBy(th[t].job, Proc[t])
        /\ ~row[th[t].job].lapsed
        /\ th[t].attempt = row[th[t].job].attempt
        /\ th[t].lease = row[th[t].job].lease
        /\ \A u \in Threads :
             th[u].pc \notin {"idle", "selected"} /\ th[u].job = th[t].job
             => u = t

\* Counters, row locks and remembered leases agree: what SucceedJob, FailJob and
\* the reaper need in order to settle a row rightly, when every worker id names
\* one goroutine.
QueueInv ==
    /\ \A j \in Jobs : Accounted(row[j], j)
    /\ RowLocks
    /\ LeaseKnown

-----------------------------------------------------------------------------
(* Refinement: the queue keeps the contract of JobContract.                *)

Phase(s) ==
    CASE s = "absent" -> "none"
      [] s \in Waiting \cup {"queued"} -> "pending"
      [] s \in Active -> "active"
      [] OTHER -> "done"

phaseBar == [j \in Jobs |-> Phase(row[j].status)]
runsBar == [j \in Jobs |-> row[j].lease]
BudgetBar == [j \in Jobs |-> MaxAttempts[j] + MaxResumes]

Contract == INSTANCE JobContract WITH
                phase <- phaseBar, runs <- runsBar, Budget <- BudgetBar

\* Seen through its statuses the queue behaves as the contract says: bounded
\* runs, one active job per lock key, done is final.
ImplementsContract == Contract!ContractSpec
=============================================================================
