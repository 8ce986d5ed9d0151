--------------------------- MODULE ScheduledTasks ---------------------------
(***************************************************************************)
(* One scheduled task: its cron window, which the leaders of Scheduler     *)
(* move (internal/scheduler/scheduledtasks.go), the manual run, the edits  *)
(* and the deletion of the API (internal/handlers/scheduledtasks.go), its  *)
(* execution rows and the job that runs an execution                       *)
(* (internal/jobs/scheduledtask.go and scheduledworkflow.go).  The queue   *)
(* is taken by what it promises: a job runs under the lock key of the      *)
(* task, an attempt that fails is retried up to a ceiling, one whose       *)
(* worker died is resumed up to a cap.                                     *)
(*                                                                         *)
(* A cron expression is its period: it fires at the multiples of it.  The  *)
(* period 0 is an expression that parses and never matches, as 31 February *)
(* does.                                                                   *)
(***************************************************************************)
EXTENDS Scheduler

CONSTANTS
    Periods,      \* the cron expressions the task may have; 0 never matches
    Execs,        \* bound: 1 .. n, rows of task_executions that are not misled
    Horizon,      \* bound: the clock stops here
    OverlapSkip,  \* overlap_policy is skip, not queue
    MissedSkip,   \* missed_run_policy is skip, not run
    Workflow,     \* the kind is github_workflow, not container_command
    MaxAttempts,  \* jobs.max_attempts
    MaxResumes,   \* resumes of a job whose worker died
    MaxEdits      \* bound: edits and deletions of the task

ASSUME TaskAssumption ==
    /\ Periods \subseteq Nat /\ Periods # {}
    /\ Execs = 1 .. Cardinality(Execs)
    /\ Horizon \in Nat
    /\ {OverlapSkip, MissedSkip, Workflow} \subseteq BOOLEAN
    /\ MaxAttempts \in Nat \ {0} /\ MaxResumes \in Nat /\ MaxEdits \in Nat

VARIABLES
    now,
    cron,    \* cron_expression
    next,    \* next_run_at; 0 is NULL
    status,  \* "on", "off" (not enabled) or "deleted"
    edits,
    pass,    \* what each replica is doing
    api,     \* the manual run
    exec,    \* task_executions: "closed" is succeeded or failed
    job,     \* the job of an execution
    \* History.
    occ,     \* the occurrence an execution was opened for; 0 is a manual run
    ran,     \* times its command was started or its dispatch sent, up to 2
    misled,  \* a skip was recorded with a reason that was not true
    since    \* when the task was last enabled

task == <<now, cron, next, status, edits>>
history == <<occ, ran, misled, since>>
vars == <<schedVars, task, pass, api, exec, job, history>>

Idle == [pc |-> "idle", cron |-> 0, next |-> 0, at |-> 0, id |-> 0]
NoJob == [pc |-> "none", tries |-> 0, resumes |-> 0, result |-> "none"]

Init ==
    /\ SchedInit
    /\ now = 0
    /\ cron \in Periods
    /\ next = 0
    /\ status = "on"
    /\ edits = 0
    /\ pass = [p \in Replicas |-> Idle]
    /\ api = Idle
    /\ exec = [x \in Execs |-> "none"]
    /\ job = [x \in Execs |-> NoJob]
    /\ occ = [x \in Execs |-> 0]
    /\ ran = [x \in Execs |-> 0]
    /\ misled = FALSE
    /\ since = 0

\* cronexpr.Schedule.Next: the first occurrence strictly after t; the zero
\* time, here 0, if the expression can never match.
NextAfter(period, t) == IF period = 0 THEN 0 ELSE (t \div period + 1) * period

Running == {x \in Execs : exec[x] = "running"}
\* The next row of task_executions.
Fresh == {x \in Execs : exec[x] = "none" /\ \A y \in Execs : y < x => exec[y] # "none"}

StatementFails == Trouble /\ UNCHANGED <<lock, role, conn>>

-----------------------------------------------------------------------------
(* The clock, and the API.                                                 *)

TimePasses ==
    /\ now < Horizon
    /\ now' = now + 1
    /\ UNCHANGED <<schedVars, cron, next, status, edits, pass, api, exec, job,
                   history>>

Edit ==
    /\ status # "deleted" /\ edits < MaxEdits
    /\ edits' = edits + 1
    /\ UNCHANGED <<schedVars, now, pass, api, exec, job, occ, ran, misled>>

\* UpdateScheduledTask: an expression or a timezone that is sent drops the
\* window, the one the task already had too.
EditCron(c) ==
    /\ Edit
    /\ cron' = c
    /\ next' = 0
    /\ UNCHANGED <<status, since>>

\* UpdateScheduledTask with enabled alone: the window is left as it is.
SetEnabled(on) ==
    /\ Edit /\ status = IF on THEN "off" ELSE "on"
    /\ status' = IF on THEN "on" ELSE "off"
    /\ since' = IF on THEN now ELSE since
    /\ UNCHANGED <<cron, next>>

\* DeleteScheduledTask.
Delete ==
    /\ Edit
    /\ status' = "deleted"
    /\ UNCHANGED <<cron, next, since>>

-----------------------------------------------------------------------------
(* The leader: runDueScheduledTasks and scheduleTask.                      *)

\* ListSchedulableTasks reads the row, then the clock is read.  A pass over a
\* window that is to come changes nothing.
ListTasks(p) ==
    /\ MayCron(p) /\ pass[p].pc = "idle" /\ status = "on" /\ next <= now
    /\ pass' = [pass EXCEPT ![p] = [Idle EXCEPT !.pc = "decide", !.cron = cron,
                                                !.next = next, !.at = now]]
    /\ UNCHANGED <<schedVars, task, api, exec, job, history>>

\* The pass ends by moving the window.
Advance(p) ==
    pass' = [pass EXCEPT ![p].pc = "advance", ![p].next = 0, ![p].id = 0]

\* No window yet: it is seeded without firing.
Seed(p) ==
    /\ pass[p].pc = "decide" /\ pass[p].next = 0
    /\ Advance(p)
    /\ UNCHANGED <<schedVars, task, api, exec, job, history>>

Due(p) == pass[p].pc = "decide" /\ pass[p].next # 0
\* A whole period went by without the scheduler seeing the occurrence.  An
\* expression that never matches has no period to measure that by.
Missed(p) ==
    LET period == NextAfter(pass[p].cron, pass[p].next) - pass[p].next
    IN  period > 0 /\ pass[p].at - pass[p].next > period

\* recordSkip, that cannot fail a pass: a row that is not written is logged.
SkipMissed(p) ==
    /\ Due(p) /\ Missed(p) /\ MissedSkip
    /\ Advance(p)
    /\ UNCHANGED <<schedVars, task, api, exec, job, history>>

\* The job of an execution is queued or runs, or is about to be queued.
Alive(x) ==
    \/ job[x].pc \in {"waiting", "leased", "ran"}
    \/ api.pc = "enqueue" /\ api.id = x
    \/ \E p \in Replicas : pass[p].pc = "enqueue" /\ pass[p].id = x

\* Faulty variant of SkipOverlap: the window is left where it is.
SkipInPlace(p) ==
    /\ Due(p) /\ ~(Missed(p) /\ MissedSkip)
    /\ OverlapSkip /\ Running # {}
    /\ pass' = [pass EXCEPT ![p] = Idle]
    /\ UNCHANGED <<schedVars, task, api, exec, job, history>>

\* CountRunningTaskExecutions is not 0: the reason recorded is that the
\* previous execution was still running.
SkipOverlap(p) ==
    /\ Due(p) /\ ~(Missed(p) /\ MissedSkip)
    /\ OverlapSkip /\ Running # {}
    /\ misled' = (misled \/ ~\E x \in Running : Alive(x))
    /\ Advance(p)
    /\ UNCHANGED <<schedVars, task, api, exec, job, occ, ran, since>>

Fire(p) ==
    /\ Due(p) /\ ~(Missed(p) /\ MissedSkip)
    /\ OverlapSkip => Running = {}
    /\ pass' = [pass EXCEPT ![p].pc = "create"]
    /\ UNCHANGED <<schedVars, task, api, exec, job, history>>

\* enqueueTask opens the execution row first, then queues the job.
CreateExecution(p) ==
    /\ pass[p].pc = "create"
    /\ \E x \in Fresh :
          /\ exec' = [exec EXCEPT ![x] = "running"]
          /\ occ' = [occ EXCEPT ![x] = pass[p].next]
          /\ pass' = [pass EXCEPT ![p].pc = "enqueue", ![p].id = x]
    /\ UNCHANGED <<schedVars, task, api, job, ran, misled, since>>

EnqueueExecution(p) ==
    /\ pass[p].pc = "enqueue"
    /\ job' = [job EXCEPT ![pass[p].id].pc = "waiting"]
    /\ Advance(p)
    /\ UNCHANGED <<schedVars, task, api, exec, history>>

\* Faulty variant of AdvanceTask: the first occurrence from the clock on, not
\* strictly after it.
AdvanceFromOccurrence(p) ==
    /\ pass[p].pc = "advance"
    /\ next' = pass[p].at
    /\ pass' = [pass EXCEPT ![p] = Idle]
    /\ UNCHANGED <<schedVars, now, cron, status, edits, api, exec, job, history>>

\* advanceTask, computed from what was read at the beginning of the pass and
\* written whatever the row has become.  Without a further occurrence the
\* COALESCE of SetScheduledTaskSchedule keeps the window there is.
AdvanceTask(p) ==
    /\ pass[p].pc = "advance"
    /\ next' = LET after == NextAfter(pass[p].cron, pass[p].at)
               IN  IF after = 0 THEN next ELSE after
    /\ pass' = [pass EXCEPT ![p] = Idle]
    /\ UNCHANGED <<schedVars, now, cron, status, edits, api, exec, job, history>>

\* A statement fails: the error is logged and the task left for the next tick.
PassFails(p) ==
    /\ pass[p].pc # "idle" /\ StatementFails
    /\ pass' = [pass EXCEPT ![p] = Idle]
    /\ UNCHANGED <<task, api, exec, job, history>>

-----------------------------------------------------------------------------
(* RunScheduledTask.                                                       *)

ManualCheck ==
    /\ api.pc = "idle"
    /\ OverlapSkip => Running = {}
    /\ api' = [api EXCEPT !.pc = "create"]
    /\ UNCHANGED <<schedVars, task, pass, exec, job, history>>

ManualCreate ==
    /\ api.pc = "create"
    /\ \E x \in Fresh : /\ exec' = [exec EXCEPT ![x] = "running"]
                        /\ api' = [api EXCEPT !.pc = "enqueue", !.id = x]
    /\ UNCHANGED <<schedVars, task, pass, job, history>>

\* The one manual run of the model is over.
ManualEnqueue ==
    /\ api.pc = "enqueue"
    /\ job' = [job EXCEPT ![api.id].pc = "waiting"]
    /\ api' = [Idle EXCEPT !.pc = "over"]
    /\ UNCHANGED <<schedVars, task, pass, exec, history>>

ManualFails ==
    /\ api.pc \in {"create", "enqueue"} /\ StatementFails
    /\ api' = [Idle EXCEPT !.pc = "over"]
    /\ UNCHANGED <<task, pass, exec, job, history>>

-----------------------------------------------------------------------------
(* The job: the queue, and ScheduledTaskRun.Execute.                       *)

\* The lock key: one job of the task at a time.
Lease(x) ==
    /\ job[x].pc = "waiting"
    /\ \A y \in Execs : job[y].pc \notin {"leased", "ran"}
    /\ job' = [job EXCEPT ![x].pc = "leased"]
    /\ UNCHANGED <<schedVars, task, pass, api, exec, history>>

Over(pc) == [NoJob EXCEPT !.pc = pc]

\* Worker.fail: another attempt, or the dead letters.
Retried(j) ==
    IF j.tries + 1 < MaxAttempts
    THEN [j EXCEPT !.pc = "waiting", !.tries = @ + 1, !.result = "none"]
    ELSE Over("dead")

\* ReapExpiredLeases: resumed without using up an attempt, up to a cap.
Resumed(j) ==
    IF j.resumes < MaxResumes
    THEN [j EXCEPT !.pc = "waiting", !.resumes = @ + 1, !.result = "none"]
    ELSE Over("dead")

\* The task is gone: an error for the queue, and the row is left as it is.
TaskVanished(x) ==
    /\ job[x].pc = "leased" /\ status = "deleted"
    /\ job' = [job EXCEPT ![x] = Retried(@)]
    /\ UNCHANGED <<schedVars, task, pass, api, exec, history>>

\* So is a task, an application or a server that cannot be read, and an agent
\* that is not connected when the row cannot be closed either: ScheduledTaskRun
\* .fail logs that and no more.
LookupFails(x) ==
    /\ job[x].pc = "leased" /\ StatementFails
    /\ job' = [job EXCEPT ![x] = Retried(@)]
    /\ UNCHANGED <<task, pass, api, exec, history>>

\* Faulty variant of AgentMissing: the row is left running.
AgentMissingUnnoted(x) ==
    /\ job[x].pc = "leased" /\ status # "deleted" /\ ~Workflow
    /\ job' = [job EXCEPT ![x] = Retried(@)]
    /\ UNCHANGED <<schedVars, task, pass, api, exec, history>>

\* The agent is not connected: the row is closed as failed and the job
\* retried all the same.  A dispatch has no agent.
AgentMissing(x) ==
    /\ job[x].pc = "leased" /\ status # "deleted" /\ ~Workflow
    /\ exec' = [exec EXCEPT ![x] = "closed"]
    /\ job' = [job EXCEPT ![x] = Retried(@)]
    /\ UNCHANGED <<schedVars, task, pass, api, history>>

\* The command is run, or the dispatch sent: it ends, or exceeds its timeout.
RunCommand(x, result) ==
    /\ job[x].pc = "leased" /\ status # "deleted"
    /\ ran' = [ran EXCEPT ![x] = IF @ < 2 THEN @ + 1 ELSE @]
    /\ job' = [job EXCEPT ![x].pc = "ran", ![x].result = result]
    /\ UNCHANGED <<schedVars, task, pass, api, exec, occ, misled, since>>

\* FinishTaskExecution, then the job succeeds whatever the command did.
FinishExecution(x) ==
    /\ job[x].pc = "ran"
    /\ exec' = [exec EXCEPT ![x] = "closed"]
    /\ job' = [job EXCEPT ![x] = Over("done")]
    /\ UNCHANGED <<schedVars, task, pass, api, history>>

\* The row cannot be written after a command that ended: an error for the
\* queue.
FinishFails(x) ==
    /\ job[x].pc = "ran" /\ job[x].result # "timeout" /\ ~Workflow
    /\ StatementFails
    /\ job' = [job EXCEPT ![x] = Retried(@)]
    /\ UNCHANGED <<task, pass, api, exec, history>>

\* The row cannot be written after a dispatch, or after a command that
\* exceeded its timeout: that is swallowed, and the job succeeds.
FinishSwallowed(x) ==
    /\ job[x].pc = "ran" /\ (Workflow \/ job[x].result = "timeout")
    /\ StatementFails
    /\ job' = [job EXCEPT ![x] = Over("done")]
    /\ UNCHANGED <<task, pass, api, exec, history>>

\* The worker dies and its lease expires.
WorkerDies(x) ==
    /\ job[x].pc \in {"leased", "ran"} /\ StatementFails
    /\ job' = [job EXCEPT ![x] = Resumed(@)]
    /\ UNCHANGED <<task, pass, api, exec, history>>

-----------------------------------------------------------------------------
PassStep(p) ==
    \/ ListTasks(p) \/ Seed(p) \/ SkipMissed(p) \/ SkipOverlap(p)
    \/ Fire(p) \/ CreateExecution(p) \/ EnqueueExecution(p) \/ AdvanceTask(p)

JobStep(x) ==
    \/ Lease(x) \/ TaskVanished(x) \/ AgentMissing(x) \/ FinishExecution(x)
    \/ \E result \in {"ended", "timeout"} : RunCommand(x, result)

ManualStep == ManualCreate \/ ManualEnqueue

ElectionStep(p) ==
    /\ \/ (Elect(p) \/ LoseSession(p) \/ NoticeClosed(p) \/ Restart(p))
             /\ UNCHANGED pass
       \/ StepDown(p) /\ pass[p].pc = "idle" /\ UNCHANGED pass
       \/ Crash(p) /\ pass' = [pass EXCEPT ![p] = Idle]
    /\ UNCHANGED <<task, api, exec, job, history>>

Next ==
    \/ TimePasses
    \/ \E c \in Periods : EditCron(c)
    \/ \E on \in BOOLEAN : SetEnabled(on)
    \/ Delete
    \/ \E p \in Replicas : PassStep(p) \/ PassFails(p) \/ ElectionStep(p)
    \/ ManualCheck \/ ManualStep \/ ManualFails
    \/ \E x \in Execs : \/ JobStep(x) \/ LookupFails(x) \/ FinishFails(x)
                        \/ FinishSwallowed(x) \/ WorkerDies(x)

Spec == Init /\ [][Next]_vars

\* Followers keep trying the lock, a process that died is restarted, a leader
\* works its passes and the workers their jobs.  Nothing is assumed of the
\* clock, of the operator, or of the driver noticing a lost connection.
Fairness ==
    /\ \A p \in Replicas : /\ WF_vars(ElectionStep(p) /\ (Elect(p) \/ Restart(p)
                                                            \/ StepDown(p)))
                           /\ WF_vars(PassStep(p))
    /\ \A x \in Execs : WF_vars(JobStep(x))
    /\ WF_vars(ManualStep)

FairSpec == Spec /\ Fairness

-----------------------------------------------------------------------------
(* Properties.                                                             *)

PassState ==
    [pc : {"idle", "decide", "create", "enqueue", "advance"},
     cron : Periods \cup {0}, next : Nat, at : 0 .. Horizon,
     id : Execs \cup {0}]
ApiState ==
    [pc : {"idle", "create", "enqueue", "over"}, cron : {0}, next : {0},
     at : {0}, id : Execs \cup {0}]
JobState ==
    [pc : {"none", "waiting", "leased", "ran", "done", "dead"},
     tries : 0 .. MaxAttempts - 1, resumes : 0 .. MaxResumes,
     result : {"none", "ended", "timeout"}]

TypeOK ==
    /\ SchedTypeOK
    /\ now \in 0 .. Horizon /\ cron \in Periods /\ next \in Nat
    /\ status \in {"on", "off", "deleted"} /\ edits \in 0 .. MaxEdits
    /\ pass \in [Replicas -> PassState] /\ api \in ApiState
    /\ \A p \in Replicas : /\ pass[p].pc # "idle" => pass[p].cron \in Periods
                           /\ pass[p].pc = "enqueue" => pass[p].id \in Execs
    /\ api.pc = "enqueue" => api.id \in Execs
    /\ exec \in [Execs -> {"none", "running", "closed"}]
    /\ job \in [Execs -> JobState]
    /\ occ \in [Execs -> Nat] /\ ran \in [Execs -> 0 .. 2]
    /\ misled \in BOOLEAN /\ since \in 0 .. Horizon

\* While nothing goes wrong, an occurrence opens one execution and its command
\* is run once, however passes, manual runs, edits and jobs interleave.
FiredOnce ==
    trouble = 0 =>
        /\ \A x, y \in Execs : occ[x] = occ[y] /\ occ[x] # 0 => x = y
        /\ \A x \in Execs : ran[x] <= 1

\* While nothing has gone wrong, the replica that works is the one whose
\* session holds the lock.
WorksUnderLock(p) ==
    /\ role[p] = "leader" => lock = p /\ conn[p] = "open"
    /\ pass[p].pc # "idle" => role[p] = "leader"

\* The window lies beyond every occurrence that has fired, except while the
\* pass that fired one has still to move it.
WindowAhead ==
    (\A p \in Replicas : pass[p].pc \notin {"enqueue", "advance"}) =>
        next = 0 \/ \A x \in Execs : occ[x] < next

\* What a pass read at its beginning is still good when it fires, although
\* the row may have been edited since.
ReadStillGood(p) ==
    LET q == pass[p] IN
    /\ q.pc # "idle" => q.at <= now /\ \A x \in Execs : occ[x] <= q.at
    /\ q.pc \in {"decide", "create"} =>
          /\ q.next <= q.at
          /\ q.next = 0 \/ \A x \in Execs : occ[x] < q.next
    /\ q.pc = "create" => q.next # 0

\* The row of an execution that is about to be queued is nobody else's.
OwnExecution(p) ==
    pass[p].pc = "enqueue" =>
        /\ exec[pass[p].id] # "none" /\ job[pass[p].id].pc = "none"
        /\ api.pc = "enqueue" => pass[p].id # api.id
OwnManual ==
    api.pc = "enqueue" => exec[api.id] # "none" /\ job[api.id].pc = "none"

\* Until its command has been started, an execution has not run.
RunOnce(x) ==
    /\ occ[x] <= now
    /\ exec[x] = "none" => job[x].pc = "none" /\ occ[x] = 0
    /\ job[x].pc \in {"none", "waiting", "leased"} => ran[x] = 0
    /\ ran[x] <= 1

\* The inductive invariant.  Before anything goes wrong only the leader works,
\* what it has read of the task is still good when it writes the window, each
\* occurrence has its execution and its job, and a job is run once.
TasksInv ==
    /\ TypeOK
    /\ trouble = 0 =>
          /\ \A p \in Replicas : /\ WorksUnderLock(p) /\ ReadStillGood(p)
                                 /\ OwnExecution(p)
          /\ WindowAhead /\ OwnManual
          /\ \A x \in Execs : RunOnce(x)
          /\ FiredOnce

\* The window catches up with the clock, from no window at all and past a
\* leader that dies between opening an execution and moving the window: an
\* enabled task does not stay due.
DueIsHandled ==
    next <= now ~> next > now \/ status # "on" \/ Fresh = {}

\* While nothing goes wrong, an execution that was opened is closed, unless
\* its task was deleted.
ExecutionsClose ==
    \A x \in Execs : exec[x] = "running" ~>
        exec[x] # "running" \/ trouble > 0 \/ status = "deleted"

\* ADR-071: at most one dispatch per occurrence.
OncePerOccurrence ==
    \A x, y \in Execs : occ[x] = occ[y] /\ occ[x] # 0 => x = y

\* scheduledtask.go, scheduledworkflow.go: the queue never runs the command,
\* or sends the dispatch, a second time.
NeverReplayed == \A x \in Execs : ran[x] <= 1

\* scheduledtasks.go: the reason recorded with a skipped occurrence is true.
SkipReasonTrue == ~misled

\* scheduledtasks.go: a task that was enabled again has no window and is
\* seeded without firing, so no pass that began since fires an occurrence from
\* before.
ReenabledIsSeeded ==
    [][\A p \in Replicas : CreateExecution(p) =>
          pass[p].next >= since \/ pass[p].at < since]_vars

=============================================================================
