---------------------------- MODULE ServerCleanup ----------------------------
(***************************************************************************)
(* The reader/writer exclusion between server cleanups and deployments     *)
(* (internal/jobs/servercleanup.go, the start and the build-server         *)
(* reservation of internal/jobs/deploymentrun.go, and the three guarded    *)
(* statements of db/queries/servers.sql and deployments.sql).              *)
(*                                                                         *)
(* A guarded statement is two actions: it takes its READ COMMITTED         *)
(* snapshot when it begins, and it answers from that snapshot once it has  *)
(* the lock of the server row.  Waiting for a row lock does not renew the  *)
(* snapshot of the other tables: the server row itself is only locked,     *)
(* never written, by these statements.                                     *)
(***************************************************************************)
EXTENDS Naturals, FiniteSets

CONSTANTS
    Servers,       \* servers of a team
    Builders,      \* those of them that are ready build servers
    Deployments,   \* deployment rows
    Target,        \* Target[d]: deployments.server_id
    Jobs,          \* identities of server.cleanup rows of the jobs table
    MaxAttempts,   \* max_attempts of a cleanup row
    MaxResumes,    \* worker.go: maxResumes
    MaxRequests,   \* bound: cleanups requested by cron, threshold or API
    MaxCrashes,    \* bound: workers that die
    None

ASSUME CleanupAssumption ==
    /\ Builders \subseteq Servers
    /\ Target \in [Deployments -> Servers]
    /\ MaxAttempts \in Nat \ {0}
    /\ MaxResumes \in Nat
    /\ MaxRequests \in Nat
    /\ MaxCrashes \in Nat
    /\ None \notin Jobs \cup Servers

VARIABLES
    job,       \* rows of the jobs table with type server.cleanup
    work,      \* the goroutine that executes a cleanup row, if any
    dep,       \* rows of the deployments table
    run,       \* the goroutine that executes a deployment, if any
    asking,    \* servers for which a request has counted no active cleanup
    requests,  \* cleanups requested so far
    crashes,   \* workers that died so far
    crossed    \* history: <<j, d>> when the latest guard of cleanup j and the
               \* latest statement of deployment d on j's server have been in
               \* flight at the same time

vars == <<job, work, dep, run, asking, requests, crashes, crossed>>

Held == {"leased", "running"}              \* the job statuses of the guards
\* "waiting" is scheduled or retry_wait: both wait for PromoteWaitingJobs.
Pending == {"waiting", "queued"} \cup Held
Idle == {"queued", "ended"}                \* deployments that hold no server

NoJob == [status |-> "absent", server |-> None, attempt |-> 0, resumes |-> 0,
          of |-> None]
NoWork == [pc |-> "none", clear |-> FALSE]
NoRun == [pc |-> "none", clear |-> FALSE, pick |-> None]

JobRow == [status : {"absent", "succeeded", "dead_letter"} \cup Pending,
           server : Servers \cup {None}, attempt : 0 .. MaxAttempts,
           resumes : 0 .. MaxResumes + 1,
           of : Jobs \cup {None}]
WorkState == [pc : {"none", "loaded", "guard", "deferring", "pruning",
                    "succeeding", "failing"}, clear : BOOLEAN]
DepRow == [status : {"queued", "active", "ended"},
           build : Servers \cup {None}]
RunState == [pc : {"none", "begin", "starting", "prepared", "picked",
                   "reserving", "deploying"},
             clear : BOOLEAN, pick : Servers \cup {None}]

Init ==
    /\ job = [j \in Jobs |-> NoJob]
    /\ work = [j \in Jobs |-> NoWork]
    /\ dep = [d \in Deployments |-> [status |-> "queued", build |-> None]]
    /\ run = [d \in Deployments |-> NoRun]
    /\ asking = {}
    /\ requests = 0
    /\ crashes = 0
    /\ crossed = {}

-----------------------------------------------------------------------------
(* The predicates of the guarded statements, on the state they read.       *)

Absent(j) == job[j].status = "absent"

\* Row identities are interchangeable: an insert takes a fixed unused one.
CanInsert == \E j \in Jobs : Absent(j)
FreshJob == CHOOSE j \in Jobs : Absent(j)

\* Deployment d has started and server s is one it works on.
Holds(d, s) == dep[d].status \notin Idle /\ s \in {Target[d], dep[d].build}

\* Faulty variant of NoDeployment: the build server is not looked at.
NoTargetDeployment(s) ==
    ~ \E d \in Deployments : dep[d].status \notin Idle /\ Target[d] = s

\* The NOT EXISTS of CanStartServerCleanup.
NoDeployment(s) == ~ \E d \in Deployments : Holds(d, s)

\* Faulty variant of NoCleanup: a cleanup that was put off counts as well.
NoCleanupToCome(s) ==
    ~ \E j \in Jobs : job[j].status \in Pending /\ job[j].server = s

\* The NOT EXISTS of StartDeploymentUnlessCleanupRunning and of
\* AssignDeploymentBuildServerUnlessCleanupRunning.
NoCleanup(s) == ~ \E j \in Jobs : job[j].status \in Held /\ job[j].server = s

\* jobs_lock_key_active_key: one leased or running cleanup per server.
LockFree(s) == {j \in Jobs : job[j].server = s /\ job[j].status \in Held} = {}

\* CountActiveJobsByLockKey.
NoPendingCleanup(s) ==
    ~ \E j \in Jobs : job[j].status \in Pending /\ job[j].server = s

-----------------------------------------------------------------------------
(* Requests: runDueCleanups, probeCleanupThreshold and RunServerCleanup    *)
(* count the pending cleanups of the server, then insert a row.  Their     *)
(* windows say when they ask; here they may at any time.                   *)

AskCleanup(s) ==
    /\ s \notin asking
    /\ requests < MaxRequests
    /\ NoPendingCleanup(s)
    /\ asking' = asking \cup {s}
    /\ requests' = requests + 1
    /\ UNCHANGED <<job, work, dep, run, crashes, crossed>>

EnqueueCleanup(s) ==
    /\ s \in asking
    /\ CanInsert
    /\ asking' = asking \ {s}
    /\ job' = [job EXCEPT ![FreshJob] =
                 [NoJob EXCEPT !.status = "queued", !.server = s]]
    /\ UNCHANGED <<work, dep, run, requests, crashes, crossed>>

\* The insert fails, as it does when the Idempotency-Key of the API names a
\* job already: the request is over.
EnqueueFails(s) ==
    /\ s \in asking
    /\ asking' = asking \ {s}
    /\ UNCHANGED <<job, work, dep, run, requests, crashes, crossed>>

\* PromoteWaitingJobs: the deferral delay or the backoff is over.
Promote(j) ==
    /\ job[j].status = "waiting"
    /\ job' = [job EXCEPT ![j].status = "queued"]
    /\ UNCHANGED <<work, dep, run, asking, requests, crashes, crossed>>

\* The retention purge deletes the row, a dead letter once an operator has
\* forgotten it (ForgetJob, part of this step).  The deferral key that names
\* the row means nothing any more: the database never reuses an identifier.
PurgeJob(j) ==
    /\ job[j].status \in {"succeeded", "dead_letter"}
    /\ job' = [k \in Jobs |-> IF k = j THEN NoJob
                              ELSE [job[k] EXCEPT !.of = IF @ = j THEN None
                                                         ELSE @]]
    /\ crossed' = {c \in crossed : c[1] # j}
    /\ UNCHANGED <<work, dep, run, asking, requests, crashes>>

-----------------------------------------------------------------------------
(* ServerCleanup.Execute, and the queue around it.                         *)

DequeueCleanup(j) ==
    /\ job[j].status = "queued"
    /\ LockFree(job[j].server)
    /\ job' = [job EXCEPT ![j].status = "leased", ![j].attempt = @ + 1]
    /\ work' = [work EXCEPT ![j].pc = "loaded"]
    /\ UNCHANGED <<dep, run, asking, requests, crashes, crossed>>

\* MarkJobRunning, and Execute up to the guard.
ExecuteCleanup(j) ==
    /\ work[j].pc = "loaded" /\ job[j].status = "leased"
    /\ job' = [job EXCEPT ![j].status = "running"]
    /\ UNCHANGED <<work, dep, run, asking, requests, crashes, crossed>>

\* The deployments whose guarded statement is in flight on server s.
InFlight(s) ==
    {d \in Deployments : \/ run[d].pc = "starting" /\ Target[d] = s
                         \/ run[d].pc = "reserving" /\ run[d].pick = s}

BeginCanStart(j) ==
    /\ work[j].pc = "loaded" /\ job[j].status = "running"
    /\ work' = [work EXCEPT ![j] = [pc |-> "guard",
                                    clear |-> NoDeployment(job[j].server)]]
    /\ crossed' = {c \in crossed : c[1] # j}
                    \cup ({j} \X InFlight(job[j].server))
    /\ UNCHANGED <<job, dep, run, asking, requests, crashes>>

CanStartServerCleanup(j) ==
    /\ work[j].pc = "guard"
    /\ work' = [work EXCEPT ![j] =
                  [pc |-> IF work[j].clear THEN "pruning" ELSE "deferring",
                   clear |-> FALSE]]
    /\ UNCHANGED <<job, dep, run, asking, requests, crashes, crossed>>

\* Faulty variant of DeferCleanup: the successor has no idempotency key.
DeferAgain(j) ==
    /\ work[j].pc = "deferring"
    /\ CanInsert
    /\ job' = [job EXCEPT ![FreshJob] =
                 [job[j] EXCEPT !.status = "waiting", !.of = j, !.attempt = 0,
                                !.resumes = 0]]
    /\ work' = [work EXCEPT ![j].pc = "succeeding"]
    /\ UNCHANGED <<dep, run, asking, requests, crashes, crossed>>

\* The successor row carries an idempotency key made of this row's id: a
\* second execution of the same row finds the successor it inserted.
DeferCleanup(j) ==
    /\ work[j].pc = "deferring"
    /\ \/ /\ \E k \in Jobs : job[k].of = j
          /\ UNCHANGED job
       \/ /\ ~ \E k \in Jobs : job[k].of = j
          /\ CanInsert
          /\ job' = [job EXCEPT ![FreshJob] =
                       [job[j] EXCEPT !.status = "waiting", !.of = j,
                                      !.attempt = 0, !.resumes = 0]]
    /\ work' = [work EXCEPT ![j].pc = "succeeding"]
    /\ UNCHANGED <<dep, run, asking, requests, crashes, crossed>>

\* The prune steps end, or the threshold pass measures a disk below it.
PruneEnds(j) ==
    /\ work[j].pc = "pruning"
    /\ work' = [work EXCEPT ![j].pc = "succeeding"]
    /\ UNCHANGED <<job, dep, run, asking, requests, crashes, crossed>>

\* A statement fails, the agent or SSH is unreachable, a measure or a prune
\* fails: an error for the queue.
CleanupFails(j) ==
    /\ work[j].pc \in {"guard", "deferring", "pruning"}
    /\ work' = [work EXCEPT ![j] = [pc |-> "failing", clear |-> FALSE]]
    /\ UNCHANGED <<job, dep, run, asking, requests, crashes, crossed>>

\* FailJob: another attempt, or the dead letters.
Retried(r) == [r EXCEPT !.status = IF r.attempt >= MaxAttempts
                                   THEN "dead_letter" ELSE "waiting"]

\* ReapExpiredLeases: the attempt is given back, up to a number of resumes.
Reaped(r) ==
    IF r.resumes >= MaxResumes
    THEN [r EXCEPT !.status = "dead_letter", !.resumes = @ + 1]
    ELSE [r EXCEPT !.status = "waiting", !.resumes = @ + 1, !.attempt = @ - 1]

FinishCleanup(j) ==
    /\ work[j].pc \in {"succeeding", "failing"}
    /\ job' = [job EXCEPT ![j] = IF work[j].pc = "succeeding"
                                 THEN [@ EXCEPT !.status = "succeeded"]
                                 ELSE Retried(@)]
    /\ work' = [work EXCEPT ![j] = NoWork]
    /\ UNCHANGED <<dep, run, asking, requests, crashes, crossed>>

CrashCleanup(j) ==
    /\ crashes < MaxCrashes
    /\ work[j].pc # "none"
    /\ work' = [work EXCEPT ![j] = NoWork]
    /\ crashes' = crashes + 1
    /\ UNCHANGED <<job, dep, run, asking, requests, crossed>>

\* Faulty variant of ReapCleanup: a row that was already running is skipped.
ReapLeasedOnly(j) ==
    /\ job[j].status = "leased" /\ work[j].pc = "none"
    /\ job' = [job EXCEPT ![j] = Reaped(@)]
    /\ UNCHANGED <<work, dep, run, asking, requests, crashes, crossed>>

\* ReapExpiredLeases: the row of a dead worker is retried or given up.
ReapCleanup(j) ==
    /\ job[j].status \in Held /\ work[j].pc = "none"
    /\ job' = [job EXCEPT ![j] = Reaped(@)]
    /\ UNCHANGED <<work, dep, run, asking, requests, crashes, crossed>>

-----------------------------------------------------------------------------
(* The deployment's side: setStatus(preparing), reserveBuildServer.        *)

\* A worker takes the deployment job, for the first time or after a crash.
ClaimDeployment(d) ==
    /\ run[d].pc = "none"
    /\ dep[d].status # "ended"
    /\ run' = [run EXCEPT ![d].pc = IF dep[d].status = "queued" THEN "begin"
                                    ELSE "prepared"]
    /\ UNCHANGED <<job, work, dep, asking, requests, crashes, crossed>>

\* The cleanups whose guard is in flight on server s.
GuardsInFlight(s) ==
    {j \in Jobs : work[j].pc = "guard" /\ job[j].server = s}

Uncrossed(d, s) ==
    {c \in crossed : c[2] # d \/ job[c[1]].server # s \/ Holds(d, s)}

BeginStart(d) ==
    /\ run[d].pc = "begin"
    /\ run' = [run EXCEPT ![d].pc = "starting",
                          ![d].clear = NoCleanup(Target[d])]
    /\ crossed' = Uncrossed(d, Target[d])
                    \cup (GuardsInFlight(Target[d]) \X {d})
    /\ UNCHANGED <<job, work, dep, asking, requests, crashes>>

\* StartDeploymentUnlessCleanupRunning answers, and setStatus goes on, polls
\* again, or ends because the row is no longer queued.
StartDeployment(d) ==
    LET started == dep[d].status = "queued" /\ run[d].clear
    IN  /\ run[d].pc = "starting"
        /\ dep' = [dep EXCEPT ![d].status = IF started THEN "active" ELSE @]
        /\ run' = [run EXCEPT ![d] = [NoRun EXCEPT !.pc =
                     IF started THEN "prepared"
                     ELSE IF dep[d].status = "queued" THEN "begin"
                     ELSE "none"]]
        /\ UNCHANGED <<job, work, asking, requests, crashes, crossed>>

\* dialBuildServer picks any ready build server.
PickBuildServer(d, b) ==
    /\ run[d].pc = "prepared"
    /\ run' = [run EXCEPT ![d].pc = "picked", ![d].pick = b]
    /\ UNCHANGED <<job, work, dep, asking, requests, crashes, crossed>>

BeginReserve(d) ==
    /\ run[d].pc = "picked"
    /\ run' = [run EXCEPT ![d].pc = "reserving",
                          ![d].clear = NoCleanup(run[d].pick)]
    /\ crossed' = Uncrossed(d, run[d].pick)
                    \cup (GuardsInFlight(run[d].pick) \X {d})
    /\ UNCHANGED <<job, work, dep, asking, requests, crashes>>

\* AssignDeploymentBuildServerUnlessCleanupRunning answers.
ReserveBuildServer(d) ==
    /\ run[d].pc = "reserving"
    /\ IF run[d].clear
       THEN /\ dep' = [dep EXCEPT ![d].build = run[d].pick]
            /\ run' = [run EXCEPT ![d] = [NoRun EXCEPT !.pc = "deploying"]]
       ELSE /\ run' = [run EXCEPT ![d].pc = "picked"]
            /\ UNCHANGED dep
    /\ UNCHANGED <<job, work, asking, requests, crashes, crossed>>

\* No build server is wanted: the deployment builds on its own server.
BuildLocally(d) ==
    /\ run[d].pc = "prepared"
    /\ run' = [run EXCEPT ![d].pc = "deploying"]
    /\ UNCHANGED <<job, work, dep, asking, requests, crashes, crossed>>

\* The run succeeds or fails, no build server is ready, or a checkpoint of a
\* wait loop finds the cancellation flag.
EndDeployment(d) ==
    /\ run[d].pc \in {"begin", "prepared", "picked", "deploying"}
    /\ dep' = [dep EXCEPT ![d].status = "ended"]
    /\ run' = [run EXCEPT ![d] = NoRun]
    /\ UNCHANGED <<job, work, asking, requests, crashes, crossed>>

\* A queued deployment is superseded or cancelled by an API request.
WithdrawDeployment(d) ==
    /\ dep[d].status = "queued"
    /\ dep' = [dep EXCEPT ![d].status = "ended"]
    /\ UNCHANGED <<job, work, run, asking, requests, crashes, crossed>>

CrashDeployment(d) ==
    /\ crashes < MaxCrashes
    /\ run[d].pc # "none"
    /\ run' = [run EXCEPT ![d] = NoRun]
    /\ crashes' = crashes + 1
    /\ UNCHANGED <<job, work, dep, asking, requests, crossed>>

-----------------------------------------------------------------------------
CleanupStep(j) ==
    \/ Promote(j) \/ PurgeJob(j)
    \/ DequeueCleanup(j) \/ ExecuteCleanup(j)
    \/ BeginCanStart(j) \/ CanStartServerCleanup(j) \/ DeferCleanup(j)
    \/ PruneEnds(j) \/ FinishCleanup(j) \/ ReapCleanup(j)

DeploymentStep(d) ==
    \/ ClaimDeployment(d) \/ BeginStart(d) \/ StartDeployment(d)
    \/ \E b \in Builders : PickBuildServer(d, b)
    \/ BuildLocally(d) \/ BeginReserve(d) \/ ReserveBuildServer(d)

Environment ==
    \/ \E s \in Servers : AskCleanup(s) \/ EnqueueCleanup(s) \/ EnqueueFails(s)
    \/ \E j \in Jobs : CleanupFails(j) \/ CrashCleanup(j)
    \/ \E d \in Deployments : WithdrawDeployment(d) \/ CrashDeployment(d)

Next ==
    \/ \E j \in Jobs : CleanupStep(j)
    \/ \E d \in Deployments : DeploymentStep(d) \/ EndDeployment(d)
    \/ Environment

Spec == Init /\ [][Next]_vars

\* Workers keep stepping, a claimed deployment ends, the reaper and the
\* maintenance pass keep running, and a statement that has begun returns.
\* Nothing is assumed of the requests, the cancellations and the crashes.
\* The one strong assumption is about time: a deployment polls every second
\* (deploymentCleanupPollInterval) and a cleanup that is put off comes back
\* after a minute (serverCleanupDeferDelay), so that the polls cannot always
\* fall into the instants in which a deferring cleanup is leased.
BeginsClear(d) ==
    \/ BeginStart(d) /\ NoCleanup(Target[d])
    \/ BeginReserve(d) /\ NoCleanup(run[d].pick)
AnswersClear(d) ==
    \/ StartDeployment(d) /\ NoCleanup(Target[d])
    \/ ReserveBuildServer(d) /\ NoCleanup(run[d].pick)

RunEnds(d) == run[d].pc = "deploying" /\ EndDeployment(d)

Fairness ==
    /\ \A j \in Jobs : WF_vars(CleanupStep(j))
    /\ \A d \in Deployments : /\ WF_vars(DeploymentStep(d) \/ RunEnds(d))
                              /\ SF_vars(BeginsClear(d))
                              /\ SF_vars(AnswersClear(d))

FairSpec == Spec /\ Fairness

-----------------------------------------------------------------------------
(* Properties.                                                             *)

TypeOK ==
    /\ job \in [Jobs -> JobRow]
    /\ work \in [Jobs -> WorkState]
    /\ dep \in [Deployments -> DepRow]
    /\ run \in [Deployments -> RunState]
    /\ asking \subseteq Servers
    /\ requests \in 0 .. MaxRequests
    /\ crashes \in 0 .. MaxCrashes
    /\ crossed \subseteq Jobs \X Deployments

\* Cleanup j prunes a server that deployment d holds.
Overlap(j, d) == work[j].pc = "pruning" /\ Holds(d, job[j].server)

\* What the comments of both statements promise: locking the server row makes
\* the two checks atomic, so that a cleanup never prunes a server a
\* deployment has started to work on.
NeverTogether == \A j \in Jobs, d \in Deployments : ~Overlap(j, d)

\* What the statements do achieve, across crashes, retries, deferrals and
\* build servers: a cleanup and a deployment meet on a server only if their
\* two guarded statements were in flight at the same time.
OverlapNeedsCrossing ==
    \A j \in Jobs, d \in Deployments : Overlap(j, d) => <<j, d>> \in crossed

\* A cleanup that was executed twice, its worker having died after the
\* deferral was inserted, has one successor and not two.
OneSuccessor ==
    \A k, l \in Jobs : job[k].of = job[l].of /\ job[k].of # None => k = l

\* A row has a server; the attempts and resumes of one that is not settled
\* are not used up.
Budgeted(j) ==
    /\ job[j].status # "absent" => job[j].server \in Servers
    /\ job[j].status \in Pending => job[j].resumes <= MaxResumes
    /\ job[j].status \in {"waiting", "queued"} => job[j].attempt < MaxAttempts
    /\ job[j].status \in Held => job[j].attempt >= 1

\* A goroutine works on a row only while the row is leased or running.
WorkIsHeld(j) == work[j].pc # "none" => job[j].status \in Held

\* A deployment has, and looks for, a build server only once it has started.
BuildsStarted(d) ==
    dep[d].status = "queued" =>
        dep[d].build = None /\ run[d].pc \in {"none", "begin", "starting"}

\* The guard of cleanup j has answered, or will answer, that the server is
\* free; the statement of deployment d will answer so for server s.
ToldClear(j) == \/ work[j].pc = "pruning"
                \/ work[j].pc = "guard" /\ work[j].clear
WillClear(d, s) == d \in InFlight(s) /\ run[d].clear

\* Both sides may be told that they have the server only if their statements
\* crossed.
Excluded(j, d) ==
    ToldClear(j) /\ (Holds(d, job[j].server) \/ WillClear(d, job[j].server))
        => <<j, d>> \in crossed

\* The inductive invariant: a cleanup whose guard answered yes and a deployment
\* whose start was accepted crossed each other, jobs are given up within their
\* budget and worked on only while they are leased, and a deployment builds
\* only after it has started.
CleanupInv ==
    /\ TypeOK
    /\ \A j \in Jobs : Budgeted(j) /\ WorkIsHeld(j)
    /\ \A d \in Deployments : BuildsStarted(d)
    /\ \A j \in Jobs, d \in Deployments : Excluded(j, d)
    /\ OverlapNeedsCrossing /\ OneSuccessor

\* The two sides never wait for each other for ever: every deployment gets
\* its servers and ends, although it polls while a cleanup holds them.
DeploymentsEnd == \A d \in Deployments : <>(dep[d].status = "ended")

\* A cleanup that finds a deployment is put off, again and again if need be,
\* but each one that is requested ends up executed or given up.
CleanupsSettle == \A s \in Servers : <>[]NoPendingCleanup(s)

=============================================================================
