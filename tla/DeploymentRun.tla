--------------------------- MODULE DeploymentRun ---------------------------
(***************************************************************************)
(* The deployment pipeline of one application on one server:               *)
(* internal/jobs/deploymentrun.go, the endpoints that trigger and cancel a *)
(* deployment, and the statements of db/queries/deployments.sql.           *)
(*                                                                         *)
(* The job queue is reduced to what JobQueue shows of it: all the jobs     *)
(* carry the application's lock key, so at most one is active, and an      *)
(* active job whose worker is gone is reaped back to retry_wait at most    *)
(* MaxResumes times.  One container runs under the application's name      *)
(* (app), a candidate under <name>-next (next), and the proxy routes by    *)
(* name or to one container's address.                                     *)
(***************************************************************************)
EXTENDS Naturals, FiniteSets

CONSTANTS
    Deployments,   \* the deployments of the application
    Rolling,       \* Rolling[d]: a health check is configured when d starts
    Webhook,       \* Webhook[d]: d was triggered by a push
    MaxResumes,    \* worker.go: const maxResumes
    MaxCrashes,    \* bound: how often a worker may die under a run
    MaxAborts,     \* bound: how often a trigger request may die half-way
    QueueLimit,    \* servers.deployment_queue_limit
    SwitchFaults,  \* TRUE: the remote calls of the switch may fail
    StoreFaults,   \* TRUE: the statements of a run may fail
    Base,          \* stands for the deployment of the container at the start
    None

ASSUME DeploymentAssumption ==
    /\ Rolling \in [Deployments -> BOOLEAN]
    /\ Webhook \in [Deployments -> BOOLEAN]
    /\ MaxResumes \in Nat /\ MaxCrashes \in Nat /\ MaxAborts \in Nat
    /\ QueueLimit \in Nat \ {0}
    /\ SwitchFaults \in BOOLEAN /\ StoreFaults \in BOOLEAN
    /\ None \notin Deployments /\ Base \notin Deployments /\ Base # None

VARIABLES
    status,    \* deployments.status
    job,       \* the deployment.run job of each deployment
    trigger,   \* the request that creates each deployment
    cancel,    \* the request that cancels each deployment
    run,       \* the deploymentRun a worker executes
    app,       \* the container under the application's name
    next,      \* the container under the candidate's name
    route,     \* where the proxy sends the application's traffic
    crashes, aborts,
    accepted,  \* history: cancellations answered 202
    barred,    \* history: deployments that entered switching
    erased     \* history: those of them whose worker died after it had written
               \* preparing over switching

vars == <<status, job, trigger, cancel, run, app, next, route, crashes,
          aborts, erased, accepted, barred>>
remote == <<app, next, route>>
requests == <<trigger, cancel, accepted>>
bounds == <<crashes, aborts, erased>>

Stages == {"preparing", "building", "starting", "healthchecking", "switching"}
InFlight == Stages \cup {"finishing"}
Terminal == {"succeeded", "failed", "cancelled", "superseded"}
Status == {"absent", "queued"} \cup InFlight \cup Terminal
JobStatus == {"none", "queued", "active", "retry_wait", "succeeded",
              "cancelled", "dead_letter"}
Steps == {"load", "check", "enter", "work", "resume", "prepare", "clear",
          "create", "hook", "route_ip", "stop_old", "rm_old", "rename",
          "route_name", "finish", "finishing", "compensate", "verdict", "ack"}

Idle == [dep |-> None, at |-> "load", stage |-> "preparing",
         loaded |-> "absent", rt |-> FALSE, verdict |-> "failed"]

\* A container is known by the deployment that created it and, since a replay
\* creates it anew, by the number of crashes before its creation.
Container(d, n) == [dep |-> d, born |-> n, up |-> TRUE]
Absent == [dep |-> None, born |-> 0, up |-> FALSE]
Gone(c) == c = Absent
ByName == [by |-> "name", dep |-> None, born |-> 0]
AddressOf(c) == [by |-> "ip", dep |-> c.dep, born |-> c.born]

\* The application is deployed, healthy and routed when the story begins.
Init ==
    /\ status = [d \in Deployments |-> "absent"]
    /\ job = [d \in Deployments |->
                [status |-> "none", resumes |-> 0, cancel |-> FALSE]]
    /\ trigger = [d \in Deployments |-> [at |-> "no", coalesced |-> {}]]
    /\ cancel = [d \in Deployments |-> "no"]
    /\ run = Idle
    /\ app = Container(Base, 0)
    /\ next = Absent
    /\ route = ByName
    /\ crashes = 0 /\ aborts = 0
    /\ accepted = {} /\ barred = {} /\ erased = {}

-----------------------------------------------------------------------------
(* enqueueDeploymentWith: five statements, no transaction.                 *)

\* CountActiveDeploymentsForServer; a request that is refused changes nothing.
Unfinished == {d \in Deployments : status[d] \notin Terminal \cup {"absent"}}

AdmitDeployment(d) ==
    /\ trigger[d].at = "no"
    /\ Cardinality(Unfinished) < QueueLimit
    /\ trigger' = [trigger EXCEPT ![d].at = "admitted"]
    /\ UNCHANGED <<status, job, cancel, accepted, run, remote, bounds, barred>>

CreateDeployment(d) ==
    /\ trigger[d].at = "admitted"
    /\ trigger' = [trigger EXCEPT ![d].at = IF Webhook[d] THEN "created"
                                                          ELSE "enqueue"]
    /\ status' = [status EXCEPT ![d] = "queued"]
    /\ UNCHANGED <<job, cancel, accepted, run, remote, bounds, barred>>

SupersedeQueuedDeployments(d) ==
    LET S == {e \in Deployments \ {d} : status[e] = "queued" /\ Webhook[e]} IN
    /\ trigger[d].at = "created"
    /\ status' = [e \in Deployments |-> IF e \in S THEN "superseded"
                                                   ELSE status[e]]
    /\ trigger' = [trigger EXCEPT ![d] = [at |-> "coalesce", coalesced |-> S]]
    /\ UNCHANGED <<job, cancel, accepted, run, remote, bounds, barred>>

CancelJobsForDeployments(d) ==
    /\ trigger[d].at = "coalesce"
    /\ job' = [e \in Deployments |->
                 IF e \in trigger[d].coalesced /\ job[e].status = "queued"
                 THEN [job[e] EXCEPT !.status = "cancelled"] ELSE job[e]]
    /\ trigger' = [trigger EXCEPT ![d] = [at |-> "enqueue", coalesced |-> {}]]
    /\ UNCHANGED <<status, cancel, accepted, run, remote, bounds, barred>>

EnqueueRun(d) ==
    /\ trigger[d].at = "enqueue"
    /\ job' = [job EXCEPT ![d].status = "queued"]
    /\ trigger' = [trigger EXCEPT ![d].at = "done"]
    /\ UNCHANGED <<status, cancel, accepted, run, remote, bounds, barred>>

\* The process or the client goes away between two of the statements.
TriggerAborts(d) ==
    /\ trigger[d].at \notin {"no", "admitted", "done"}
    /\ aborts < MaxAborts
    /\ aborts' = aborts + 1
    /\ trigger' = [trigger EXCEPT ![d] = [at |-> "done", coalesced |-> {}]]
    /\ UNCHANGED <<status, job, cancel, accepted, run, remote, crashes, erased,
                   barred>>

-----------------------------------------------------------------------------
(* CancelDeployment: a read and two statements.                            *)

CancelRead(d) ==
    /\ cancel[d] = "no"
    /\ status[d] \notin Terminal \cup {"absent", "switching", "finishing"}
    /\ cancel' = [cancel EXCEPT ![d] = "read"]
    /\ UNCHANGED <<status, job, trigger, accepted, run, remote, bounds, barred>>

CancelQueuedDeployment(d) ==
    /\ cancel[d] = "read"
    /\ status' = IF status[d] = "queued"
                 THEN [status EXCEPT ![d] = "cancelled"] ELSE status
    /\ cancel' = [cancel EXCEPT ![d] = "flag"]
    /\ UNCHANGED <<job, trigger, accepted, run, remote, bounds, barred>>

\* Faulty variant of CancelSeesJob: only a queued job is flagged.
CancelSeesQueued(d) == job[d].status = "queued"

\* The statement leaves out retry_wait.
CancelSeesJob(d) == job[d].status \in {"queued", "active"}

RequestDeploymentJobCancel(d) ==
    /\ cancel[d] = "flag"
    /\ job' = IF CancelSeesJob(d) THEN [job EXCEPT ![d].cancel = TRUE]
                                  ELSE job
    /\ cancel' = [cancel EXCEPT ![d] = "done"]
    /\ accepted' = accepted \cup {d}
    /\ UNCHANGED <<status, trigger, run, remote, bounds, barred>>

-----------------------------------------------------------------------------
(* The queue, as JobQueue shows it: one active job per lock key.           *)

\* Faulty variant of DequeueRun: the jobs carry no lock key.
DequeueUnlocked(d) ==
    /\ job[d].status = "queued"
    /\ job' = [job EXCEPT ![d].status = "active"]
    /\ run' = [Idle EXCEPT !.dep = d]
    /\ UNCHANGED <<status, requests, remote, bounds, barred>>

DequeueRun(d) ==
    /\ job[d].status = "queued"
    /\ \A e \in Deployments : job[e].status # "active"
    /\ job' = [job EXCEPT ![d].status = "active"]
    /\ run' = [Idle EXCEPT !.dep = d]
    /\ UNCHANGED <<status, requests, remote, bounds, barred>>

Crash ==
    /\ run # Idle
    /\ crashes < MaxCrashes
    /\ crashes' = crashes + 1
    /\ erased' = erased \cup {d \in barred : d = run.dep
                                             /\ status[d] = "preparing"}
    /\ run' = Idle
    /\ UNCHANGED <<status, job, requests, remote, aborts, barred>>

ReapRun(d) ==
    /\ job[d].status = "active"
    /\ run.dep # d
    /\ job' = [job EXCEPT ![d].status = IF job[d].resumes >= MaxResumes
                                        THEN "dead_letter" ELSE "retry_wait",
                          ![d].resumes = job[d].resumes + 1]
    /\ UNCHANGED <<status, requests, run, remote, bounds, barred>>

PromoteRun(d) ==
    /\ job[d].status = "retry_wait"
    /\ job' = [job EXCEPT ![d].status = "queued"]
    /\ UNCHANGED <<status, requests, run, remote, bounds, barred>>

-----------------------------------------------------------------------------
(* Execute: load, run, compensate, complete the job.                       *)

dep == run.dep
At(p) == run.dep # None /\ run.at = p
Goto(p) == run' = [run EXCEPT !.at = p]
ToStage(s) == run' = [run EXCEPT !.at = "check", !.stage = s]
Abort(v) == run' = [run EXCEPT !.at = "compensate", !.verdict = v]
Complete(s) ==
    /\ job' = [job EXCEPT ![dep].status = s]
    /\ run' = Idle

Load ==
    /\ At("load")
    /\ IF status[dep] \in Terminal
       THEN Complete("succeeded")
       ELSE /\ run' = [run EXCEPT !.at = "check", !.loaded = status[dep]]
            /\ UNCHANGED job
    /\ UNCHANGED <<status, requests, remote, bounds, barred>>

\* newRun returns an error: with max_attempts = 1 the job is dead-lettered.
LoadFails ==
    /\ At("load")
    /\ StoreFaults
    /\ status[dep] \notin Terminal
    /\ Complete("dead_letter")
    /\ UNCHANGED <<status, requests, remote, bounds, barred>>

\* checkpoint, in front of every stage; a read that fails cancels nothing.
Checkpoint ==
    /\ At("check")
    /\ \/ IF job[dep].cancel THEN Abort("cancelled") ELSE Goto("enter")
       \/ StoreFaults /\ Goto("enter")
    /\ UNCHANGED <<status, job, requests, remote, bounds, barred>>

\* Faulty variant of SetStatus: the first transition is unconditional too.
SetStatusBlindly ==
    /\ At("enter")
    /\ status' = [status EXCEPT ![dep] = run.stage]
    /\ barred' = IF run.stage = "switching" THEN barred \cup {dep} ELSE barred
    /\ Goto("work")
    /\ UNCHANGED <<job, requests, remote, bounds>>

\* setStatus: only the first transition of a run loaded as queued is guarded,
\* by StartDeploymentUnlessCleanupRunning (the wait for a cleanup changes
\* nothing here); every other write is unconditional.
SetStatus ==
    LET first == run.stage = "preparing" /\ run.loaded = "queued"
        changed == first /\ status[dep] # "queued"
    IN
    /\ At("enter")
    /\ IF changed
       THEN Complete("succeeded") /\ UNCHANGED <<status, barred>>
       ELSE /\ status' = [status EXCEPT ![dep] = run.stage]
            /\ barred' = IF run.stage = "switching" THEN barred \cup {dep}
                                                    ELSE barred
            /\ Goto("work")
            /\ UNCHANGED job
    /\ UNCHANGED <<requests, remote, bounds>>

\* A status write of execute or of finish fails, and with it the run.
SetStatusFails ==
    /\ StoreFaults
    /\ At("enter") \/ At("finish") \/ At("finishing")
    /\ Abort("failed")
    /\ UNCHANGED <<status, job, requests, remote, bounds, barred>>

\* A remote step in front of the switch fails: connect, clone, build, pull,
\* health check; it leaves nothing that the compensation does not remove.  A
\* connect that fails may have got the runtime already.
StepFails ==
    /\ At("work")
    /\ run.stage # "switching"
    /\ \E rt \in {run.rt, TRUE} :
          run' = [run EXCEPT !.at = "compensate", !.verdict = "failed", !.rt = rt]
    /\ UNCHANGED <<status, job, requests, remote, bounds, barred>>

Connect ==
    /\ At("work") /\ run.stage = "preparing"
    /\ run' = [run EXCEPT !.at = "resume", !.rt = TRUE]
    /\ UNCHANGED <<status, job, requests, remote, bounds, barred>>

\* Faulty variants of ResumePoint and Resume: two running containers are taken
\* for a finished switch, and a run loaded as switching is replayed.
ResumeDone ==
    CASE app.up                -> "route_name"
      [] next.up /\ Gone(app) -> "rename"
      [] OTHER                -> "compensate"

ResumeReplays ==
    /\ At("resume")
    /\ Goto("prepare") \/ Abort("failed")
    /\ UNCHANGED <<status, job, requests, remote, bounds, barred>>

\* resume: the state loaded by Execute decides between replay and inspection.
ResumePoint ==
    CASE Gone(next) /\ app.up -> "route_name"
      [] next.up /\ Gone(app) -> "rename"
      [] next.up /\ app.up    -> "stop_old"
      [] OTHER                -> "compensate"

Resume ==
    /\ At("resume")
    /\ IF run.loaded \in {"switching", "finishing"}
       THEN Goto(ResumePoint) \/ (SwitchFaults /\ Abort("failed"))
       ELSE Goto("prepare")
    /\ UNCHANGED <<status, job, requests, remote, bounds, barred>>

\* The environment, the prepare step and the pre-deployment command, which runs
\* in the container that is serving: nothing has been changed yet.
Prepare ==
    /\ At("prepare")
    /\ ToStage("building") \/ Abort("failed")
    /\ UNCHANGED <<status, job, requests, remote, bounds, barred>>

Build ==
    /\ At("work") /\ run.stage = "building"
    /\ ToStage("starting")
    /\ UNCHANGED <<status, job, requests, remote, bounds, barred>>

\* Without a health check the old container is stopped and removed first.
StopThenStart ==
    /\ At("work") /\ run.stage = "starting"
    /\ app' = IF Rolling[dep] \/ Gone(app) THEN app
                                           ELSE [app EXCEPT !.up = FALSE]
    /\ Goto(IF Rolling[dep] THEN "create" ELSE "clear")
    /\ UNCHANGED <<status, job, requests, next, route, bounds, barred>>

Clear ==
    /\ At("clear")
    /\ \/ app' = Absent /\ Goto("create")
       \/ UNCHANGED app /\ Abort("failed")
    /\ UNCHANGED <<status, job, requests, next, route, bounds, barred>>

StartCandidate ==
    LET c == Container(dep, crashes) IN
    /\ At("create")
    /\ IF Rolling[dep] THEN next' = c /\ UNCHANGED app
                       ELSE app' = c /\ UNCHANGED next
    /\ ToStage("healthchecking")
    /\ UNCHANGED <<status, job, requests, route, bounds, barred>>

\* The removal of what bears the target's name, the creation or the start of
\* the new container failed.
StartFails ==
    LET c == [Container(dep, crashes) EXCEPT !.up = FALSE] IN
    /\ At("create")
    /\ \/ UNCHANGED <<app, next>>
       \/ \E left \in {c, Absent} :
            IF Rolling[dep] THEN next' = left /\ UNCHANGED app
                            ELSE app' = left /\ UNCHANGED next
    /\ Abort("failed")
    /\ UNCHANGED <<status, job, requests, route, bounds, barred>>

Healthy ==
    /\ At("work") /\ run.stage = "healthchecking"
    /\ Goto("hook")
    /\ UNCHANGED <<status, job, requests, remote, bounds, barred>>

\* The post-deployment command runs in the new container, before the switch.
PostDeploymentHook ==
    /\ At("hook")
    /\ ToStage("switching") \/ Abort("failed")
    /\ UNCHANGED <<status, job, requests, remote, bounds, barred>>

-----------------------------------------------------------------------------
(* switching, finish and the compensation.                                 *)

\* Faulty variant of BeginSwitch: a cancellation is honoured past the barrier.
BeginSwitchCancellable ==
    /\ At("work") /\ run.stage = "switching"
    /\ IF job[dep].cancel THEN Abort("cancelled")
       ELSE Goto(IF Rolling[dep] THEN "route_ip" ELSE "route_name")
    /\ UNCHANGED <<status, job, requests, remote, bounds, barred>>

\* Without a candidate the switch only inspects the container.
BeginSwitch ==
    /\ At("work") /\ run.stage = "switching"
    /\ \/ Rolling[dep] /\ Goto("route_ip")
       \/ ~Rolling[dep] /\ ~Gone(app) /\ Goto("route_name")
       \/ ~Rolling[dep] /\ (Gone(app) \/ SwitchFaults) /\ Abort("failed")
    /\ UNCHANGED <<status, job, requests, remote, bounds, barred>>

\* Faulty variants of RouteToCandidate: the old container is stopped before the
\* proxy is told, and the route keeps the container instead of its address.
RouteLater ==
    /\ At("route_ip")
    /\ Goto("stop_old")
    /\ UNCHANGED <<status, job, requests, remote, bounds, barred>>

RouteToContainer ==
    /\ At("route_ip")
    /\ route' = next /\ Goto("stop_old")
    /\ UNCHANGED <<status, job, requests, app, next, bounds, barred>>

\* resolve_endpoint and applyRoutingTo; a failed apply is rolled back.
RouteToCandidate ==
    /\ At("route_ip")
    /\ \/ ~Gone(next) /\ route' = AddressOf(next) /\ Goto("stop_old")
       \/ (Gone(next) \/ SwitchFaults) /\ UNCHANGED route /\ Abort("failed")
    /\ UNCHANGED <<status, job, requests, app, next, bounds, barred>>

\* promoteCandidate: the errors of the stop and of the removal are logged and
\* ignored.
StopOld ==
    /\ At("stop_old")
    /\ \/ app' = IF Gone(app) THEN app ELSE [app EXCEPT !.up = FALSE]
       \/ SwitchFaults /\ UNCHANGED app
    /\ Goto("rm_old")
    /\ UNCHANGED <<status, job, requests, next, route, bounds, barred>>

RemoveOld ==
    /\ At("rm_old")
    /\ \/ app' = Absent
       \/ SwitchFaults /\ UNCHANGED app
    /\ Goto("rename")
    /\ UNCHANGED <<status, job, requests, next, route, bounds, barred>>

Rename ==
    /\ At("rename")
    /\ Gone(app) /\ ~Gone(next)
    /\ app' = next /\ next' = Absent
    /\ Goto("route_name")
    /\ UNCHANGED <<status, job, requests, route, bounds, barred>>

\* Faulty variant of RenameFails: the error of the rename is ignored as well.
RenameIgnored ==
    /\ At("rename")
    /\ ~Gone(app) \/ Gone(next) \/ SwitchFaults
    /\ Goto("route_name")
    /\ UNCHANGED <<status, job, requests, remote, bounds, barred>>

RenameFails ==
    /\ At("rename")
    /\ ~Gone(app) \/ Gone(next) \/ SwitchFaults
    /\ Abort("failed")
    /\ UNCHANGED <<status, job, requests, remote, bounds, barred>>

\* applyRouting: the stable route, by container name.
RouteToName ==
    /\ At("route_name")
    /\ \/ route' = ByName /\ Goto("finish")
       \/ SwitchFaults /\ UNCHANGED route /\ Abort("failed")
    /\ UNCHANGED <<status, job, requests, app, next, bounds, barred>>

Finish ==
    /\ \/ At("finish") /\ status' = [status EXCEPT ![dep] = "finishing"]
                       /\ Goto("finishing")
       \/ At("finishing") /\ status' = [status EXCEPT ![dep] = "succeeded"]
                          /\ Goto("ack")
    /\ UNCHANGED <<job, requests, remote, bounds, barred>>

\* Faulty variant of Compensate: the verdict is never written.
CompensateSilently ==
    /\ At("compensate")
    /\ next' = IF run.rt THEN Absent ELSE next
    /\ Goto("ack")
    /\ UNCHANGED <<status, job, requests, app, route, bounds, barred>>

\* markFailed and markCancelled remove the candidate through the runtime of the
\* run, when it has one, and ignore the outcome.
Compensate ==
    /\ At("compensate")
    /\ \/ next' = IF run.rt THEN Absent ELSE next
       \/ SwitchFaults /\ UNCHANGED next
    /\ Goto("verdict")
    /\ UNCHANGED <<status, job, requests, app, route, bounds, barred>>

\* Its error, too, is ignored.
Verdict ==
    /\ At("verdict")
    /\ \/ status' = [status EXCEPT ![dep] = run.verdict]
       \/ StoreFaults /\ UNCHANGED status
    /\ Goto("ack")
    /\ UNCHANGED <<job, requests, remote, bounds, barred>>

\* Execute returns no error: Worker.process completes the job.
Acknowledge ==
    /\ At("ack")
    /\ Complete("succeeded")
    /\ UNCHANGED <<status, requests, remote, bounds, barred>>

-----------------------------------------------------------------------------
RunStep ==
    \/ Load \/ LoadFails \/ Checkpoint \/ SetStatus \/ SetStatusFails
    \/ StepFails \/ Connect \/ Resume \/ Prepare \/ Build
    \/ StopThenStart \/ Clear \/ StartCandidate \/ StartFails
    \/ Healthy \/ PostDeploymentHook
    \/ BeginSwitch \/ RouteToCandidate \/ StopOld \/ RemoveOld \/ Rename
    \/ RenameFails \/ RouteToName \/ Finish \/ Compensate \/ Verdict
    \/ Acknowledge

TriggerStep(d) ==
    \/ SupersedeQueuedDeployments(d) \/ CancelJobsForDeployments(d)
    \/ EnqueueRun(d)

QueueStep(d) == DequeueRun(d) \/ ReapRun(d) \/ PromoteRun(d)

CancelStep(d) == CancelQueuedDeployment(d) \/ RequestDeploymentJobCancel(d)

RequestStep(d) ==
    \/ AdmitDeployment(d) \/ CreateDeployment(d)
    \/ TriggerStep(d) \/ TriggerAborts(d)
    \/ CancelRead(d) \/ CancelStep(d)

Next ==
    \/ RunStep \/ Crash
    \/ \E d \in Deployments : QueueStep(d) \/ RequestStep(d)

Spec == Init /\ [][Next]_vars

\* Remote commands and statements return, requests run to their end, and the
\* worker pool keeps reaping, promoting and dequeuing.
Fairness ==
    /\ WF_vars(RunStep)
    /\ \A d \in Deployments :
         /\ WF_vars(TriggerStep(d)) /\ WF_vars(CancelStep(d))
         /\ WF_vars(DequeueRun(d))
         /\ WF_vars(ReapRun(d) \/ PromoteRun(d))

FairSpec == Spec /\ Fairness

-----------------------------------------------------------------------------
(* Properties.                                                             *)

Box == [dep : Deployments \cup {Base, None}, born : Nat, up : BOOLEAN]
Endpoint == [by : {"name", "ip"}, dep : Deployments \cup {Base, None}, born : Nat]
RunState == [dep : Deployments \cup {None}, at : Steps, stage : Stages,
             loaded : Status, rt : BOOLEAN, verdict : Terminal]
JobState == [status : JobStatus, resumes : Nat, cancel : BOOLEAN]
TriggerState == [at : {"no", "admitted", "created", "coalesce", "enqueue", "done"},
                 coalesced : SUBSET Deployments]

\* Every column, request, run and container keeps a value of its type.
TypeOK ==
    /\ status \in [Deployments -> Status]
    /\ job \in [Deployments -> JobState]
    /\ trigger \in [Deployments -> TriggerState]
    /\ cancel \in [Deployments -> {"no", "read", "flag", "done"}]
    /\ run \in RunState
    /\ app \in Box /\ next \in Box
    /\ route \in Endpoint
    /\ crashes \in Nat /\ aborts \in Nat
    /\ accepted \subseteq Deployments /\ barred \subseteq Deployments
    /\ erased \subseteq barred

\* A single deployment of the application is between preparing and finishing,
\* the others wait in queued (deployment-engine 3.1).
SingleActiveDeployment ==
    Cardinality({d \in Deployments : status[d] \in InFlight}) <= 1

Target == IF route.by = "name" THEN app
          ELSE IF AddressOf(app) = route THEN app
          ELSE IF AddressOf(next) = route THEN next ELSE Absent

\* With rolling deployments the application stays routed to a running container
\* at every step of the switch (INV-005).
KeepsServing == (\A d \in Deployments : Rolling[d]) => Target.up

\* With rolling deployments a running container of the application survives
\* every failure, cancellation and recovery (INV-006).
LastHealthyKept == (\A d \in Deployments : Rolling[d]) => app.up \/ next.up

\* A deployment that entered switching is never cancelled: the barrier of
\* checkpoint.
BarrierHolds == \A d \in barred : status[d] # "cancelled"

\* A cancellation answered 202 is recorded on the job, unless the deployment is
\* terminal already.
AcceptedCancelRecorded ==
    \A d \in accepted : job[d].cancel \/ status[d] \in Terminal

\* A deployment is declared succeeded only while the container under the
\* application's name is its own, running, and routed by name.
SucceededRunsOwn ==
    [][\A d \in Deployments :
         status'[d] = "succeeded" /\ status[d] # "succeeded"
         => app.dep = d /\ app.up /\ route = ByName]_vars

\* A terminal status is never overwritten, although setStatus writes
\* unconditionally; only a superseded deployment whose cancellation was under
\* way may be relabelled cancelled.
TerminalIsFinal ==
    [][\A d \in Deployments :
         status[d] \in Terminal
         => \/ status'[d] = status[d]
            \/ status[d] = "superseded" /\ status'[d] = "cancelled"]_status

\* A deployment that entered switching starts a candidate again only after two
\* deaths, the last one of a worker that was recovering it while its row said
\* preparing: as long as the row says switching, resume inspects.
ReplayNeedsErasure ==
    \A d \in barred :
        At("create") /\ run.dep = d => d \in erased /\ crashes >= 2

\* A deployment that entered switching never starts a candidate again: a resume
\* "must never be replayed blindly" (execute, in front of resume).
NoBlindReplay == \A d \in barred : ~(At("create") /\ run.dep = d)

\* The deployments a server has not finished stay within its queue limit
\* (deployment-engine 3.2).
QueueWithinLimit == Cardinality(Unfinished) <= QueueLimit

-----------------------------------------------------------------------------
(* The invariants behind these properties.                                 *)

\* The statuses of a deployment no run has begun, and those that say that the
\* switch was begun.
Unstarted == {"absent", "queued", "cancelled", "superseded"}
Pending == Unstarted \ {"absent"}
Decided == {"switching", "finishing"} \cup Terminal
Resumable == {"queued", "active", "retry_wait"}

\* One run at a time, that of the one active job.
OneRun ==
    /\ run.dep = None => run = Idle
    /\ run.dep # None => job[run.dep].status = "active"
    /\ \A d, e \in Deployments :
          job[d].status = "active" /\ job[e].status = "active" => d = e

\* The steps of a run belong to its stages; only a checkpoint cancels.
OnCourse ==
    /\ run.at \in {"load", "resume", "prepare"} => run.stage = "preparing"
    /\ run.at \in {"clear", "create"} => run.stage = "starting"
    /\ run.at = "clear" => ~Rolling[run.dep]
    /\ run.at = "hook" => run.stage = "healthchecking"
    /\ run.verdict \in {"failed", "cancelled"}
    /\ run.at \notin {"compensate", "verdict", "ack"} => run.verdict = "failed"

\* The row, its job and its cancellation come into being in this order.
Requested ==
    \A d \in Deployments :
        /\ trigger[d].at \in {"no", "admitted"} <=> status[d] = "absent"
        /\ trigger[d].at # "done" => job[d].status = "none"
        /\ job[d].status = "none" => status[d] \in Unstarted /\ d \notin barred
        /\ cancel[d] # "no" => status[d] # "absent"
        /\ cancel[d] \in {"flag", "done"} => status[d] # "queued"
        /\ d \in accepted => cancel[d] = "done"

\* Unless a verdict was lost, the row is in flight as long as the run is; only
\* a run at its beginning, or cancelled there, may be overtaken by a request.
StatusKept ==
    ~StoreFaults /\ run.dep # None =>
        LET s == status[run.dep]
            beginning == run.stage = "preparing" /\ run.loaded = "queued"
                         /\ run.at \in {"check", "enter"}
        IN  /\ run.at = "ack" => s \in Terminal
            /\ beginning => s \in Pending
            /\ run.at \notin {"load", "ack"} /\ ~beginning =>
                  \/ s \in InFlight
                  \/ /\ s \in Pending /\ run.verdict = "cancelled"
                     /\ run.at \in {"compensate", "verdict"}

\* Until a worker dies a deployment has one run, which finds it queued.
FirstRun ==
    crashes = 0 =>
        /\ \A d \in Deployments :
             /\ job[d].status = "active" => run.dep = d
             /\ job[d].status # "retry_wait"
             /\ job[d].status = "queued" => status[d] \in Pending
        /\ run.dep # None =>
             IF run.at = "load" THEN status[run.dep] \in Pending
                                ELSE run.loaded = "queued"

\* A run past the barrier, and a run that is about to inspect what an earlier
\* one left behind.
Past ==
    \/ run.at \in {"route_ip", "stop_old", "rm_old", "rename", "route_name",
                   "finish", "finishing", "compensate", "verdict", "ack"}
    \/ run.at = "work" /\ run.stage = "switching"
Resuming ==
    /\ run.stage = "preparing"
    /\ \/ run.at = "load"
       \/ /\ run.at \in {"check", "enter", "work", "resume"}
          /\ run.loaded \in {"switching", "finishing"}

\* What the barrier means for its deployments: no run of theirs goes back, and
\* a new one finds the switch in the row, until a worker dies that has written
\* preparing over it; and such a worker is not the first to die.
BarrierKept ==
    \A d \in barred :
        /\ status[d] \notin {"absent", "queued"}
        /\ crashes = 0 =>
             /\ status[d] # "cancelled"
             /\ run.dep = d => /\ Past /\ run.verdict = "failed"
                               /\ status[d] \in Decided
             /\ run.dep # d => job[d].status \notin Resumable
        /\ d \in erased => crashes >= 2
        /\ d \notin erased =>
             /\ status[d] \in Decided \cup {"preparing"}
             /\ run.dep = d => Past \/ Resuming
             /\ (run.dep = d => run.at = "load") /\ job[d].status \in Resumable
                => status[d] \in Decided

\* Until a worker dies the deployment that runs is the only one in flight.
OnlyRunInFlight ==
    crashes = 0 /\ ~StoreFaults =>
        \A d \in Deployments : status[d] \in InFlight => run.dep = d

\* Until a worker dies the switch deals with the container the run started.
OwnContainer ==
    crashes = 0 /\ run.dep # None =>
        LET mine(c) == c.dep = run.dep /\ c.up IN
        /\ \/ run.at \in {"route_ip", "stop_old", "rm_old", "rename", "hook"}
           \/ /\ run.at \in {"check", "enter", "work"}
              /\ run.stage \in {"healthchecking", "switching"}
           => IF Rolling[run.dep] THEN mine(next) ELSE mine(app)
        /\ run.at \in {"route_ip", "stop_old", "rm_old", "rename"} =>
              Rolling[run.dep]
        /\ \/ run.at \in {"route_ip", "stop_old", "rm_old", "rename"}
           \/ run.at = "work" /\ run.stage = "switching"
           => run.dep \in barred
        /\ run.at \in {"route_name", "finish", "finishing"} => mine(app)
        /\ run.at \in {"finish", "finishing"} => route = ByName

\* A rolling switch without failing calls: the route leaves the old container
\* before it is stopped, and names the new one before its address is given up.
Serving ==
    crashes = 0 /\ ~SwitchFaults /\ (\A d \in Deployments : Rolling[d]) =>
        /\ app.dep \in barred \cup {Base, None}
        /\ run.at \notin {"stop_old", "rm_old", "rename"} => app.up
        /\ run.at = "rename" => Gone(app)
        /\ run.at \in {"stop_old", "rm_old", "rename"} => route = AddressOf(next)
        /\ run.at = "route_name" => route = AddressOf(app)
        /\ run.at \notin {"stop_old", "rm_old", "rename", "route_name"} =>
              route = ByName
        /\ run.dep # None /\ run.at \notin {"route_name", "finish", "finishing",
                                            "compensate", "verdict", "ack"} =>
              app.dep # run.dep

\* Until a worker dies or a verdict is lost, an accepted cancellation is not.
CancelKept == crashes = 0 /\ ~StoreFaults => AcceptedCancelRecorded

\* What every step keeps, whatever fails and dies.
RunInv ==
    /\ TypeOK /\ OneRun /\ OnCourse /\ Requested /\ StatusKept
    /\ FirstRun /\ BarrierKept /\ OnlyRunInFlight /\ CancelKept
    /\ OwnContainer /\ Serving

\* Once a deployment is created it is eventually terminal.
EventuallyTerminal ==
    \A d \in Deployments :
        status[d] # "absent" ~> status[d] \in Terminal

\* A queued deployment eventually has its job: "Deployment + job committed".
EventuallyHasJob ==
    \A d \in Deployments :
        status[d] = "queued"
        ~> job[d].status # "none" \/ status[d] \in Terminal
=============================================================================
