------------------------- MODULE ServerCleanupProofs -------------------------
(***************************************************************************)
(* Machine-checked proofs about the exclusion of cleanups and deployments, *)
(* for any number of servers, deployments, cleanup rows and crashes.       *)
(***************************************************************************)
EXTENDS ServerCleanup, TLAPS

\* An insert takes a row that nobody works on.
LEMMA FreshRow ==
    ASSUME TypeOK, CanInsert
    PROVE  FreshJob \in Jobs /\ job[FreshJob].status = "absent"
  BY DEF CanInsert, FreshJob, Absent

\* What the statements write to a cleanup row keeps its type and its budget.
LEMMA RowTypes ==
    ASSUME NEW x \in JobRow
    PROVE  /\ NoJob \in JobRow
           /\ \A s \in Servers :
                 [NoJob EXCEPT !.status = "queued", !.server = s] \in JobRow
           /\ \A t \in {"succeeded", "dead_letter"} \cup Pending :
                 [x EXCEPT !.status = t] \in JobRow
           /\ \A k \in Jobs :
                 [x EXCEPT !.status = "waiting", !.of = k, !.attempt = 0,
                           !.resumes = 0] \in JobRow
           /\ [x EXCEPT !.of = None] \in JobRow
           /\ x.attempt < MaxAttempts =>
                 [x EXCEPT !.status = "leased", !.attempt = @ + 1] \in JobRow
           /\ x.status \in Held /\ x.resumes <= MaxResumes /\ x.attempt >= 1 =>
                 Reaped(x) \in JobRow
           /\ Retried(x) \in JobRow
  <1>0. /\ 0 \in 0 .. MaxAttempts /\ 0 \in 0 .. MaxResumes + 1
        /\ x.attempt \in 0 .. MaxAttempts /\ x.resumes \in 0 .. MaxResumes + 1
        /\ x.attempt < MaxAttempts => x.attempt + 1 \in 0 .. MaxAttempts
        /\ x.attempt >= 1 => x.attempt - 1 \in 0 .. MaxAttempts
        /\ x.resumes <= MaxResumes => x.resumes + 1 \in 0 .. MaxResumes + 1
    BY CleanupAssumption DEF JobRow
  <1>1. /\ NoJob \in JobRow
        /\ \A s \in Servers :
              [NoJob EXCEPT !.status = "queued", !.server = s] \in JobRow
    BY <1>0 DEF NoJob, JobRow, Pending
  <1>2. /\ \A t \in {"succeeded", "dead_letter"} \cup Pending :
              [x EXCEPT !.status = t] \in JobRow
        /\ [x EXCEPT !.of = None] \in JobRow
    BY DEF JobRow
  <1>3. \A k \in Jobs :
           [x EXCEPT !.status = "waiting", !.of = k, !.attempt = 0,
                     !.resumes = 0] \in JobRow
    BY <1>0 DEF JobRow, Pending
  <1>4. x.attempt < MaxAttempts =>
           [x EXCEPT !.status = "leased", !.attempt = @ + 1] \in JobRow
    BY <1>0 DEF JobRow, Pending, Held
  <1>5. x.status \in Held /\ x.resumes <= MaxResumes /\ x.attempt >= 1 =>
           Reaped(x) \in JobRow
    BY <1>0 DEF JobRow, Reaped, Pending, Held
  <1>6. Retried(x) \in JobRow
    BY DEF JobRow, Retried, Pending
  <1> QED
    BY <1>1, <1>2, <1>3, <1>4, <1>5, <1>6


\* The conjuncts of CleanupInv beside the types that steps keep together.
Core ==
    /\ \A j \in Jobs : Budgeted(j) /\ WorkIsHeld(j)
    /\ \A d \in Deployments : BuildsStarted(d)
    /\ \A j \in Jobs, d \in Deployments : Excluded(j, d)
    /\ OneSuccessor

\* A cleanup's steps keep the types.
LEMMA CleanupTypes ==
    ASSUME TypeOK, Core, NEW j \in Jobs,
           CleanupStep(j) \/ CleanupFails(j) \/ CrashCleanup(j)
    PROVE  TypeOK'
  <1>0. /\ job[j] \in JobRow /\ Budgeted(j) /\ WorkIsHeld(j)
        /\ work[j] \in WorkState
        /\ CanInsert => FreshJob \in Jobs /\ job[FreshJob] \in JobRow
    BY FreshRow DEF TypeOK, Core
  <1>1. ASSUME NEW x \in JobRow, NEW k \in Jobs, job' = [job EXCEPT ![k] = x]
        PROVE  job' \in [Jobs -> JobRow]
    BY <1>1 DEF TypeOK
  <1>2. ASSUME NEW x \in WorkState, work' = [work EXCEPT ![j] = x]
        PROVE  work' \in [Jobs -> WorkState]
    BY <1>2 DEF TypeOK
  <1>3. CASE Promote(j)
    BY <1>3, <1>0, <1>1, RowTypes DEF Promote, TypeOK, Pending
  <1>4. CASE PurgeJob(j)
    <2>1. ASSUME NEW k \in Jobs PROVE job'[k] \in JobRow
      <3>1. job[k] \in JobRow /\ NoJob \in JobRow
        BY RowTypes DEF TypeOK
      <3>2. \/ job'[k] = NoJob \/ job'[k] = [job[k] EXCEPT !.of = None]
            \/ job'[k] = job[k]
        BY <1>4, <3>1 DEF PurgeJob, JobRow
      <3> QED
        BY <3>1, <3>2, RowTypes
    <2> QED
      BY <1>4, <2>1 DEF PurgeJob, TypeOK
  <1>5. CASE DequeueCleanup(j)
    <2> DEFINE x == [job[j] EXCEPT !.status = "leased", !.attempt = @ + 1]
    <2>1. x \in JobRow
      BY <1>5, <1>0, RowTypes DEF DequeueCleanup, Budgeted
    <2>2. job' = [job EXCEPT ![j] = x]
      BY <1>5 DEF DequeueCleanup, TypeOK, JobRow
    <2> HIDE DEF x
    <2>3. job' \in [Jobs -> JobRow]
      BY <2>1, <2>2, <1>1
    <2> QED
      BY <1>5, <2>3, <1>0 DEF DequeueCleanup, TypeOK, WorkState
  <1>6. CASE ExecuteCleanup(j)
    BY <1>6, <1>0, <1>1, RowTypes DEF ExecuteCleanup, TypeOK, Pending, Held
  <1>7. CASE BeginCanStart(j)
    <2>1. work' \in [Jobs -> WorkState]
      BY <1>7, <1>2 DEF BeginCanStart, WorkState, NoDeployment
    <2> QED
      BY <1>7, <2>1 DEF BeginCanStart, TypeOK, InFlight
  <1>8. CASE CanStartServerCleanup(j)
    BY <1>8, <1>2 DEF CanStartServerCleanup, TypeOK, WorkState
  <1>9. CASE DeferCleanup(j)
    <2>1. work' \in [Jobs -> WorkState]
      BY <1>9, <1>0 DEF DeferCleanup, TypeOK, WorkState
    <2> DEFINE x == [job[j] EXCEPT !.status = "waiting", !.of = j,
                                   !.attempt = 0, !.resumes = 0]
    <2>2. x \in JobRow
      BY <1>0, RowTypes
    <2>3. UNCHANGED job \/ (CanInsert /\ job' = [job EXCEPT ![FreshJob] = x])
      BY <1>9 DEF DeferCleanup
    <2> HIDE DEF x
    <2>4. job' \in [Jobs -> JobRow]
      BY <2>2, <2>3, <1>0, <1>1 DEF TypeOK
    <2> QED
      BY <1>9, <2>1, <2>4 DEF DeferCleanup, TypeOK
  <1>10. CASE PruneEnds(j)
    BY <1>10, <1>0 DEF PruneEnds, TypeOK, WorkState
  <1>11. CASE FinishCleanup(j)
    <2>1. work' \in [Jobs -> WorkState]
      BY <1>11, <1>2 DEF FinishCleanup, NoWork, WorkState
    <2>2. job' \in [Jobs -> JobRow]
      BY <1>11, <1>0, <1>1, RowTypes DEF FinishCleanup
    <2> QED
      BY <1>11, <2>1, <2>2 DEF FinishCleanup, TypeOK
  <1>12. CASE ReapCleanup(j)
    <2>1. Reaped(job[j]) \in JobRow
      BY <1>12, <1>0, RowTypes DEF ReapCleanup, Budgeted, Pending
    <2> QED
      BY <1>12, <2>1, <1>1 DEF ReapCleanup, TypeOK
  <1>13. CASE CleanupFails(j)
    BY <1>13, <1>2 DEF CleanupFails, TypeOK, WorkState
  <1>14. CASE CrashCleanup(j)
    <2>1. work' \in [Jobs -> WorkState]
      BY <1>14, <1>2 DEF CrashCleanup, NoWork, WorkState
    <2> QED
      BY <1>14, <2>1, CleanupAssumption DEF CrashCleanup, TypeOK
  <1> QED
    BY <1>3, <1>4, <1>5, <1>6, <1>7, <1>8, <1>9, <1>10, <1>11, <1>12, <1>13,
       <1>14 DEF CleanupStep

\* A deployment's steps and the requests keep the types.
LEMMA OtherTypes ==
    ASSUME TypeOK, Core,
           \/ \E d \in Deployments :
                 \/ DeploymentStep(d) \/ EndDeployment(d)
                 \/ WithdrawDeployment(d) \/ CrashDeployment(d)
           \/ \E s \in Servers : AskCleanup(s) \/ EnqueueCleanup(s) \/ EnqueueFails(s)
    PROVE  TypeOK'
  <1>1. ASSUME NEW s \in Servers, AskCleanup(s) \/ EnqueueFails(s) PROVE TypeOK'
    BY <1>1, CleanupAssumption DEF AskCleanup, EnqueueFails, TypeOK
  <1>2. ASSUME NEW s \in Servers, EnqueueCleanup(s) PROVE TypeOK'
    <2>1. /\ FreshJob \in Jobs /\ job[FreshJob] \in JobRow
          /\ [NoJob EXCEPT !.status = "queued", !.server = s] \in JobRow
      BY <1>2, FreshRow, RowTypes DEF EnqueueCleanup, TypeOK
    <2> QED
      BY <1>2, <2>1 DEF EnqueueCleanup, TypeOK
  <1>3. ASSUME NEW d \in Deployments,
               \/ DeploymentStep(d) \/ EndDeployment(d)
               \/ WithdrawDeployment(d) \/ CrashDeployment(d)
        PROVE  TypeOK'
    <2>0. /\ run[d] \in RunState /\ dep[d] \in DepRow /\ NoRun \in RunState
          /\ Target[d] \in Servers
      BY CleanupAssumption DEF TypeOK, NoRun, RunState
    <2>1. CASE ClaimDeployment(d)
      BY <2>1, <2>0 DEF ClaimDeployment, TypeOK, RunState
    <2>2. CASE BeginStart(d)
      <3>1. run' \in [Deployments -> RunState]
        BY <2>2, <2>0 DEF BeginStart, TypeOK, RunState, NoCleanup
      <3> QED
        BY <2>2, <3>1 DEF BeginStart, TypeOK, Uncrossed, GuardsInFlight
    <2>3. CASE StartDeployment(d)
      BY <2>3, <2>0 DEF StartDeployment, TypeOK, RunState, DepRow, NoRun
    <2>4. CASE \E b \in Builders : PickBuildServer(d, b)
      <3>1. PICK b \in Builders : PickBuildServer(d, b)
        BY <2>4
      <3>2. b \in Servers
        BY CleanupAssumption
      <3> DEFINE x == [run[d] EXCEPT !.pc = "picked", !.pick = b]
      <3>3. x \in RunState
        BY <2>0, <3>2 DEF RunState
      <3>4. run' = [run EXCEPT ![d] = x]
        BY <3>1 DEF PickBuildServer, TypeOK, RunState
      <3> HIDE DEF x
      <3> QED
        BY <3>1, <3>3, <3>4 DEF PickBuildServer, TypeOK
    <2>5. CASE BuildLocally(d)
      BY <2>5, <2>0 DEF BuildLocally, TypeOK, RunState
    <2>6. CASE BeginReserve(d)
      <3>1. run' \in [Deployments -> RunState]
        BY <2>6, <2>0 DEF BeginReserve, TypeOK, RunState, NoCleanup
      <3> QED
        BY <2>6, <3>1 DEF BeginReserve, TypeOK, Uncrossed, GuardsInFlight
    <2>7. CASE ReserveBuildServer(d)
      <3>1. CASE run[d].clear
        <4>1. [NoRun EXCEPT !.pc = "deploying"] \in RunState
          BY DEF NoRun, RunState
        <4>2. [dep[d] EXCEPT !.build = run[d].pick] \in DepRow
          BY <2>0 DEF DepRow, RunState
        <4> QED
          BY <2>7, <3>1, <4>1, <4>2 DEF ReserveBuildServer, TypeOK
      <3>2. CASE ~run[d].clear
        BY <2>7, <2>0, <3>2 DEF ReserveBuildServer, TypeOK, RunState
      <3> QED
        BY <3>1, <3>2
    <2>8. CASE EndDeployment(d)
      BY <2>8, <2>0 DEF EndDeployment, TypeOK, DepRow
    <2>9. CASE WithdrawDeployment(d)
      BY <2>9, <2>0 DEF WithdrawDeployment, TypeOK, DepRow
    <2>10. CASE CrashDeployment(d)
      BY <2>10, <2>0, CleanupAssumption DEF CrashDeployment, TypeOK
    <2> QED
      BY <1>3, <2>1, <2>2, <2>3, <2>4, <2>5, <2>6, <2>7, <2>8, <2>9, <2>10
         DEF DeploymentStep
  <1> QED
    BY <1>1, <1>2, <1>3


\* Rows that a step leaves alone, or changes so that each stays within its
\* budget and keeps the worker it has, are all within their budgets.
LEMMA RowsStep ==
    ASSUME TypeOK, Core, NEW j \in Jobs,
           CleanupStep(j) \/ CleanupFails(j) \/ CrashCleanup(j), NEW k \in Jobs
    PROVE  Budgeted(k)' /\ WorkIsHeld(k)'
  <1> USE CleanupAssumption
  <1>0. /\ job[j] \in JobRow /\ Budgeted(j) /\ WorkIsHeld(j)
        /\ job[k] \in JobRow /\ Budgeted(k) /\ WorkIsHeld(k)
        /\ work[k] \in WorkState /\ work[j] \in WorkState
        /\ job[k].attempt \in Nat /\ job[k].resumes \in Nat
        /\ job[j].attempt \in Nat /\ job[j].resumes \in Nat
    BY DEF TypeOK, Core, JobRow
  <1>1. CASE Promote(j)
    BY <1>1, <1>0 DEF Promote, TypeOK, Budgeted, WorkIsHeld, Pending, Held
  <1>2. CASE PurgeJob(j)
    BY <1>2, <1>0
       DEF PurgeJob, TypeOK, JobRow, Budgeted, WorkIsHeld, Pending, Held, NoJob
  <1>3. CASE DequeueCleanup(j)
    BY <1>3, <1>0
       DEF DequeueCleanup, TypeOK, JobRow, Budgeted, WorkIsHeld, Pending, Held,
           WorkState
  <1>4. CASE ExecuteCleanup(j)
    BY <1>4, <1>0
       DEF ExecuteCleanup, TypeOK, JobRow, Budgeted, WorkIsHeld, Pending, Held
  <1>5. CASE BeginCanStart(j)
    BY <1>5, <1>0 DEF BeginCanStart, TypeOK, Budgeted, WorkIsHeld
  <1>6. CASE CanStartServerCleanup(j)
    BY <1>6, <1>0 DEF CanStartServerCleanup, TypeOK, Budgeted, WorkIsHeld
  <1>7. CASE DeferCleanup(j)
    <2>1. /\ CanInsert => FreshJob \in Jobs /\ job[FreshJob].status = "absent"
          /\ work'[k].pc # "none" => work[k].pc # "none"
      BY <1>7, <1>0, FreshRow DEF DeferCleanup, TypeOK, WorkState
    <2>2. CASE UNCHANGED job
      BY <2>1, <2>2, <1>0 DEF Budgeted, WorkIsHeld
    <2>3. CASE /\ CanInsert
               /\ job' = [job EXCEPT ![FreshJob] =
                            [job[j] EXCEPT !.status = "waiting", !.of = j,
                                           !.attempt = 0, !.resumes = 0]]
      <3>1. CASE k = FreshJob
        <4>1. /\ job'[k].status = "waiting" /\ job'[k].attempt = 0
              /\ job'[k].resumes = 0 /\ job'[k].server = job[j].server
          BY <2>3, <3>1, <1>0 DEF TypeOK, JobRow
        <4>3. job[j].server \in Servers
          BY <1>7, <1>0 DEF DeferCleanup, WorkIsHeld, Budgeted, Held
        <4>2. work[k].pc = "none"
          BY <2>1, <2>3, <3>1, <1>0 DEF WorkIsHeld, Held
        <4> QED
          BY <4>1, <4>2, <4>3, <2>1 DEF Budgeted, WorkIsHeld, Held
      <3>2. CASE k # FreshJob
        BY <2>1, <2>3, <3>2, <1>0 DEF Budgeted, WorkIsHeld, TypeOK
      <3> QED
        BY <3>1, <3>2
    <2> QED
      BY <1>7, <2>2, <2>3 DEF DeferCleanup
  <1>8. CASE PruneEnds(j)
    BY <1>8, <1>0 DEF PruneEnds, TypeOK, Budgeted, WorkIsHeld
  <1>9. CASE FinishCleanup(j)
    <2>1. CASE k = j
      <3>1. work'[k].pc = "none"
        BY <1>9, <2>1 DEF FinishCleanup, TypeOK, NoWork
      <3>2. /\ job[j].status \in Held
            /\ job'[j] \in {[job[j] EXCEPT !.status = "succeeded"],
                            Retried(job[j])}
        BY <1>9, <1>0 DEF FinishCleanup, TypeOK, WorkIsHeld
      <3>3. /\ job'[j].server = job[j].server
            /\ \/ job'[j].status \in {"succeeded", "dead_letter"}
               \/ /\ job'[j].status = "waiting" /\ job[j].attempt < MaxAttempts
                  /\ job'[j].attempt = job[j].attempt
                  /\ job'[j].resumes = job[j].resumes
        BY <3>2, <1>0 DEF Retried, JobRow
      <3> QED
        BY <2>1, <3>1, <3>2, <3>3, <1>0 DEF Budgeted, WorkIsHeld, Pending, Held
    <2>2. CASE k # j
      BY <1>9, <2>2, <1>0 DEF FinishCleanup, TypeOK, Budgeted, WorkIsHeld
    <2> QED
      BY <2>1, <2>2
  <1>10. CASE ReapCleanup(j)
    <2>1. CASE k = j
      <3>1. work'[k].pc = "none" /\ job[j].status \in Held
            /\ job'[j] = Reaped(job[j])
        BY <1>10, <2>1 DEF ReapCleanup, TypeOK
      <3>2. /\ job'[j].server = job[j].server
            /\ \/ job'[j].status = "dead_letter"
               \/ /\ job'[j].status = "waiting" /\ job[j].resumes < MaxResumes
                  /\ job'[j].attempt = job[j].attempt - 1
                  /\ job'[j].resumes = job[j].resumes + 1
        BY <3>1, <1>0 DEF Reaped, JobRow
      <3>3. job[j].attempt >= 1 /\ job[j].attempt <= MaxAttempts
        BY <3>1, <1>0 DEF Budgeted, JobRow
      <3> QED
        BY <2>1, <3>1, <3>2, <3>3, <1>0 DEF Budgeted, WorkIsHeld, Pending, Held
    <2>2. CASE k # j
      BY <1>10, <2>2, <1>0 DEF ReapCleanup, TypeOK, Budgeted, WorkIsHeld
    <2> QED
      BY <2>1, <2>2
  <1>11. CASE CleanupFails(j)
    BY <1>11, <1>0 DEF CleanupFails, TypeOK, Budgeted, WorkIsHeld
  <1>12. CASE CrashCleanup(j)
    BY <1>12, <1>0 DEF CrashCleanup, TypeOK, Budgeted, WorkIsHeld, NoWork
  <1> QED
    BY <1>1, <1>2, <1>3, <1>4, <1>5, <1>6, <1>7, <1>8, <1>9, <1>10, <1>11,
       <1>12 DEF CleanupStep


\* Unless a guard begins, a cleanup is not told that its server is free, and
\* the server of one that was told so stays the same.
LEMMA ToldStep ==
    ASSUME TypeOK, Core, NEW j \in Jobs,
           CleanupStep(j) \/ CleanupFails(j) \/ CrashCleanup(j),
           ~BeginCanStart(j), NEW k \in Jobs, ToldClear(k)'
    PROVE  /\ ToldClear(k) /\ job'[k].server = job[k].server
           /\ PurgeJob(j) => k # j
  <1>0. /\ job[j] \in JobRow /\ WorkIsHeld(j)
        /\ job[k] \in JobRow /\ WorkIsHeld(k)
        /\ work[k] \in WorkState /\ work[j] \in WorkState
    BY DEF TypeOK, Core
  <1>1. CASE Promote(j)
    BY <1>1, <1>0 DEF Promote, TypeOK, JobRow, WorkState, ToldClear,
       PurgeJob
  <1>2. CASE DequeueCleanup(j)
    BY <1>2, <1>0 DEF DequeueCleanup, TypeOK, JobRow, WorkState, ToldClear, WorkIsHeld, Held,
       PurgeJob
  <1>3. CASE ExecuteCleanup(j)
    BY <1>3, <1>0 DEF ExecuteCleanup, TypeOK, JobRow, WorkState, ToldClear,
       PurgeJob
  <1>4. CASE CanStartServerCleanup(j)
    BY <1>4, <1>0 DEF CanStartServerCleanup, TypeOK, JobRow, WorkState, ToldClear,
       PurgeJob
  <1>5. CASE PruneEnds(j)
    BY <1>5, <1>0 DEF PruneEnds, TypeOK, JobRow, WorkState, ToldClear,
       PurgeJob
  <1>6. CASE FinishCleanup(j)
    BY <1>6, <1>0 DEF FinishCleanup, TypeOK, JobRow, WorkState, ToldClear, NoWork, Retried,
       PurgeJob
  <1>7. CASE ReapCleanup(j)
    BY <1>7, <1>0 DEF ReapCleanup, TypeOK, JobRow, WorkState, ToldClear, Reaped,
       PurgeJob
  <1>8. CASE CleanupFails(j)
    BY <1>8, <1>0 DEF CleanupFails, TypeOK, JobRow, WorkState, ToldClear,
       PurgeJob
  <1>9. CASE CrashCleanup(j)
    BY <1>9, <1>0 DEF CrashCleanup, TypeOK, JobRow, WorkState, ToldClear, NoWork,
       PurgeJob
  <1>10. CASE PurgeJob(j)
    <2>1. k # j
      BY <1>10, <1>0 DEF PurgeJob, ToldClear, WorkIsHeld, Held
    <2> QED
      BY <1>10, <1>0, <2>1 DEF PurgeJob, TypeOK, JobRow, ToldClear
  <1>11. CASE DeferCleanup(j)
    <2>1. ToldClear(k)
      BY <1>11, <1>0 DEF DeferCleanup, TypeOK, WorkState, ToldClear
    <2>2. job[k].status \in Held
      BY <2>1, <1>0 DEF ToldClear, WorkIsHeld
    <2>3. CanInsert => k # FreshJob
      BY <2>2, FreshRow DEF Held
    <2>4. job'[k] = job[k]
      BY <1>11, <2>3, FreshRow DEF DeferCleanup, TypeOK
    <2>5. ~PurgeJob(j)
      BY <1>11, <1>0 DEF DeferCleanup, PurgeJob, WorkIsHeld, Held
    <2> QED
      BY <2>1, <2>4, <2>5
  <1> QED
    BY <1>1, <1>2, <1>3, <1>4, <1>5, <1>6, <1>7, <1>8, <1>9, <1>10, <1>11
       DEF CleanupStep

\* A cleanup's steps keep the exclusion: a guard that begins sees every
\* deployment that holds its server and meets every statement in flight.
LEMMA CleanupExcludes ==
    ASSUME TypeOK, Core, NEW j \in Jobs,
           CleanupStep(j) \/ CleanupFails(j) \/ CrashCleanup(j),
           NEW k \in Jobs, NEW d \in Deployments
    PROVE  Excluded(k, d)'
  <1>0. Excluded(k, d)
    BY DEF Core
  <1>1. /\ dep' = dep /\ run' = run
        /\ <<k, d>> \in crossed /\ k # j => <<k, d>> \in crossed'
        /\ <<k, d>> \in crossed /\ ~BeginCanStart(j) /\ ~PurgeJob(j)
              => <<k, d>> \in crossed'
    BY DEF CleanupStep, CleanupFails, CrashCleanup, Promote, PurgeJob,
       DequeueCleanup, ExecuteCleanup, BeginCanStart, CanStartServerCleanup,
       DeferCleanup, PruneEnds, FinishCleanup, ReapCleanup
  <1>2. \A s : /\ Holds(d, s)' <=> Holds(d, s)
               /\ WillClear(d, s)' <=> WillClear(d, s)
    BY <1>1 DEF Holds, WillClear, InFlight
  <1>3. CASE ~BeginCanStart(j)
    <2> SUFFICES ASSUME ToldClear(k)' PROVE Excluded(k, d)'
      BY DEF Excluded
    <2>1. /\ ToldClear(k) /\ job'[k].server = job[k].server
          /\ PurgeJob(j) => k # j
      BY <1>3, ToldStep
    <2> QED
      BY <2>1, <1>0, <1>1, <1>2, <1>3 DEF Excluded
  <1>4. CASE BeginCanStart(j)
    <2>1. CASE k = j
      <3> DEFINE s == job[j].server
      <3>1. /\ job'[j].server = s
            /\ work'[j].pc = "guard" /\ work'[j].clear = NoDeployment(s)
            /\ InFlight(s) \subseteq {x \in Deployments : <<j, x>> \in crossed'}
        BY <1>4, <2>1 DEF BeginCanStart, TypeOK, InFlight
      <3>2. NoDeployment(s) => ~Holds(d, s)
        BY DEF NoDeployment
      <3> QED
        BY <2>1, <3>1, <3>2, <1>2 DEF Excluded, ToldClear, WillClear
    <2>2. CASE k # j
      <3>1. (ToldClear(k)' <=> ToldClear(k)) /\ job' = job
        BY <1>4, <2>2 DEF BeginCanStart, TypeOK, ToldClear
      <3> QED
        BY <2>2, <3>1, <1>0, <1>1, <1>2 DEF Excluded
    <2> QED
      BY <2>1, <2>2
  <1> QED
    BY <1>3, <1>4

\* Only a deferral gives a row a predecessor, and only the first one.
LEMMA SuccessorStep ==
    ASSUME TypeOK, Core, NEW j \in Jobs,
           CleanupStep(j) \/ CleanupFails(j) \/ CrashCleanup(j)
    PROVE  OneSuccessor'
  <1>0. OneSuccessor /\ \A k \in Jobs : job[k] \in JobRow
    BY DEF TypeOK, Core
  <1>1. CASE DeferCleanup(j) /\ ~UNCHANGED job
    <2>1. /\ FreshJob \in Jobs
          /\ ~ \E k \in Jobs : job[k].of = j
          /\ job'[FreshJob].of = j
          /\ \A k \in Jobs \ {FreshJob} : job'[k] = job[k]
      BY <1>1, <1>0, FreshRow DEF DeferCleanup, TypeOK, JobRow
    <2> QED
      BY <2>1, <1>0 DEF OneSuccessor
  <1>2. CASE PurgeJob(j)
    <2>1. \A k \in Jobs : job'[k].of = None \/ job'[k].of = job[k].of
      BY <1>2, <1>0 DEF PurgeJob, NoJob, JobRow
    <2> QED
      BY <2>1, <1>0 DEF OneSuccessor
  <1>3. CASE ~PurgeJob(j) /\ ~(DeferCleanup(j) /\ ~UNCHANGED job)
    <2>1. ASSUME NEW k \in Jobs PROVE job'[k].of = job[k].of
      <3>1. CASE Promote(j)
        BY <3>1, <1>0 DEF Promote, TypeOK, JobRow
      <3>2. CASE DequeueCleanup(j)
        BY <3>2, <1>0 DEF DequeueCleanup, TypeOK, JobRow
      <3>3. CASE ExecuteCleanup(j)
        BY <3>3, <1>0 DEF ExecuteCleanup, TypeOK, JobRow
      <3>4. CASE FinishCleanup(j)
        BY <3>4, <1>0 DEF FinishCleanup, TypeOK, JobRow, Retried
      <3>5. CASE ReapCleanup(j)
        BY <3>5, <1>0 DEF ReapCleanup, TypeOK, JobRow, Reaped
      <3>6. CASE UNCHANGED job
        BY <3>6
      <3> QED
        BY <1>3, <3>1, <3>2, <3>3, <3>4, <3>5, <3>6
           DEF CleanupStep, CleanupFails, CrashCleanup, BeginCanStart,
               CanStartServerCleanup, PruneEnds
    <2> QED
      BY <2>1, <1>0 DEF OneSuccessor
  <1> QED
    BY <1>1, <1>2, <1>3


\* A deployment's steps keep the exclusion: a statement that begins sees every
\* cleanup that is told that the server is free, since such a row is held.
LEMMA DeploymentCore ==
    ASSUME TypeOK, Core, NEW d \in Deployments,
           \/ DeploymentStep(d) \/ EndDeployment(d)
           \/ WithdrawDeployment(d) \/ CrashDeployment(d)
    PROVE  Core'
  <1>0. /\ job' = job /\ work' = work
        /\ \A e \in Deployments \ {d} : dep'[e] = dep[e] /\ run'[e] = run[e]
        /\ \A k \in Jobs, e \in Deployments \ {d} :
              <<k, e>> \in crossed => <<k, e>> \in crossed'
    BY DEF DeploymentStep, EndDeployment, WithdrawDeployment, CrashDeployment,
       ClaimDeployment, BeginStart, StartDeployment, PickBuildServer,
       BuildLocally, BeginReserve, ReserveBuildServer, Uncrossed, TypeOK
  <1>1. \A k \in Jobs : (Budgeted(k) /\ WorkIsHeld(k))'
    BY <1>0 DEF Core, Budgeted, WorkIsHeld
  <1>2. OneSuccessor'
    BY <1>0 DEF Core, OneSuccessor
  <1>3. \A k \in Jobs : ToldClear(k)' <=> ToldClear(k)
    BY <1>0 DEF ToldClear
  <1>4. ASSUME NEW k \in Jobs, NEW e \in Deployments \ {d} PROVE Excluded(k, e)'
    <2>1. \A s : /\ Holds(e, s)' <=> Holds(e, s)
                 /\ WillClear(e, s)' <=> WillClear(e, s)
      BY <1>0 DEF Holds, WillClear, InFlight
    <2>2. Excluded(k, e)
      BY DEF Core
    <2> QED
      BY <2>1, <2>2, <1>0, <1>3 DEF Excluded
  <1>5. \A e \in Deployments \ {d} : BuildsStarted(e)'
    BY <1>0 DEF Core, BuildsStarted
  <1>6. /\ run[d] \in RunState /\ dep[d] \in DepRow /\ BuildsStarted(d)
        /\ Target[d] \in Servers
    BY CleanupAssumption DEF TypeOK, Core
  <1>7. ASSUME NEW s, NoCleanup(s), NEW k \in Jobs, ToldClear(k)
        PROVE  job[k].server # s
    BY <1>7 DEF Core, WorkIsHeld, ToldClear, NoCleanup
  <1>8. ASSUME NEW k \in Jobs, NEW s,
               crossed' = Uncrossed(d, s) \cup (GuardsInFlight(s) \X {d}),
               <<k, d>> \in crossed, job[k].server # s \/ Holds(d, s)
        PROVE  <<k, d>> \in crossed'
    BY <1>8 DEF Uncrossed
  <1>9. BuildsStarted(d)' /\ \A k \in Jobs : Excluded(k, d)'
    <2>0. \A k \in Jobs : Excluded(k, d)
      BY DEF Core
    <2>a. ASSUME dep' = dep, crossed' = crossed, \A s : ~WillClear(d, s)',
                 \/ dep[d].status # "queued"
                 \/ run'[d].pc \in {"none", "begin"}
          PROVE  BuildsStarted(d)' /\ \A k \in Jobs : Excluded(k, d)'
      <3>1. \A s : Holds(d, s)' <=> Holds(d, s)
        BY <2>a DEF Holds
      <3> QED
        BY <2>a, <3>1, <2>0, <1>0, <1>3, <1>6 DEF Excluded, BuildsStarted
    <2>b. ASSUME crossed' = crossed, \A s : ~Holds(d, s)',
                 \A s : WillClear(d, s)' => WillClear(d, s),
                 dep'[d].status = "ended"
          PROVE  BuildsStarted(d)' /\ \A k \in Jobs : Excluded(k, d)'
      BY <2>b, <2>0, <1>0, <1>3 DEF Excluded, BuildsStarted
    <2>1. CASE ClaimDeployment(d)
      <3>1. /\ run'[d].pc \in {"begin", "prepared"}
            /\ dep[d].status = "queued" => run'[d].pc = "begin"
        BY <2>1 DEF ClaimDeployment, TypeOK, RunState
      <3> QED
        BY <2>1, <3>1, <2>a DEF ClaimDeployment, WillClear, InFlight
    <2>2. CASE BeginStart(d)
      <3> DEFINE s == Target[d]
      <3>1. /\ dep' = dep /\ run'[d].pc = "starting"
            /\ run'[d].clear = NoCleanup(s)
            /\ crossed' = Uncrossed(d, s) \cup (GuardsInFlight(s) \X {d})
        BY <2>2 DEF BeginStart, TypeOK, RunState
      <3>2. \A x : /\ Holds(d, x)' <=> Holds(d, x)
                   /\ WillClear(d, x)' => x = s /\ NoCleanup(s)
        BY <3>1 DEF Holds, WillClear, InFlight
      <3> QED
        BY <3>1, <3>2, <2>0, <1>0, <1>3, <1>6, <1>7, <1>8
           DEF Excluded, BuildsStarted
    <2>3. CASE StartDeployment(d)
      <3> DEFINE started == dep[d].status = "queued" /\ run[d].clear
      <3>1. /\ run[d].pc = "starting" /\ crossed' = crossed
            /\ run'[d].pc \in {"prepared", "begin", "none"}
            /\ run'[d].pc = "prepared" => started
            /\ dep'[d] = [dep[d] EXCEPT !.status = IF started THEN "active"
                                                   ELSE @]
        BY <2>3 DEF StartDeployment, TypeOK, RunState, NoRun
      <3>2. \A x : ~WillClear(d, x)'
        BY <3>1 DEF WillClear, InFlight
      <3>3. CASE started
        <4>1. dep'[d].status = "active" /\ dep'[d].build = None
          BY <3>1, <3>3, <1>6 DEF BuildsStarted, DepRow
        <4>2. \A x : Holds(d, x)' => x = Target[d] \/ x = None
          BY <4>1 DEF Holds
        <4>3. WillClear(d, Target[d])
          BY <3>1, <3>3 DEF WillClear, InFlight
        <4>4. \A k \in Jobs : ToldClear(k) => job[k].server # None
          BY <1>0, CleanupAssumption
             DEF Core, Budgeted, WorkIsHeld, ToldClear, Held
        <4> QED
          BY <4>1, <4>2, <4>3, <4>4, <3>1, <3>2, <2>0, <1>0, <1>3
             DEF Excluded, BuildsStarted
      <3>4. CASE ~started
        <4>1. dep'[d].status = dep[d].status /\ dep'[d].build = dep[d].build
          BY <3>1, <3>4, <1>6 DEF DepRow
        <4>2. \A x : Holds(d, x)' <=> Holds(d, x)
          BY <4>1 DEF Holds
        <4> QED
          BY <4>1, <4>2, <3>1, <3>2, <2>0, <1>0, <1>3, <1>6
             DEF Excluded, BuildsStarted
      <3> QED
        BY <3>3, <3>4
    <2>4. CASE (\E b \in Builders : PickBuildServer(d, b)) \/ BuildLocally(d)
      <3>1. run'[d].pc \in {"picked", "deploying"} /\ dep[d].status # "queued"
        BY <2>4, <1>6 DEF BuildsStarted, PickBuildServer, BuildLocally, TypeOK, RunState
      <3> QED
        BY <2>4, <3>1, <2>a
           DEF PickBuildServer, BuildLocally, WillClear, InFlight
    <2>5. CASE BeginReserve(d)
      <3> DEFINE s == run[d].pick
      <3>1. /\ dep' = dep /\ run'[d].pc = "reserving" /\ run'[d].pick = s
            /\ run'[d].clear = NoCleanup(s)
            /\ crossed' = Uncrossed(d, s) \cup (GuardsInFlight(s) \X {d})
            /\ dep[d].status # "queued"
        BY <2>5, <1>6 DEF BeginReserve, TypeOK, RunState, BuildsStarted
      <3>2. \A x : /\ Holds(d, x)' <=> Holds(d, x)
                   /\ WillClear(d, x)' => x = s /\ NoCleanup(s)
        BY <3>1 DEF Holds, WillClear, InFlight
      <3> QED
        BY <3>1, <3>2, <2>0, <1>0, <1>3, <1>6, <1>7, <1>8
           DEF Excluded, BuildsStarted
    <2>6. CASE ReserveBuildServer(d)
      <3>1. /\ run[d].pc = "reserving" /\ crossed' = crossed
            /\ run'[d].pc \in {"deploying", "picked"}
            /\ dep[d].status # "queued"
        BY <2>6, <1>6
           DEF ReserveBuildServer, TypeOK, RunState, NoRun, BuildsStarted
      <3>2. \A x : ~WillClear(d, x)'
        BY <3>1 DEF WillClear, InFlight
      <3>3. CASE run[d].clear
        <4>1. /\ dep'[d].status = dep[d].status
              /\ dep'[d].build = run[d].pick
          BY <2>6, <3>3, <1>6 DEF ReserveBuildServer, TypeOK, DepRow
        <4>2. \A x : Holds(d, x)' => Holds(d, x) \/ x = run[d].pick
          BY <4>1 DEF Holds
        <4>3. WillClear(d, run[d].pick)
          BY <3>1, <3>3 DEF WillClear, InFlight
        <4> QED
          BY <4>1, <4>2, <4>3, <3>1, <3>2, <2>0, <1>0, <1>3
             DEF Excluded, BuildsStarted
      <3>4. CASE ~run[d].clear
        <4>1. dep' = dep
          BY <2>6, <3>4 DEF ReserveBuildServer
        <4> QED
          BY <4>1, <3>1, <3>2, <2>a
      <3> QED
        BY <3>3, <3>4
    <2>7. CASE EndDeployment(d)
      <3>1. /\ dep'[d].status = "ended" /\ run'[d].pc = "none"
            /\ crossed' = crossed
        BY <2>7 DEF EndDeployment, TypeOK, DepRow, NoRun
      <3> QED
        BY <3>1, <2>b DEF Holds, Idle, WillClear, InFlight
    <2>8. CASE WithdrawDeployment(d)
      <3>1. dep'[d].status = "ended" /\ run' = run /\ crossed' = crossed
        BY <2>8 DEF WithdrawDeployment, TypeOK, DepRow
      <3> QED
        BY <3>1, <2>b DEF Holds, Idle, WillClear, InFlight
    <2>9. CASE CrashDeployment(d)
      <3>1. run'[d].pc = "none"
        BY <2>9 DEF CrashDeployment, TypeOK, NoRun
      <3> QED
        BY <2>9, <3>1, <2>a DEF CrashDeployment, WillClear, InFlight
    <2> QED
      BY <2>1, <2>2, <2>3, <2>4, <2>5, <2>6, <2>7, <2>8, <2>9
         DEF DeploymentStep
  <1> QED
    BY <1>0, <1>1, <1>2, <1>4, <1>5, <1>9 DEF Core


\* A request changes nothing that is held: the row it inserts is fresh.
LEMMA RequestCore ==
    ASSUME TypeOK, Core, NEW s \in Servers,
           AskCleanup(s) \/ EnqueueCleanup(s) \/ EnqueueFails(s)
    PROVE  Core'
  <1>0. work' = work /\ dep' = dep /\ run' = run /\ crossed' = crossed
    BY DEF AskCleanup, EnqueueCleanup, EnqueueFails
  <1>1. \A d \in Deployments : BuildsStarted(d)'
    BY <1>0 DEF Core, BuildsStarted
  <1>2. \A d \in Deployments : \A x : /\ Holds(d, x)' <=> Holds(d, x)
                                      /\ WillClear(d, x)' <=> WillClear(d, x)
    BY <1>0 DEF Holds, WillClear, InFlight
  <1>3. CASE AskCleanup(s) \/ EnqueueFails(s)
    BY <1>0, <1>1, <1>3
       DEF AskCleanup, EnqueueFails, Core, Budgeted, WorkIsHeld, Excluded, OneSuccessor,
           ToldClear, Holds, WillClear, InFlight
  <1>4. CASE EnqueueCleanup(s)
    <2> DEFINE f == FreshJob
    <2>1. /\ f \in Jobs /\ job[f].status = "absent" /\ work[f].pc = "none"
          /\ job'[f].status = "queued" /\ job'[f].server = s
          /\ job'[f].attempt = 0 /\ job'[f].resumes = 0 /\ job'[f].of = None
          /\ \A k \in Jobs \ {f} : job'[k] = job[k]
      BY <1>4, FreshRow DEF EnqueueCleanup, TypeOK, NoJob, Core, WorkIsHeld, Held
    <2>2. ASSUME NEW k \in Jobs PROVE Budgeted(k)' /\ WorkIsHeld(k)'
      <3>1. CASE k = f
        BY <2>1, <3>1, <1>0, CleanupAssumption
           DEF Budgeted, WorkIsHeld, Held, Pending
      <3>2. CASE k # f
        BY <2>1, <3>2, <1>0 DEF Core, Budgeted, WorkIsHeld
      <3> QED
        BY <3>1, <3>2
    <2>3. ASSUME NEW k \in Jobs, NEW d \in Deployments PROVE Excluded(k, d)'
      <3>1. (ToldClear(k)' <=> ToldClear(k)) /\ (ToldClear(k) => k # f)
        BY <2>1, <1>0 DEF ToldClear
      <3>2. Excluded(k, d)
        BY DEF Core
      <3> QED
        BY <3>1, <3>2, <2>1, <1>0, <1>2 DEF Excluded
    <2>4. OneSuccessor'
      BY <2>1 DEF Core, OneSuccessor
    <2> QED
      BY <2>2, <2>3, <2>4, <1>1 DEF Core
  <1> QED
    BY <1>3, <1>4

-----------------------------------------------------------------------------
\* Every step keeps the types and the exclusion.
LEMMA InvStep == TypeOK /\ Core /\ [Next]_vars => TypeOK' /\ Core'
  <1> SUFFICES ASSUME TypeOK, Core, [Next]_vars PROVE TypeOK' /\ Core'
    OBVIOUS
  <1>1. ASSUME NEW j \in Jobs,
               CleanupStep(j) \/ CleanupFails(j) \/ CrashCleanup(j)
        PROVE  TypeOK' /\ Core'
    <2>1. dep' = dep /\ run' = run
      BY <1>1 DEF CleanupStep, CleanupFails, CrashCleanup, Promote, PurgeJob,
         DequeueCleanup, ExecuteCleanup, BeginCanStart, CanStartServerCleanup,
         DeferCleanup, PruneEnds, FinishCleanup, ReapCleanup
    <2>2. \A d \in Deployments : BuildsStarted(d)'
      BY <2>1 DEF Core, BuildsStarted
    <2> QED
      BY <1>1, <2>2, CleanupTypes, RowsStep, CleanupExcludes, SuccessorStep
         DEF Core
  <1>2. ASSUME NEW d \in Deployments,
               \/ DeploymentStep(d) \/ EndDeployment(d)
               \/ WithdrawDeployment(d) \/ CrashDeployment(d)
        PROVE  TypeOK' /\ Core'
    BY <1>2, OtherTypes, DeploymentCore
  <1>3. ASSUME NEW s \in Servers,
               AskCleanup(s) \/ EnqueueCleanup(s) \/ EnqueueFails(s)
        PROVE  TypeOK' /\ Core'
    BY <1>3, OtherTypes, RequestCore
  <1>4. CASE UNCHANGED vars
    BY <1>4 DEF vars, TypeOK, Core, Budgeted, WorkIsHeld, BuildsStarted,
       Excluded, ToldClear, WillClear, InFlight, Holds, OneSuccessor
  <1> QED
    BY <1>1, <1>2, <1>3, <1>4 DEF Next, Environment

\* There are no cleanups and no started deployments at the start.
LEMMA InvInit == Init => TypeOK /\ Core
  <1> SUFFICES ASSUME Init PROVE TypeOK /\ Core
    OBVIOUS
  <1>1. /\ NoJob \in JobRow /\ NoWork \in WorkState /\ NoRun \in RunState
        /\ [status |-> "queued", build |-> None] \in DepRow
    BY CleanupAssumption
       DEF NoJob, JobRow, NoWork, WorkState, NoRun, RunState, DepRow
  <1>2. TypeOK
    BY <1>1, CleanupAssumption DEF Init, TypeOK
  <1>3. /\ \A j \in Jobs : Budgeted(j) /\ WorkIsHeld(j)
        /\ \A d \in Deployments : BuildsStarted(d)
    BY DEF Init, Budgeted, WorkIsHeld, BuildsStarted, NoJob, NoWork, NoRun,
       Pending, Held
  <1>4. \A j \in Jobs, d \in Deployments : Excluded(j, d)
    BY DEF Init, Excluded, ToldClear, NoWork
  <1>5. OneSuccessor
    BY DEF Init, OneSuccessor, NoJob
  <1> QED
    BY <1>2, <1>3, <1>4, <1>5 DEF Core

\* The inductive invariant of the exclusion between cleanups and deployments.
THEOREM CleanupInvariant == Spec => []CleanupInv
  <1>1. TypeOK /\ Core => CleanupInv
    BY DEF Core, CleanupInv, OverlapNeedsCrossing, Overlap, Excluded, ToldClear
  <1> QED
    BY <1>1, InvInit, InvStep, PTL DEF Spec

\* A cleanup prunes a server under a deployment only if the two guarded
\* statements, CanStartServerCleanup and StartDeploymentUnlessCleanupRunning
\* or its build-server twin, were in flight together.
THEOREM MeetOnlyByCrossing == Spec => []OverlapNeedsCrossing
  BY CleanupInvariant, PTL DEF CleanupInv

\* A cleanup row executed again after a crash has one deferred successor
\* (servercleanup.go: the idempotency key of the deferral).
THEOREM DeferredOnce == Spec => []OneSuccessor
  BY CleanupInvariant, PTL DEF CleanupInv

=============================================================================
