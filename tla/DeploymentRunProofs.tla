------------------------ MODULE DeploymentRunProofs ------------------------
(***************************************************************************)
(* Theorems about DeploymentRun, for any deployments, rolling or not, any   *)
(* budget of resumes and any number of aborted requests.  What may fail and *)
(* how often a worker may die is said where it matters.                     *)
(***************************************************************************)
EXTENDS DeploymentRun, FiniteSetTheorems, TLAPS

-----------------------------------------------------------------------------
(* How a run moves on.                                                     *)

RunTo(p, s, v) ==
    /\ run' \in RunState
    /\ run'.dep = run.dep /\ run'.loaded = run.loaded
    /\ run'.at = p /\ run'.stage = s /\ run'.verdict = v

RowsKept == UNCHANGED <<status, job, trigger, cancel, accepted, crashes, aborts, erased, barred>>

LEMMA Goes ==
    ASSUME TypeOK, NEW p \in Steps, Goto(p)
    PROVE  RunTo(p, run.stage, run.verdict)
  BY DEF TypeOK, Goto, RunTo, RunState

LEMMA EntersStage ==
    ASSUME TypeOK, NEW s \in Stages, ToStage(s)
    PROVE  RunTo("check", s, run.verdict)
  BY DEF TypeOK, ToStage, RunTo, RunState, Steps

LEMMA Aborts ==
    ASSUME TypeOK, NEW v \in Terminal, Abort(v)
    PROVE  RunTo("compensate", run.stage, v)
  BY DEF TypeOK, Abort, RunTo, RunState, Steps

\* A step that changes no row leaves these as they are.
LEMMA RowsFrame ==
    ASSUME RunInv, RowsKept, run.dep # None, run.at # "load",
           NEW p, p # "load", NEW s, NEW v, RunTo(p, s, v),
           app' \in Box, next' \in Box, route' \in Endpoint
    PROVE  /\ TypeOK' /\ OneRun' /\ Requested' /\ FirstRun'
           /\ OnlyRunInFlight' /\ CancelKept'
  <1>1. TypeOK /\ OneRun /\ Requested /\ FirstRun /\ OnlyRunInFlight /\ CancelKept
    BY DEF RunInv
  <1>2. TypeOK'
    BY <1>1 DEF TypeOK, RowsKept, RunTo
  <1>3. OneRun' /\ Requested'
    BY <1>1 DEF OneRun, Requested, RowsKept, RunTo
  <1>4. FirstRun'
    BY <1>1 DEF FirstRun, RowsKept, RunTo
  <1>5. OnlyRunInFlight' /\ CancelKept'
    BY <1>1 DEF OnlyRunInFlight, CancelKept, AcceptedCancelRecorded, RowsKept, RunTo
  <1> QED
    BY <1>2, <1>3, <1>4, <1>5

\* A step in front of the ends of a run: what is left to show is how the run,
\* its row, the barrier and the containers fit together afterwards.
LEMMA RunMoves ==
    ASSUME RunInv, RowsKept, run.dep # None, run.at # "load",
           NEW p, p # "load", NEW s, NEW v, RunTo(p, s, v),
           app' \in Box, next' \in Box, route' \in Endpoint,
           OnCourse', StatusKept', BarrierKept', OwnContainer', Serving'
    PROVE  RunInv'
  <1>1. /\ TypeOK' /\ OneRun' /\ Requested' /\ FirstRun'
        /\ OnlyRunInFlight' /\ CancelKept'
    BY RowsFrame
  <1> QED
    BY <1>1 DEF RunInv

\* A step that fails: the run goes to its compensation, and what it has done to
\* the containers so far is not what a rolling deployment serves from.
LEMMA Fails ==
    ASSUME RunInv, RowsKept, run.dep # None,
           run.at \notin {"load", "check", "compensate", "verdict", "ack"},
           StoreFaults \/ run.at # "enter",
           RunTo("compensate", run.stage, "failed"),
           app' \in Box, next' \in Box, route' = route,
           crashes = 0 /\ ~SwitchFaults /\ (\A d \in Deployments : Rolling[d]) =>
               /\ app' = app
               /\ run.at \notin {"stop_old", "rm_old", "rename", "route_name"}
    PROVE  RunInv'
  <1>1. TypeOK /\ OnCourse /\ StatusKept /\ BarrierKept /\ Serving
    BY DEF RunInv
  <1>2. OnCourse' /\ StatusKept' /\ BarrierKept'
    BY <1>1 DEF OnCourse, StatusKept, BarrierKept, Past, Resuming, RowsKept, RunTo
  <1>3. OwnContainer' /\ Serving'
    BY <1>1 DEF OwnContainer, Serving, RowsKept, RunTo
  <1> QED
    BY <1>1, <1>2, <1>3, RunMoves DEF TypeOK

LEMMA CheckpointKept ==
    ASSUME RunInv, Checkpoint
    PROVE  RunInv'
  <1>1. /\ run.dep # None /\ run.at = "check" /\ RowsKept
        /\ app' = app /\ next' = next /\ route' = route
    BY DEF Checkpoint, At, RowsKept, requests, remote, bounds
  <1>2. TypeOK /\ OnCourse /\ StatusKept /\ BarrierKept /\ OwnContainer /\ Serving
    BY DEF RunInv
  <1>3. CASE RunTo("enter", run.stage, run.verdict)
    <2>1. OnCourse' /\ StatusKept' /\ BarrierKept'
      BY <1>1, <1>2, <1>3 DEF OnCourse, StatusKept, BarrierKept, Past, Resuming, RowsKept, RunTo
    <2>2. OwnContainer' /\ Serving'
      BY <1>1, <1>2, <1>3 DEF OwnContainer, Serving, RowsKept, RunTo
    <2> QED
      BY <1>1, <1>2, <1>3, <2>1, <2>2, RunMoves DEF TypeOK
  <1>4. CASE RunTo("compensate", run.stage, "cancelled")
    <2>1. OnCourse' /\ StatusKept' /\ BarrierKept'
      BY <1>1, <1>2, <1>4 DEF OnCourse, StatusKept, BarrierKept, Past, Resuming, RowsKept, RunTo
    <2>2. OwnContainer' /\ Serving'
      BY <1>1, <1>2, <1>4 DEF OwnContainer, Serving, RowsKept, RunTo
    <2> QED
      BY <1>1, <1>2, <1>4, <2>1, <2>2, RunMoves DEF TypeOK
  <1> QED
    BY <1>1, <1>2, <1>3, <1>4, Goes, EntersStage, Aborts DEF Checkpoint, Steps, Stages, Terminal

LEMMA SetStatusFailsKept ==
    ASSUME RunInv, SetStatusFails
    PROVE  RunInv'
  <1>1. /\ run.dep # None /\ run.at \in {"enter", "finish", "finishing"} /\ StoreFaults /\ RowsKept
        /\ app' = app /\ next' = next /\ route' = route
    BY DEF SetStatusFails, At, RowsKept, requests, remote, bounds
  <1>2. TypeOK /\ OnCourse /\ StatusKept /\ BarrierKept /\ OwnContainer /\ Serving
    BY DEF RunInv
  <1>3. CASE RunTo("compensate", run.stage, "failed")
    BY <1>1, <1>2, <1>3, Fails DEF TypeOK
  <1> QED
    BY <1>1, <1>2, <1>3, Goes, EntersStage, Aborts DEF SetStatusFails, Steps, Stages, Terminal

LEMMA StepFailsKept ==
    ASSUME RunInv, StepFails
    PROVE  RunInv'
  <1>1. /\ run.dep # None /\ run.at = "work" /\ run.stage # "switching" /\ RowsKept
        /\ app' = app /\ next' = next /\ route' = route
    BY DEF StepFails, At, RowsKept, requests, remote, bounds
  <1>2. TypeOK /\ OnCourse /\ StatusKept /\ BarrierKept /\ OwnContainer /\ Serving
    BY DEF RunInv
  <1>3. RunTo("compensate", run.stage, "failed")
    BY <1>2 DEF StepFails, TypeOK, RunTo, RunState, Steps, Terminal
  <1> QED
    BY <1>1, <1>2, <1>3, Fails DEF TypeOK

LEMMA PrepareKept ==
    ASSUME RunInv, Prepare
    PROVE  RunInv'
  <1>1. /\ run.dep # None /\ run.at = "prepare" /\ RowsKept
        /\ app' = app /\ next' = next /\ route' = route
    BY DEF Prepare, At, RowsKept, requests, remote, bounds
  <1>2. TypeOK /\ OnCourse /\ StatusKept /\ BarrierKept /\ OwnContainer /\ Serving
    BY DEF RunInv
  <1>3. CASE RunTo("check", "building", run.verdict)
    <2>1. OnCourse' /\ StatusKept' /\ BarrierKept'
      BY <1>1, <1>2, <1>3 DEF OnCourse, StatusKept, BarrierKept, Past, Resuming, RowsKept, RunTo
    <2>2. OwnContainer' /\ Serving'
      BY <1>1, <1>2, <1>3 DEF OwnContainer, Serving, RowsKept, RunTo
    <2> QED
      BY <1>1, <1>2, <1>3, <2>1, <2>2, RunMoves DEF TypeOK
  <1>4. CASE RunTo("compensate", run.stage, "failed")
    BY <1>1, <1>2, <1>4, Fails DEF TypeOK
  <1> QED
    BY <1>1, <1>2, <1>3, <1>4, Goes, EntersStage, Aborts DEF Prepare, Steps, Stages, Terminal

LEMMA BuildKept ==
    ASSUME RunInv, Build
    PROVE  RunInv'
  <1>1. /\ run.dep # None /\ run.at = "work" /\ run.stage = "building" /\ RowsKept
        /\ app' = app /\ next' = next /\ route' = route
    BY DEF Build, At, RowsKept, requests, remote, bounds
  <1>2. TypeOK /\ OnCourse /\ StatusKept /\ BarrierKept /\ OwnContainer /\ Serving
    BY DEF RunInv
  <1>3. CASE RunTo("check", "starting", run.verdict)
    <2>1. OnCourse' /\ StatusKept' /\ BarrierKept'
      BY <1>1, <1>2, <1>3 DEF OnCourse, StatusKept, BarrierKept, Past, Resuming, RowsKept, RunTo
    <2>2. OwnContainer' /\ Serving'
      BY <1>1, <1>2, <1>3 DEF OwnContainer, Serving, RowsKept, RunTo
    <2> QED
      BY <1>1, <1>2, <1>3, <2>1, <2>2, RunMoves DEF TypeOK
  <1> QED
    BY <1>1, <1>2, <1>3, Goes, EntersStage, Aborts DEF Build, Steps, Stages, Terminal

LEMMA HealthyKept ==
    ASSUME RunInv, Healthy
    PROVE  RunInv'
  <1>1. /\ run.dep # None /\ run.at = "work" /\ run.stage = "healthchecking" /\ RowsKept
        /\ app' = app /\ next' = next /\ route' = route
    BY DEF Healthy, At, RowsKept, requests, remote, bounds
  <1>2. TypeOK /\ OnCourse /\ StatusKept /\ BarrierKept /\ OwnContainer /\ Serving
    BY DEF RunInv
  <1>3. CASE RunTo("hook", run.stage, run.verdict)
    <2>1. OnCourse' /\ StatusKept' /\ BarrierKept'
      BY <1>1, <1>2, <1>3 DEF OnCourse, StatusKept, BarrierKept, Past, Resuming, RowsKept, RunTo
    <2>2. OwnContainer' /\ Serving'
      BY <1>1, <1>2, <1>3 DEF OwnContainer, Serving, RowsKept, RunTo
    <2> QED
      BY <1>1, <1>2, <1>3, <2>1, <2>2, RunMoves DEF TypeOK
  <1> QED
    BY <1>1, <1>2, <1>3, Goes, EntersStage, Aborts DEF Healthy, Steps, Stages, Terminal

LEMMA PostDeploymentHookKept ==
    ASSUME RunInv, PostDeploymentHook
    PROVE  RunInv'
  <1>1. /\ run.dep # None /\ run.at = "hook" /\ RowsKept
        /\ app' = app /\ next' = next /\ route' = route
    BY DEF PostDeploymentHook, At, RowsKept, requests, remote, bounds
  <1>2. TypeOK /\ OnCourse /\ StatusKept /\ BarrierKept /\ OwnContainer /\ Serving
    BY DEF RunInv
  <1>3. CASE RunTo("check", "switching", run.verdict)
    <2>1. OnCourse' /\ StatusKept' /\ BarrierKept'
      BY <1>1, <1>2, <1>3 DEF OnCourse, StatusKept, BarrierKept, Past, Resuming, RowsKept, RunTo
    <2>2. OwnContainer' /\ Serving'
      BY <1>1, <1>2, <1>3 DEF OwnContainer, Serving, RowsKept, RunTo
    <2> QED
      BY <1>1, <1>2, <1>3, <2>1, <2>2, RunMoves DEF TypeOK
  <1>4. CASE RunTo("compensate", run.stage, "failed")
    BY <1>1, <1>2, <1>4, Fails DEF TypeOK
  <1> QED
    BY <1>1, <1>2, <1>3, <1>4, Goes, EntersStage, Aborts DEF PostDeploymentHook, Steps, Stages, Terminal

LEMMA ConnectKept ==
    ASSUME RunInv, Connect
    PROVE  RunInv'
  <1>1. /\ run.dep # None /\ run.at = "work" /\ run.stage = "preparing" /\ RowsKept
        /\ app' = app /\ next' = next /\ route' = route
    BY DEF Connect, At, RowsKept, requests, remote, bounds
  <1>2. TypeOK /\ OnCourse /\ StatusKept /\ BarrierKept /\ OwnContainer /\ Serving
    BY DEF RunInv
  <1>3. RunTo("resume", run.stage, run.verdict)
    BY <1>2 DEF Connect, TypeOK, RunTo, RunState, Steps
  <1>4. OnCourse' /\ StatusKept' /\ BarrierKept'
    BY <1>1, <1>2, <1>3 DEF OnCourse, StatusKept, BarrierKept, Past, Resuming, RowsKept, RunTo
  <1>5. OwnContainer' /\ Serving'
    BY <1>1, <1>2, <1>3 DEF OwnContainer, Serving, RowsKept, RunTo
  <1> QED
    BY <1>1, <1>2, <1>3, <1>4, <1>5, RunMoves DEF TypeOK

\* Only a run that found the switch begun inspects; it is not the first one.
LEMMA ResumeKept ==
    ASSUME RunInv, Resume
    PROVE  RunInv'
  <1>1. /\ run.dep # None /\ run.at = "resume" /\ RowsKept
        /\ app' = app /\ next' = next /\ route' = route
    BY DEF Resume, At, RowsKept, requests, remote, bounds
  <1>2. /\ TypeOK /\ OnCourse /\ StatusKept /\ BarrierKept /\ OwnContainer /\ Serving
        /\ FirstRun
    BY DEF RunInv
  <1>3. run.stage = "preparing" /\ run.verdict = "failed"
    BY <1>1, <1>2 DEF OnCourse
  <1>4. CASE run.loaded \notin {"switching", "finishing"}
    <2>1. RunTo("prepare", run.stage, run.verdict)
      BY <1>2, <1>4, Goes DEF Resume, Steps
    <2>2. OnCourse' /\ StatusKept' /\ BarrierKept'
      BY <1>1, <1>2, <1>3, <1>4, <2>1
         DEF OnCourse, StatusKept, BarrierKept, Past, Resuming, RowsKept, RunTo
    <2>3. OwnContainer' /\ Serving'
      BY <1>1, <1>2, <1>3, <2>1 DEF OwnContainer, Serving, RowsKept, RunTo
    <2> QED
      BY <1>1, <1>2, <2>1, <2>2, <2>3, RunMoves DEF TypeOK
  <1>5. CASE run.loaded \in {"switching", "finishing"}
    <2>1. crashes # 0
      BY <1>1, <1>2, <1>5 DEF FirstRun
    <2>2. CASE RunTo("compensate", run.stage, "failed")
      BY <1>1, <1>2, <2>1, <2>2, Fails DEF TypeOK
    <2>3. ASSUME NEW p \in {"route_name", "rename", "stop_old"},
                 RunTo(p, run.stage, run.verdict)
          PROVE  RunInv'
      <3>1. OnCourse' /\ StatusKept' /\ BarrierKept'
        BY <1>1, <1>2, <1>3, <1>5, <2>1, <2>3
           DEF OnCourse, StatusKept, BarrierKept, Past, Resuming, RowsKept, RunTo
      <3>2. OwnContainer' /\ Serving'
        BY <1>1, <2>1 DEF OwnContainer, Serving, RowsKept
      <3> QED
        BY <1>1, <1>2, <2>3, <3>1, <3>2, RunMoves DEF TypeOK
    <2>4. ResumePoint \in {"route_name", "rename", "stop_old", "compensate"}
      BY DEF ResumePoint
    <2>5. Goto(ResumePoint) \/ Abort("failed")
      BY <1>5 DEF Resume
    <2> QED
      BY <1>2, <1>3, <2>2, <2>3, <2>4, <2>5, Goes, Aborts DEF Steps, Terminal
  <1> QED
    BY <1>4, <1>5

LEMMA BeginSwitchKept ==
    ASSUME RunInv, BeginSwitch
    PROVE  RunInv'
  <1>1. /\ run.dep # None /\ run.at = "work" /\ run.stage = "switching" /\ RowsKept
        /\ app' = app /\ next' = next /\ route' = route
    BY DEF BeginSwitch, At, RowsKept, requests, remote, bounds
  <1>2. TypeOK /\ OnCourse /\ StatusKept /\ BarrierKept /\ OwnContainer /\ Serving
    BY DEF RunInv
  <1>3. run.dep \in Deployments /\ Rolling[run.dep] \in BOOLEAN
    BY <1>1, <1>2, DeploymentAssumption DEF TypeOK, RunState
  <1>4. CASE RunTo("compensate", run.stage, "failed")
    BY <1>1, <1>2, <1>4, Fails DEF TypeOK
  <1>5. CASE Rolling[run.dep] /\ RunTo("route_ip", run.stage, run.verdict)
    <2>1. OnCourse' /\ StatusKept' /\ BarrierKept'
      BY <1>1, <1>2, <1>5 DEF OnCourse, StatusKept, BarrierKept, Past, Resuming, RowsKept, RunTo
    <2>2. OwnContainer' /\ Serving'
      BY <1>1, <1>2, <1>5 DEF OwnContainer, Serving, RowsKept, RunTo
    <2> QED
      BY <1>1, <1>2, <1>5, <2>1, <2>2, RunMoves DEF TypeOK
  <1>6. CASE ~Rolling[run.dep] /\ RunTo("route_name", run.stage, run.verdict)
    <2>1. OnCourse' /\ StatusKept' /\ BarrierKept'
      BY <1>1, <1>2, <1>6 DEF OnCourse, StatusKept, BarrierKept, Past, Resuming, RowsKept, RunTo
    <2>2. OwnContainer'
      BY <1>1, <1>2, <1>6 DEF OwnContainer, RowsKept, RunTo
    <2>3. Serving'
      BY <1>3, <1>6 DEF Serving
    <2> QED
      BY <1>1, <1>2, <1>6, <2>1, <2>2, <2>3, RunMoves DEF TypeOK
  <1> QED
    BY <1>2, <1>4, <1>5, <1>6, Goes, Aborts DEF BeginSwitch, dep, Steps, Terminal

-----------------------------------------------------------------------------
(* Steps that change the containers or the route.                          *)

LEMMA Containers ==
    ASSUME TypeOK
    PROVE  /\ app.dep \in Deployments \cup {Base, None}
           /\ Absent \in Box /\ ByName \in Endpoint
           /\ \A d \in Deployments : /\ Container(d, crashes) \in Box
                                     /\ [Container(d, crashes) EXCEPT !.up = FALSE] \in Box
           /\ \A c \in Box : AddressOf(c) \in Endpoint /\ [c EXCEPT !.up = FALSE] \in Box
  BY DEF TypeOK, Box, Endpoint, Absent, ByName, Container, AddressOf

LEMMA StopThenStartKept ==
    ASSUME RunInv, StopThenStart
    PROVE  RunInv'
  <1>1. /\ run.dep # None /\ run.at = "work" /\ run.stage = "starting" /\ RowsKept
        /\ next' = next /\ route' = route
    BY DEF StopThenStart, At, RowsKept, requests, bounds
  <1>2. TypeOK /\ OnCourse /\ StatusKept /\ BarrierKept /\ OwnContainer /\ Serving
    BY DEF RunInv
  <1>3. app' = app \/ (~Rolling[run.dep] /\ app' = [app EXCEPT !.up = FALSE])
    BY DEF StopThenStart, dep
  <1>4. run.dep \in Deployments /\ app' \in Box
    BY <1>1, <1>2, <1>3, Containers DEF TypeOK, RunState
  <1>5. PICK p \in {"create", "clear"} :
             RunTo(p, run.stage, run.verdict) /\ (p = "clear" => ~Rolling[run.dep])
    BY <1>2, Goes DEF StopThenStart, Steps, dep
  <1>6. OnCourse' /\ StatusKept' /\ BarrierKept'
    BY <1>1, <1>2, <1>5 DEF OnCourse, StatusKept, BarrierKept, Past, Resuming, RowsKept, RunTo
  <1>7. OwnContainer' /\ Serving'
    BY <1>1, <1>2, <1>3, <1>4, <1>5 DEF OwnContainer, Serving, RowsKept, RunTo
  <1> QED
    BY <1>1, <1>2, <1>4, <1>5, <1>6, <1>7, RunMoves DEF TypeOK

LEMMA ClearKept ==
    ASSUME RunInv, Clear
    PROVE  RunInv'
  <1>1. /\ run.dep # None /\ run.at = "clear" /\ RowsKept
        /\ next' = next /\ route' = route
    BY DEF Clear, At, RowsKept, requests, bounds
  <1>2. TypeOK /\ OnCourse /\ StatusKept /\ BarrierKept /\ OwnContainer /\ Serving
    BY DEF RunInv
  <1>3. CASE app' = app /\ RunTo("compensate", run.stage, "failed")
    BY <1>1, <1>2, <1>3, Fails DEF TypeOK
  <1>4. CASE app' = Absent /\ RunTo("create", run.stage, run.verdict)
    <2>1. OnCourse' /\ StatusKept' /\ BarrierKept'
      BY <1>1, <1>2, <1>4 DEF OnCourse, StatusKept, BarrierKept, Past, Resuming, RowsKept, RunTo
    <2>2. run.dep \in Deployments /\ ~Rolling[run.dep]
      BY <1>1, <1>2 DEF OnCourse, TypeOK, RunState
    <2>3. OwnContainer' /\ Serving'
      BY <1>1, <1>2, <1>4, <2>2 DEF OwnContainer, Serving, RowsKept, RunTo
    <2> QED
      BY <1>1, <1>2, <1>4, <2>1, <2>3, Containers, RunMoves DEF TypeOK
  <1> QED
    BY <1>2, <1>3, <1>4, Goes, Aborts DEF Clear, Steps, Terminal

LEMMA StartCandidateKept ==
    ASSUME RunInv, StartCandidate
    PROVE  RunInv'
  <1>1. /\ run.dep # None /\ run.at = "create" /\ RowsKept /\ route' = route
    BY DEF StartCandidate, At, RowsKept, requests, bounds
  <1>2. TypeOK /\ OnCourse /\ StatusKept /\ BarrierKept /\ OwnContainer /\ Serving
    BY DEF RunInv
  <1>3. run.dep \in Deployments
    BY <1>1, <1>2 DEF TypeOK, RunState
  <1>4. PICK c \in Box : /\ c.dep = run.dep /\ c.up
                         /\ IF Rolling[run.dep] THEN next' = c /\ app' = app
                                                ELSE app' = c /\ next' = next
    BY <1>2, <1>3, Containers DEF StartCandidate, Container, dep
  <1>5. RunTo("check", "healthchecking", run.verdict)
    BY <1>2, EntersStage DEF StartCandidate, Stages
  <1>6. OnCourse' /\ StatusKept' /\ BarrierKept'
    BY <1>1, <1>2, <1>5 DEF OnCourse, StatusKept, BarrierKept, Past, Resuming, RowsKept, RunTo
  <1>7. OwnContainer' /\ Serving'
    BY <1>1, <1>2, <1>3, <1>4, <1>5 DEF OwnContainer, Serving, RowsKept, RunTo
  <1> QED
    BY <1>1, <1>2, <1>4, <1>5, <1>6, <1>7, RunMoves DEF TypeOK

LEMMA StartFailsKept ==
    ASSUME RunInv, StartFails
    PROVE  RunInv'
  <1>1. /\ run.dep # None /\ run.at = "create" /\ RowsKept /\ route' = route
    BY DEF StartFails, At, RowsKept, requests, bounds
  <1>2. TypeOK
    BY DEF RunInv
  <1>3. run.dep \in Deployments
    BY <1>1, <1>2 DEF TypeOK, RunState
  <1>4. /\ app' \in Box /\ next' \in Box
        /\ Rolling[run.dep] => app' = app
    BY <1>2, <1>3, Containers DEF StartFails, TypeOK, dep
  <1>5. RunTo("compensate", run.stage, "failed")
    BY <1>2, Aborts DEF StartFails, Terminal
  <1> QED
    BY <1>1, <1>3, <1>4, <1>5, Fails

LEMMA RouteToCandidateKept ==
    ASSUME RunInv, RouteToCandidate
    PROVE  RunInv'
  <1>1. /\ run.dep # None /\ run.at = "route_ip" /\ RowsKept
        /\ app' = app /\ next' = next
    BY DEF RouteToCandidate, At, RowsKept, requests, bounds
  <1>2. TypeOK /\ OnCourse /\ StatusKept /\ BarrierKept /\ OwnContainer /\ Serving
    BY DEF RunInv
  <1>3. CASE route' = route /\ RunTo("compensate", run.stage, "failed")
    BY <1>1, <1>2, <1>3, Fails DEF TypeOK
  <1>4. CASE route' = AddressOf(next) /\ RunTo("stop_old", run.stage, run.verdict)
    <2>1. OnCourse' /\ StatusKept' /\ BarrierKept'
      BY <1>1, <1>2, <1>4 DEF OnCourse, StatusKept, BarrierKept, Past, Resuming, RowsKept, RunTo
    <2>2. OwnContainer' /\ Serving'
      BY <1>1, <1>2, <1>4 DEF OwnContainer, Serving, RowsKept, RunTo
    <2> QED
      BY <1>1, <1>2, <1>4, <2>1, <2>2, Containers, RunMoves DEF TypeOK
  <1> QED
    BY <1>2, <1>3, <1>4, Goes, Aborts DEF RouteToCandidate, Steps, Terminal

LEMMA StopOldKept ==
    ASSUME RunInv, StopOld
    PROVE  RunInv'
  <1>1. /\ run.dep # None /\ run.at = "stop_old" /\ RowsKept
        /\ next' = next /\ route' = route
    BY DEF StopOld, At, RowsKept, requests, bounds
  <1>2. TypeOK /\ OnCourse /\ StatusKept /\ BarrierKept /\ OwnContainer /\ Serving
    BY DEF RunInv
  <1>3. app' = app \/ app' = [app EXCEPT !.up = FALSE]
    BY DEF StopOld
  <1>4. app' \in Box /\ app'.dep = app.dep
    BY <1>2, <1>3, Containers DEF TypeOK, Box
  <1>5. RunTo("rm_old", run.stage, run.verdict)
    BY <1>2, Goes DEF StopOld, Steps
  <1>6. OnCourse' /\ StatusKept' /\ BarrierKept'
    BY <1>1, <1>2, <1>5 DEF OnCourse, StatusKept, BarrierKept, Past, Resuming, RowsKept, RunTo
  <1>7. OwnContainer' /\ Serving'
    BY <1>1, <1>2, <1>4, <1>5 DEF OwnContainer, Serving, RowsKept, RunTo
  <1> QED
    BY <1>1, <1>2, <1>4, <1>5, <1>6, <1>7, RunMoves DEF TypeOK

LEMMA RemoveOldKept ==
    ASSUME RunInv, RemoveOld
    PROVE  RunInv'
  <1>1. /\ run.dep # None /\ run.at = "rm_old" /\ RowsKept
        /\ next' = next /\ route' = route
    BY DEF RemoveOld, At, RowsKept, requests, bounds
  <1>2. TypeOK /\ OnCourse /\ StatusKept /\ BarrierKept /\ OwnContainer /\ Serving
    BY DEF RunInv
  <1>3. app' = Absent \/ (SwitchFaults /\ app' = app)
    BY DEF RemoveOld
  <1>4. app' \in Box
    BY <1>2, <1>3, Containers DEF TypeOK
  <1>5. RunTo("rename", run.stage, run.verdict)
    BY <1>2, Goes DEF RemoveOld, Steps
  <1>6. OnCourse' /\ StatusKept' /\ BarrierKept'
    BY <1>1, <1>2, <1>5 DEF OnCourse, StatusKept, BarrierKept, Past, Resuming, RowsKept, RunTo
  <1>7. OwnContainer' /\ Serving'
    BY <1>1, <1>2, <1>3, <1>5 DEF OwnContainer, Serving, RowsKept, RunTo, Gone, Absent
  <1> QED
    BY <1>1, <1>2, <1>4, <1>5, <1>6, <1>7, RunMoves DEF TypeOK

\* The container is renamed by the deployment that has entered switching.
LEMMA RenameKept ==
    ASSUME RunInv, Rename
    PROVE  RunInv'
  <1>1. /\ run.dep # None /\ run.at = "rename" /\ RowsKept
        /\ app' = next /\ next' = Absent /\ route' = route
    BY DEF Rename, At, RowsKept, requests, bounds
  <1>2. TypeOK /\ OnCourse /\ StatusKept /\ BarrierKept /\ OwnContainer /\ Serving
    BY DEF RunInv
  <1>3. RunTo("route_name", run.stage, run.verdict)
    BY <1>2, Goes DEF Rename, Steps
  <1>4. OnCourse' /\ StatusKept' /\ BarrierKept'
    BY <1>1, <1>2, <1>3 DEF OnCourse, StatusKept, BarrierKept, Past, Resuming, RowsKept, RunTo
  <1>5. OwnContainer' /\ Serving'
    BY <1>1, <1>2, <1>3 DEF OwnContainer, Serving, RowsKept, RunTo
  <1> QED
    BY <1>1, <1>2, <1>3, <1>4, <1>5, Containers, RunMoves DEF TypeOK

LEMMA RenameFailsKept ==
    ASSUME RunInv, RenameFails
    PROVE  RunInv'
  <1>1. /\ run.dep # None /\ run.at = "rename" /\ RowsKept
        /\ app' = app /\ next' = next /\ route' = route
        /\ ~Gone(app) \/ Gone(next) \/ SwitchFaults
    BY DEF RenameFails, At, RowsKept, requests, bounds, remote
  <1>2. TypeOK /\ OwnContainer /\ Serving
    BY DEF RunInv
  <1>3. RunTo("compensate", run.stage, "failed")
    BY <1>2, Aborts DEF RenameFails, Terminal
  <1>4. crashes = 0 /\ (\A d \in Deployments : Rolling[d]) => ~Gone(next)
    BY <1>1, <1>2 DEF OwnContainer, Gone, Absent, TypeOK, RunState
  <1> QED
    BY <1>1, <1>2, <1>3, <1>4, Fails DEF TypeOK, Serving

LEMMA RouteToNameKept ==
    ASSUME RunInv, RouteToName
    PROVE  RunInv'
  <1>1. /\ run.dep # None /\ run.at = "route_name" /\ RowsKept
        /\ app' = app /\ next' = next
    BY DEF RouteToName, At, RowsKept, requests, bounds
  <1>2. TypeOK /\ OnCourse /\ StatusKept /\ BarrierKept /\ OwnContainer /\ Serving
    BY DEF RunInv
  <1>3. CASE SwitchFaults /\ route' = route /\ RunTo("compensate", run.stage, "failed")
    BY <1>1, <1>2, <1>3, Fails DEF TypeOK
  <1>4. CASE route' = ByName /\ RunTo("finish", run.stage, run.verdict)
    <2>1. OnCourse' /\ StatusKept' /\ BarrierKept'
      BY <1>1, <1>2, <1>4 DEF OnCourse, StatusKept, BarrierKept, Past, Resuming, RowsKept, RunTo
    <2>2. OwnContainer' /\ Serving'
      BY <1>1, <1>2, <1>4 DEF OwnContainer, Serving, RowsKept, RunTo
    <2> QED
      BY <1>1, <1>2, <1>4, <2>1, <2>2, Containers, RunMoves DEF TypeOK
  <1> QED
    BY <1>2, <1>3, <1>4, Goes, Aborts DEF RouteToName, Steps, Terminal

LEMMA CompensateKept ==
    ASSUME RunInv, Compensate
    PROVE  RunInv'
  <1>1. /\ run.dep # None /\ run.at = "compensate" /\ RowsKept
        /\ app' = app /\ route' = route
    BY DEF Compensate, At, RowsKept, requests, bounds
  <1>2. TypeOK /\ OnCourse /\ StatusKept /\ BarrierKept /\ OwnContainer /\ Serving
    BY DEF RunInv
  <1>3. next' \in Box
    BY <1>2, Containers DEF Compensate, TypeOK
  <1>4. RunTo("verdict", run.stage, run.verdict)
    BY <1>2, Goes DEF Compensate, Steps
  <1>5. OnCourse' /\ StatusKept' /\ BarrierKept'
    BY <1>1, <1>2, <1>4 DEF OnCourse, StatusKept, BarrierKept, Past, Resuming, RowsKept, RunTo
  <1>6. OwnContainer' /\ Serving'
    BY <1>1, <1>2, <1>4 DEF OwnContainer, Serving, RowsKept, RunTo
  <1> QED
    BY <1>1, <1>2, <1>3, <1>4, <1>5, <1>6, RunMoves DEF TypeOK

-----------------------------------------------------------------------------
(* Steps of a run that write its row or complete its job.                  *)

LEMMA RunTyped ==
    ASSUME RunInv, run.dep # None
    PROVE  /\ run.dep \in Deployments /\ job[run.dep].status = "active"
           /\ status[run.dep] \in Status \ {"absent"}
           /\ trigger[run.dep].at = "done"
  BY DEF RunInv, TypeOK, RunState, OneRun, Requested

\* A run writes its own row: what the writes have in common.
LEMMA RowWritten ==
    ASSUME RunInv, run.dep # None, run.at # "load",
           NEW p, p # "load", NEW s, NEW v, RunTo(p, s, v),
           NEW w \in Status \ {"absent", "queued"},
           status' = [status EXCEPT ![run.dep] = w],
           barred' \in {barred, barred \cup {run.dep}},
           ~StoreFaults => status[run.dep] \notin Terminal \/ w \in Terminal,
           UNCHANGED <<job, trigger, cancel, accepted, crashes, aborts, erased, app, next, route>>
    PROVE  /\ TypeOK' /\ OneRun' /\ Requested' /\ FirstRun'
           /\ OnlyRunInFlight' /\ CancelKept'
  <1>1. TypeOK /\ OneRun /\ Requested /\ FirstRun /\ OnlyRunInFlight /\ CancelKept
    BY DEF RunInv
  <1>2. /\ run.dep \in Deployments /\ job[run.dep].status = "active"
        /\ status[run.dep] # "absent" /\ trigger[run.dep].at = "done"
    BY RunTyped
  <1>3. /\ status'[run.dep] = w
        /\ \A d \in Deployments \ {run.dep} : status'[d] = status[d]
    BY <1>1, <1>2 DEF TypeOK
  <1>4. TypeOK'
    BY <1>1, <1>2 DEF TypeOK, RunTo
  <1>5. OneRun' /\ Requested'
    BY <1>1, <1>2, <1>3 DEF OneRun, Requested, RunTo
  <1>6. FirstRun'
    BY <1>1, <1>2, <1>3 DEF FirstRun, RunTo
  <1>7. OnlyRunInFlight' /\ CancelKept'
    BY <1>1, <1>2, <1>3 DEF OnlyRunInFlight, CancelKept, AcceptedCancelRecorded, RunTo
  <1> QED
    BY <1>4, <1>5, <1>6, <1>7

\* A completed job leaves nothing in flight, unless a verdict was lost.
LEMMA Completes ==
    ASSUME RunInv, run.dep # None, run.at \in {"load", "enter", "ack"},
           NEW s \in {"succeeded", "dead_letter"}, Complete(s),
           ~StoreFaults => status[run.dep] \notin InFlight,
           UNCHANGED <<status, requests, remote, bounds, barred>>
    PROVE  RunInv'
  <1>1. RunInv
    OBVIOUS
  <1>2. /\ TypeOK /\ OneRun /\ OnCourse /\ Requested /\ FirstRun /\ BarrierKept
        /\ OnlyRunInFlight /\ CancelKept /\ Serving
    BY DEF RunInv
  <1>3. run.dep \in Deployments /\ job[run.dep].status = "active"
    BY RunTyped
  <1>4. /\ status' = status /\ trigger' = trigger /\ cancel' = cancel
        /\ accepted' = accepted /\ app' = app /\ next' = next /\ route' = route
        /\ crashes' = crashes /\ aborts' = aborts /\ barred' = barred /\ erased' = erased
    BY DEF requests, remote, bounds
  <1>5. /\ job' \in [Deployments -> JobState]
        /\ job'[run.dep].status = s
        /\ \A d \in Deployments : job'[d].cancel = job[d].cancel
        /\ \A d \in Deployments \ {run.dep} : job'[d] = job[d]
    BY <1>2, <1>3 DEF Complete, TypeOK, JobState, JobStatus, dep
  <1>6. /\ run' = Idle /\ run' \in RunState /\ run'.dep = None /\ run'.at = "load"
        /\ run'.stage = "preparing" /\ run'.verdict = "failed"
    BY DEF Complete, Idle, RunState, Steps, Stages, Status, Terminal
  <1>7. TypeOK' /\ OneRun' /\ OnCourse' /\ Requested'
    BY <1>2, <1>3, <1>4, <1>5, <1>6 DEF TypeOK, OneRun, OnCourse, Requested
  <1>8. StatusKept' /\ OwnContainer' /\ Serving'
    BY <1>2, <1>4, <1>6 DEF StatusKept, OwnContainer, Serving
  <1>9. FirstRun'
    BY <1>2, <1>3, <1>4, <1>5, <1>6 DEF FirstRun
  <1>10. OnlyRunInFlight'
    BY <1>2, <1>4, <1>6 DEF OnlyRunInFlight
  <1>11. CancelKept'
    BY <1>2, <1>4, <1>5 DEF CancelKept, AcceptedCancelRecorded, TypeOK
  <1>12. BarrierKept'
    BY <1>2, <1>3, <1>4, <1>5, <1>6, DeploymentAssumption DEF BarrierKept, TypeOK, Resumable
  <1> QED
    BY <1>7, <1>8, <1>9, <1>10, <1>11, <1>12 DEF RunInv

LEMMA LoadKept ==
    ASSUME RunInv, Load
    PROVE  RunInv'
  <1>1. /\ run.dep # None /\ run.at = "load"
        /\ UNCHANGED <<status, requests, remote, bounds, barred>>
    BY DEF Load, At
  <1>2. /\ TypeOK /\ OneRun /\ OnCourse /\ Requested /\ FirstRun /\ BarrierKept
        /\ OnlyRunInFlight /\ CancelKept /\ Serving
    BY DEF RunInv
  <1>3. CASE status[run.dep] \in Terminal
    BY <1>1, <1>3, Completes DEF Load, dep, Terminal, InFlight, Stages
  <1>4. CASE status[run.dep] \notin Terminal
    <2>1. /\ status' = status /\ trigger' = trigger /\ cancel' = cancel /\ job' = job
          /\ accepted' = accepted /\ app' = app /\ next' = next /\ route' = route
          /\ crashes' = crashes /\ aborts' = aborts /\ barred' = barred /\ erased' = erased
      BY <1>1, <1>4 DEF requests, remote, bounds, Load, dep
    <2>2. /\ run.dep \in Deployments /\ run.stage = "preparing" /\ run.verdict = "failed"
          /\ status[run.dep] \in InFlight \cup {"queued"}
      BY <1>1, <1>2, <1>4, RunTyped DEF OnCourse, Status
    <2>3. /\ run' \in RunState /\ run'.dep = run.dep /\ run'.at = "check"
          /\ run'.stage = "preparing" /\ run'.verdict = "failed"
          /\ run'.loaded = status[run.dep]
      BY <1>2, <1>4, <2>2 DEF Load, TypeOK, RunState, Steps, dep
    <2>4. TypeOK' /\ OneRun' /\ OnCourse' /\ Requested'
      BY <1>1, <1>2, <2>1, <2>3 DEF TypeOK, OneRun, OnCourse, Requested
    <2>5. StatusKept'
      BY <2>1, <2>2, <2>3 DEF StatusKept, Pending, Unstarted
    <2>6. FirstRun' /\ OnlyRunInFlight' /\ CancelKept'
      BY <1>1, <1>2, <2>1, <2>2, <2>3
         DEF FirstRun, OnlyRunInFlight, CancelKept, AcceptedCancelRecorded,
             Pending, Unstarted, InFlight, Stages
    <2>7. BarrierKept'
      BY <1>1, <1>2, <1>4, <2>1, <2>3, RunTyped
         DEF BarrierKept, Past, Resuming, Decided, Resumable
    <2>8. OwnContainer' /\ Serving'
      BY <1>1, <1>2, <2>1, <2>3 DEF OwnContainer, Serving
    <2> QED
      BY <2>4, <2>5, <2>6, <2>7, <2>8 DEF RunInv
  <1> QED
    BY <1>3, <1>4

LEMMA LoadFailsKept ==
    ASSUME RunInv, LoadFails
    PROVE  RunInv'
  BY Completes DEF LoadFails, At

LEMMA AcknowledgeKept ==
    ASSUME RunInv, Acknowledge
    PROVE  RunInv'
  <1>1. run.dep # None /\ run.at = "ack"
    BY DEF Acknowledge, At
  <1>2. ~StoreFaults => status[run.dep] \notin InFlight
    BY <1>1 DEF RunInv, StatusKept, Terminal, InFlight, Stages
  <1> QED
    BY <1>1, <1>2, Completes DEF Acknowledge

\* The one guarded write: a row that a request has closed is left alone.
LEMMA SetStatusKept ==
    ASSUME RunInv, SetStatus
    PROVE  RunInv'
  <1>1. run.dep # None /\ run.at = "enter"
    BY DEF SetStatus, At
  <1>2. /\ TypeOK /\ OnCourse /\ StatusKept /\ BarrierKept /\ OwnContainer /\ Serving
    BY DEF RunInv
  <1>3. run.dep \in Deployments /\ run.stage \in Stages
    BY <1>1, <1>2 DEF TypeOK, RunState
  <1>4. CASE run.stage = "preparing" /\ run.loaded = "queued" /\ status[run.dep] # "queued"
    <2>1. ~StoreFaults => status[run.dep] \notin InFlight
      BY <1>1, <1>2, <1>4 DEF StatusKept, Pending, Unstarted, InFlight, Stages
    <2> QED
      BY <1>1, <1>4, <2>1, Completes DEF SetStatus, dep
  <1>5. CASE ~(run.stage = "preparing" /\ run.loaded = "queued" /\ status[run.dep] # "queued")
    <2>1. /\ status' = [status EXCEPT ![run.dep] = run.stage]
          /\ barred' = IF run.stage = "switching" THEN barred \cup {run.dep} ELSE barred
          /\ Goto("work")
          /\ UNCHANGED <<job, trigger, cancel, accepted, crashes, aborts, erased, app, next, route>>
      BY <1>5 DEF SetStatus, dep, requests, remote, bounds
    <2>2. RunTo("work", run.stage, run.verdict)
      BY <1>2, <2>1, Goes DEF Steps
    <2>3. ~StoreFaults => status[run.dep] \notin Terminal
      BY <1>1, <1>2, <1>5 DEF StatusKept, Pending, Unstarted, InFlight, Stages, Terminal
    <2>4. run.stage \in Status \ {"absent", "queued"} /\ run.stage \in InFlight
      BY <1>3 DEF Status, InFlight, Stages
    <2>5. /\ TypeOK' /\ OneRun' /\ Requested' /\ FirstRun'
          /\ OnlyRunInFlight' /\ CancelKept'
      BY <1>1, <2>1, <2>2, <2>3, <2>4, RowWritten
    <2>6. /\ status'[run.dep] = run.stage
          /\ \A d \in Deployments \ {run.dep} : status'[d] = status[d]
      BY <1>2, <1>3, <2>1 DEF TypeOK
    <2>7. OnCourse' /\ StatusKept'
      BY <1>1, <1>2, <2>2, <2>4, <2>6 DEF OnCourse, StatusKept, RunTo
    <2>8. BarrierKept'
      <3> SUFFICES ASSUME NEW d \in barred'
                   PROVE  BarrierKept!(d)'
        BY DEF BarrierKept
      <3>1. CASE d = run.dep /\ d \in barred
        BY <1>1, <1>2, <1>3, <2>1, <2>2, <2>4, <2>6, <3>1
           DEF BarrierKept, OnCourse, Past, Resuming, Decided, RunTo, Stages
      <3>3. CASE d = run.dep /\ d \notin barred
        <4>1. run.stage = "switching" /\ d \notin erased
          BY <1>2, <2>1, <3>3 DEF TypeOK
        <4> QED
          BY <1>1, <1>2, <1>3, <2>1, <2>2, <2>6, <3>3, <4>1
             DEF BarrierKept, OnCourse, Past, Decided, RunTo
      <3>2. CASE d # run.dep
        BY <1>1, <1>2, <2>1, <2>2, <2>6, <3>2
           DEF BarrierKept, TypeOK, RunTo
      <3> QED
        BY <3>1, <3>2, <3>3
    <2>9. OwnContainer' /\ Serving'
      BY <1>1, <1>2, <2>1, <2>2 DEF OwnContainer, Serving, RunTo
    <2> QED
      BY <2>5, <2>7, <2>8, <2>9 DEF RunInv
  <1> QED
    BY <1>4, <1>5

LEMMA FinishKept ==
    ASSUME RunInv, Finish
    PROVE  RunInv'
  <1>1. /\ run.dep # None /\ run.at \in {"finish", "finishing"} /\ barred' = barred
        /\ UNCHANGED <<job, trigger, cancel, accepted, crashes, aborts, erased, app, next, route>>
    BY DEF Finish, At, requests, remote, bounds
  <1>2. TypeOK /\ OnCourse /\ StatusKept /\ BarrierKept /\ OwnContainer /\ Serving
    BY DEF RunInv
  <1>3. run.dep \in Deployments
    BY <1>1, RunTyped
  <1>4. \E w \in {"finishing", "succeeded"} :
           /\ status' = [status EXCEPT ![run.dep] = w]
           /\ RunTo(IF w = "finishing" THEN "finishing" ELSE "ack", run.stage, run.verdict)
    BY <1>2, Goes DEF Finish, dep, Steps
  <1>5. PICK w \in {"finishing", "succeeded"}, p \in {"finishing", "ack"} :
           /\ status' = [status EXCEPT ![run.dep] = w]
           /\ RunTo(p, run.stage, run.verdict)
           /\ w = "finishing" <=> p = "finishing"
    BY <1>4
  <1>6. ~StoreFaults => status[run.dep] \notin Terminal
    BY <1>1, <1>2 DEF StatusKept, OnCourse, InFlight, Stages, Terminal
  <1>7. /\ TypeOK' /\ OneRun' /\ Requested' /\ FirstRun'
        /\ OnlyRunInFlight' /\ CancelKept'
    <2>1. w \in Status \ {"absent", "queued"}
      BY <1>5 DEF Status, InFlight, Terminal
    <2> QED
      BY <1>1, <1>5, <1>6, <2>1, RowWritten
  <1>8. /\ status'[run.dep] = w
        /\ \A d \in Deployments \ {run.dep} : status'[d] = status[d]
    BY <1>2, <1>3, <1>5 DEF TypeOK
  <1>9. OnCourse' /\ StatusKept'
    BY <1>1, <1>2, <1>5, <1>8 DEF OnCourse, StatusKept, RunTo, InFlight, Terminal
  <1>10. BarrierKept'
    BY <1>1, <1>2, <1>3, <1>5, <1>8 DEF BarrierKept, TypeOK, Past, Resuming, Decided, Terminal, RunTo
  <1>11. OwnContainer' /\ Serving'
    BY <1>1, <1>2, <1>5 DEF OwnContainer, Serving, RunTo
  <1> QED
    BY <1>7, <1>9, <1>10, <1>11 DEF RunInv

LEMMA VerdictKept ==
    ASSUME RunInv, Verdict
    PROVE  RunInv'
  <1>1. /\ run.dep # None /\ run.at = "verdict" /\ barred' = barred
        /\ UNCHANGED <<job, trigger, cancel, accepted, crashes, aborts, erased, app, next, route>>
    BY DEF Verdict, At, requests, remote, bounds
  <1>2. TypeOK /\ OnCourse /\ StatusKept /\ BarrierKept /\ OwnContainer /\ Serving
    BY DEF RunInv
  <1>3. RunTo("ack", run.stage, run.verdict)
    BY <1>2, Goes DEF Verdict, Steps
  <1>4. OnCourse' /\ OwnContainer' /\ Serving'
    BY <1>1, <1>2, <1>3 DEF OnCourse, OwnContainer, Serving, RunTo
  <1>5. CASE StoreFaults /\ status' = status
    <2>1. StatusKept'
      BY <1>5 DEF StatusKept
    <2>2. BarrierKept'
      BY <1>1, <1>2, <1>3, <1>5 DEF BarrierKept, Past, Resuming, RunTo
    <2>3. RowsKept /\ app' \in Box /\ next' \in Box /\ route' \in Endpoint
      BY <1>1, <1>2, <1>5 DEF RowsKept, TypeOK
    <2> QED
      BY <1>1, <1>3, <1>4, <2>1, <2>2, <2>3, RunMoves
  <1>6. CASE status' = [status EXCEPT ![run.dep] = run.verdict]
    <2>1. /\ run.dep \in Deployments
          /\ run.verdict \in Terminal /\ run.verdict \in Status \ {"absent", "queued"}
      BY <1>1, <1>2, RunTyped DEF OnCourse, Status, Terminal
    <2>2. /\ TypeOK' /\ OneRun' /\ Requested' /\ FirstRun'
          /\ OnlyRunInFlight' /\ CancelKept'
      BY <1>1, <1>3, <1>6, <2>1, RowWritten
    <2>3. /\ status'[run.dep] = run.verdict
          /\ \A d \in Deployments \ {run.dep} : status'[d] = status[d]
      BY <1>2, <1>6, <2>1 DEF TypeOK
    <2>4. StatusKept'
      BY <1>3, <2>1, <2>3 DEF StatusKept, RunTo
    <2>5. BarrierKept'
      BY <1>1, <1>2, <1>3, <2>1, <2>3 DEF BarrierKept, TypeOK, Past, Resuming, Decided, RunTo
    <2> QED
      BY <1>4, <2>2, <2>4, <2>5 DEF RunInv
  <1> QED
    BY <1>5, <1>6 DEF Verdict, dep

-----------------------------------------------------------------------------
(* The queue.                                                              *)

\* The application's lock is free, so no run is under way; and a deployment
\* that has passed the barrier is queued again only after a crash.
LEMMA DequeueRunKept ==
    ASSUME RunInv, NEW d \in Deployments, DequeueRun(d)
    PROVE  RunInv'
  <1>1. /\ job[d].status = "queued" /\ \A e \in Deployments : job[e].status # "active"
        /\ job' = [job EXCEPT ![d].status = "active"]
        /\ run' = [Idle EXCEPT !.dep = d]
        /\ status' = status /\ trigger' = trigger /\ cancel' = cancel
        /\ accepted' = accepted /\ app' = app /\ next' = next /\ route' = route
        /\ crashes' = crashes /\ aborts' = aborts /\ barred' = barred /\ erased' = erased
    BY DEF DequeueRun, requests, remote, bounds
  <1>2. /\ TypeOK /\ OneRun /\ Requested /\ FirstRun /\ BarrierKept
        /\ OnlyRunInFlight /\ CancelKept /\ Serving
    BY DEF RunInv
  <1>3. run.dep = None /\ run.at = "load"
    BY <1>1, <1>2 DEF OneRun, TypeOK, RunState, Idle
  <1>4. /\ job' \in [Deployments -> JobState]
        /\ job'[d].status = "active"
        /\ \A e \in Deployments : job'[e].cancel = job[e].cancel
        /\ \A e \in Deployments \ {d} : job'[e] = job[e]
    BY <1>1, <1>2 DEF TypeOK, JobState, JobStatus
  <1>5. /\ run' \in RunState /\ run'.dep = d /\ run'.at = "load" /\ d # None
        /\ run'.stage = "preparing" /\ run'.verdict = "failed"
    BY <1>1, DeploymentAssumption DEF Idle, RunState, Steps, Stages, Status, Terminal
  <1>6. TypeOK' /\ OneRun' /\ Requested'
    BY <1>1, <1>2, <1>4, <1>5 DEF TypeOK, OneRun, Requested
  <1>7. OnCourse' /\ StatusKept' /\ OwnContainer'
    BY <1>5 DEF OnCourse, StatusKept, OwnContainer
  <1>8. FirstRun'
    BY <1>1, <1>2, <1>4, <1>5 DEF FirstRun
  <1>9. OnlyRunInFlight'
    BY <1>1, <1>2, <1>3, DeploymentAssumption DEF OnlyRunInFlight
  <1>10. CancelKept'
    BY <1>1, <1>2, <1>4 DEF CancelKept, AcceptedCancelRecorded, TypeOK
  <1>11. BarrierKept'
    <2> SUFFICES ASSUME NEW e \in barred'
                 PROVE  BarrierKept!(e)'
      BY DEF BarrierKept
    <2>1. e \in barred /\ e \in Deployments /\ run.dep # e
      BY <1>1, <1>2, <1>3, DeploymentAssumption DEF TypeOK
    <2>2. CASE e = d
      BY <1>1, <1>2, <1>5, <2>1, <2>2 DEF BarrierKept, Resuming, Resumable
    <2>3. CASE e # d
      BY <1>1, <1>2, <1>4, <1>5, <2>1, <2>3 DEF BarrierKept
    <2> QED
      BY <2>2, <2>3
  <1>12. Serving'
    BY <1>1, <1>2, <1>3, <1>5, DeploymentAssumption DEF Serving, BarrierKept, Resumable
  <1> QED
    BY <1>6, <1>7, <1>8, <1>9, <1>10, <1>11, <1>12 DEF RunInv

\* What a crash leaves in the row of a deployment past the barrier: the switch,
\* unless an earlier crash has sent the run back to preparing.
LEMMA CrashKept ==
    ASSUME RunInv, Crash
    PROVE  RunInv'
  <1>1. /\ run' = Idle /\ crashes' = crashes + 1
        /\ erased' = erased \cup {d \in barred : d = run.dep /\ status[d] = "preparing"}
        /\ status' = status /\ trigger' = trigger /\ cancel' = cancel /\ job' = job
        /\ accepted' = accepted /\ app' = app /\ next' = next /\ route' = route
        /\ aborts' = aborts /\ barred' = barred
    BY DEF Crash, requests, remote
  <1>2. TypeOK /\ OneRun /\ Requested /\ BarrierKept
    BY DEF RunInv
  <1>3. /\ run' \in RunState /\ run'.dep = None /\ run'.at = "load"
        /\ run'.stage = "preparing" /\ run'.verdict = "failed"
    BY <1>1 DEF Idle, RunState, Steps, Stages, Status, Terminal
  <1>4. crashes' \in Nat /\ crashes' # 0 /\ (crashes # 0 => crashes' >= 2)
    BY <1>1, <1>2 DEF TypeOK
  <1>5. TypeOK' /\ OneRun' /\ Requested'
    BY <1>1, <1>2, <1>3, <1>4 DEF TypeOK, OneRun, Requested
  <1>6. OnCourse' /\ StatusKept'
    BY <1>3 DEF OnCourse, StatusKept
  <1>7. FirstRun' /\ OnlyRunInFlight' /\ CancelKept' /\ OwnContainer' /\ Serving'
    BY <1>4 DEF FirstRun, OnlyRunInFlight, CancelKept, OwnContainer, Serving
  <1>8. BarrierKept'
    <2> SUFFICES ASSUME NEW d \in barred'
                 PROVE  BarrierKept!(d)'
      BY DEF BarrierKept
    <2>1. d \in barred /\ d \in Deployments /\ run'.dep # d
      BY <1>1, <1>2, <1>3, DeploymentAssumption DEF TypeOK
    <2>2. CASE run.dep = d /\ status[d] = "preparing"
      <3>1. crashes # 0
        BY <1>2, <2>1, <2>2 DEF BarrierKept, Decided, Terminal
      <3> QED
        BY <1>1, <1>2, <1>4, <2>1, <2>2, <3>1 DEF BarrierKept
    <2>3. CASE ~(run.dep = d /\ status[d] = "preparing")
      <3>1. d \in erased' <=> d \in erased
        BY <1>1, <2>1, <2>3
      <3>2. d \in erased => crashes' >= 2
        BY <1>1, <1>2, <1>4, <2>1 DEF BarrierKept, TypeOK
      <3>3. d \notin erased /\ job[d].status \in Resumable => status[d] \in Decided
        BY <1>2, <2>1, <2>3 DEF BarrierKept
      <3> QED
        BY <1>1, <1>2, <1>4, <2>1, <3>1, <3>2, <3>3 DEF BarrierKept
    <2> QED
      BY <2>2, <2>3
  <1> QED
    BY <1>5, <1>6, <1>7, <1>8 DEF RunInv

\* A job without its worker: its run has crashed.
LEMMA RequeuedKept ==
    ASSUME RunInv, NEW d \in Deployments, ReapRun(d) \/ PromoteRun(d)
    PROVE  RunInv'
  <1>1. job[d].status \in Resumable /\ run.dep # d
    BY RunTyped, DeploymentAssumption DEF ReapRun, PromoteRun, Resumable
  <1>2. /\ run' = run /\ status' = status /\ trigger' = trigger /\ cancel' = cancel
        /\ accepted' = accepted /\ app' = app /\ next' = next /\ route' = route
        /\ crashes' = crashes /\ aborts' = aborts /\ barred' = barred /\ erased' = erased
    BY DEF ReapRun, PromoteRun, requests, remote, bounds
  <1>3. /\ TypeOK /\ OneRun /\ OnCourse /\ Requested /\ StatusKept /\ FirstRun
        /\ BarrierKept
    BY DEF RunInv
  <1>4. crashes # 0
    BY <1>1, <1>3 DEF FirstRun, ReapRun, PromoteRun
  <1>5. /\ job' \in [Deployments -> JobState]
        /\ job'[d].status \in {"queued", "retry_wait", "dead_letter"}
        /\ \A e \in Deployments \ {d} : job'[e] = job[e]
    BY <1>3 DEF ReapRun, PromoteRun, TypeOK, JobState, JobStatus
  <1>6. TypeOK' /\ OnCourse'
    BY <1>2, <1>3, <1>5 DEF TypeOK, OnCourse
  <1>7. OneRun'
    <2>1. run.dep # None => run.dep \in Deployments \ {d}
      BY <1>1, RunTyped
    <2> QED
      BY <1>2, <1>3, <1>5, <2>1 DEF OneRun
  <1>8. Requested'
    BY <1>1, <1>2, <1>3, <1>5 DEF Requested, Resumable
  <1>9. StatusKept'
    BY <1>2, <1>3 DEF StatusKept
  <1>10. FirstRun' /\ OnlyRunInFlight' /\ CancelKept' /\ OwnContainer' /\ Serving'
    BY <1>2, <1>4 DEF FirstRun, OnlyRunInFlight, CancelKept, OwnContainer, Serving
  <1>11. BarrierKept'
    BY <1>1, <1>2, <1>3, <1>4, <1>5 DEF BarrierKept, TypeOK, Past, Resuming
  <1> QED
    BY <1>6, <1>7, <1>8, <1>9, <1>10, <1>11 DEF RunInv

-----------------------------------------------------------------------------
(* The requests.                                                           *)

RunKept == UNCHANGED <<run, app, next, route, crashes, barred, erased>>

\* A request touches neither the run nor the containers.
LEMMA RequestFrame ==
    ASSUME RunInv, RunKept
    PROVE  OnCourse' /\ OwnContainer' /\ Serving'
  <1>1. OnCourse /\ OwnContainer /\ Serving
    BY DEF RunInv
  <1>2. OnCourse' /\ OwnContainer'
    BY <1>1 DEF OnCourse, OwnContainer, RunKept
  <1>3. Serving'
    BY <1>1 DEF Serving, RunKept
  <1> QED
    BY <1>2, <1>3

\* A request that closes rows closes queued ones.
LEMMA RowsClosed ==
    ASSUME RunInv, RunKept, job' = job, accepted' = accepted,
           status' \in [Deployments -> Status],
           \A e \in Deployments :
              \/ status'[e] = status[e]
              \/ status[e] = "queued" /\ status'[e] \in {"cancelled", "superseded"}
              \/ status[e] = "absent" /\ status'[e] = "queued"
    PROVE  /\ OneRun' /\ OnCourse' /\ StatusKept' /\ FirstRun' /\ BarrierKept'
           /\ OnlyRunInFlight' /\ CancelKept' /\ OwnContainer' /\ Serving'
  <1>1. /\ TypeOK /\ OneRun /\ Requested /\ StatusKept /\ FirstRun /\ BarrierKept
        /\ OnlyRunInFlight /\ CancelKept
    BY DEF RunInv
  <1>2. OneRun'
    BY <1>1 DEF OneRun, RunKept
  <1>3. run.dep # None => run.dep \in Deployments /\ status[run.dep] # "absent"
    BY RunTyped
  <1>4. StatusKept'
    BY <1>1, <1>3 DEF StatusKept, RunKept, Pending, Unstarted, InFlight, Stages, Terminal
  <1>5. FirstRun'
    BY <1>1, <1>3 DEF FirstRun, RunKept, Pending, Unstarted, Requested
  <1>6. \A d \in barred : d \in Deployments /\ status'[d] = status[d]
    BY <1>1 DEF BarrierKept, TypeOK
  <1>7. BarrierKept'
    BY <1>1, <1>6 DEF BarrierKept, RunKept, Past, Resuming
  <1>8. OnlyRunInFlight'
    BY <1>1 DEF OnlyRunInFlight, RunKept, InFlight, Stages
  <1>9. \A d \in accepted : d \in Deployments /\ status'[d] = status[d]
    BY <1>1 DEF Requested, TypeOK
  <1>10. CancelKept'
    BY <1>1, <1>9 DEF CancelKept, AcceptedCancelRecorded, RunKept
  <1> QED
    BY <1>2, <1>4, <1>5, <1>7, <1>8, <1>10, RequestFrame

LEMMA AdmitDeploymentKept ==
    ASSUME RunInv, NEW d \in Deployments, AdmitDeployment(d)
    PROVE  RunInv'
  <1>1. /\ trigger[d].at = "no" /\ status' = status
        /\ RunKept /\ job' = job /\ cancel' = cancel /\ accepted' = accepted
        /\ aborts' = aborts
    BY DEF AdmitDeployment, RunKept, remote, bounds
  <1>2. TypeOK /\ Requested
    BY DEF RunInv
  <1>3. /\ trigger' \in [Deployments -> TriggerState]
        /\ trigger'[d].at = "admitted"
        /\ \A e \in Deployments \ {d} : trigger'[e] = trigger[e]
    BY <1>2 DEF AdmitDeployment, TypeOK, TriggerState
  <1>4. TypeOK'
    BY <1>1, <1>2, <1>3 DEF TypeOK, RunKept
  <1>5. Requested'
    BY <1>1, <1>2, <1>3 DEF Requested, RunKept
  <1> QED
    BY <1>1, <1>2, <1>4, <1>5, RowsClosed DEF RunInv, TypeOK

LEMMA CreateDeploymentKept ==
    ASSUME RunInv, NEW d \in Deployments, CreateDeployment(d)
    PROVE  RunInv'
  <1>1. /\ trigger[d].at = "admitted" /\ status' = [status EXCEPT ![d] = "queued"]
        /\ RunKept /\ job' = job /\ cancel' = cancel /\ accepted' = accepted
        /\ aborts' = aborts
    BY DEF CreateDeployment, RunKept, remote, bounds
  <1>2. TypeOK /\ Requested
    BY DEF RunInv
  <1>3. /\ trigger' \in [Deployments -> TriggerState]
        /\ trigger'[d].at \in {"created", "enqueue"}
        /\ \A e \in Deployments \ {d} : trigger'[e] = trigger[e]
    BY <1>2 DEF CreateDeployment, TypeOK, TriggerState
  <1>4. /\ status' \in [Deployments -> Status]
        /\ status[d] = "absent" /\ status'[d] = "queued"
        /\ \A e \in Deployments \ {d} : status'[e] = status[e]
    BY <1>1, <1>2 DEF TypeOK, Status, Requested
  <1>5. TypeOK'
    BY <1>1, <1>2, <1>3, <1>4 DEF TypeOK, RunKept
  <1>6. Requested'
    BY <1>1, <1>2, <1>3, <1>4 DEF Requested, RunKept, Unstarted
  <1> QED
    BY <1>1, <1>4, <1>5, <1>6, RowsClosed DEF RunInv

LEMMA SupersedeKept ==
    ASSUME RunInv, NEW d \in Deployments, SupersedeQueuedDeployments(d)
    PROVE  RunInv'
  <1>1. /\ trigger[d].at = "created"
        /\ RunKept /\ job' = job /\ cancel' = cancel /\ accepted' = accepted
        /\ aborts' = aborts
    BY DEF SupersedeQueuedDeployments, RunKept, remote, bounds
  <1>2. TypeOK /\ Requested
    BY DEF RunInv
  <1>3. /\ trigger' \in [Deployments -> TriggerState]
        /\ trigger'[d].at = "coalesce"
        /\ \A e \in Deployments \ {d} : trigger'[e] = trigger[e]
    BY <1>2 DEF SupersedeQueuedDeployments, TypeOK, TriggerState
  <1>4. /\ status' \in [Deployments -> Status]
        /\ \A e \in Deployments :
              \/ status'[e] = status[e]
              \/ status[e] = "queued" /\ status'[e] = "superseded"
    BY <1>2 DEF SupersedeQueuedDeployments, TypeOK, Status, Terminal
  <1>5. TypeOK'
    BY <1>1, <1>2, <1>3, <1>4 DEF TypeOK, RunKept
  <1>6. Requested'
    BY <1>1, <1>2, <1>3, <1>4 DEF Requested, RunKept, Unstarted
  <1> QED
    BY <1>1, <1>4, <1>5, <1>6, RowsClosed DEF RunInv

LEMMA TriggerAbortsKept ==
    ASSUME RunInv, NEW d \in Deployments, TriggerAborts(d)
    PROVE  RunInv'
  <1>1. /\ trigger[d].at \notin {"no", "admitted"} /\ aborts' = aborts + 1
        /\ RunKept /\ job' = job /\ cancel' = cancel /\ accepted' = accepted
        /\ status' = status
    BY DEF TriggerAborts, RunKept, remote
  <1>2. TypeOK /\ Requested
    BY DEF RunInv
  <1>3. /\ trigger' \in [Deployments -> TriggerState]
        /\ trigger'[d].at = "done"
        /\ \A e \in Deployments \ {d} : trigger'[e] = trigger[e]
    BY <1>2 DEF TriggerAborts, TypeOK, TriggerState
  <1>4. TypeOK'
    BY <1>1, <1>2, <1>3 DEF TypeOK, RunKept
  <1>5. Requested'
    BY <1>1, <1>2, <1>3 DEF Requested, RunKept
  <1> QED
    BY <1>1, <1>2, <1>4, <1>5, RowsClosed DEF RunInv, TypeOK

LEMMA CancelReadKept ==
    ASSUME RunInv, NEW d \in Deployments, CancelRead(d)
    PROVE  RunInv'
  <1>1. /\ status[d] # "absent" /\ cancel' = [cancel EXCEPT ![d] = "read"]
        /\ cancel[d] = "no"
        /\ RunKept /\ job' = job /\ trigger' = trigger /\ accepted' = accepted
        /\ status' = status /\ aborts' = aborts
    BY DEF CancelRead, RunKept, remote, bounds
  <1>2. TypeOK /\ Requested
    BY DEF RunInv
  <1>3. TypeOK'
    BY <1>1, <1>2 DEF TypeOK, RunKept
  <1>4. Requested'
    BY <1>1, <1>2 DEF Requested, RunKept, TypeOK
  <1> QED
    BY <1>1, <1>2, <1>3, <1>4, RowsClosed DEF RunInv, TypeOK

LEMMA CancelQueuedKept ==
    ASSUME RunInv, NEW d \in Deployments, CancelQueuedDeployment(d)
    PROVE  RunInv'
  <1>1. /\ cancel[d] = "read" /\ cancel' = [cancel EXCEPT ![d] = "flag"]
        /\ RunKept /\ job' = job /\ trigger' = trigger /\ accepted' = accepted
        /\ aborts' = aborts
    BY DEF CancelQueuedDeployment, RunKept, remote, bounds
  <1>2. TypeOK /\ Requested
    BY DEF RunInv
  <1>3. /\ status' \in [Deployments -> Status] /\ status'[d] # "queued"
        /\ \A e \in Deployments :
              \/ status'[e] = status[e]
              \/ status[e] = "queued" /\ status'[e] = "cancelled"
    BY <1>2 DEF CancelQueuedDeployment, TypeOK, Status, Terminal
  <1>4. TypeOK'
    BY <1>1, <1>2, <1>3 DEF TypeOK, RunKept
  <1>5. Requested'
    BY <1>1, <1>2, <1>3 DEF Requested, RunKept, TypeOK, Unstarted
  <1> QED
    BY <1>1, <1>3, <1>4, <1>5, RowsClosed DEF RunInv

\* A request that touches only jobs: how it may change them.
LEMMA JobsTouched ==
    ASSUME RunInv, RunKept, status' = status,
           job' \in [Deployments -> JobState],
           \A e \in Deployments :
              /\ job[e].cancel => job'[e].cancel
              /\ \/ job'[e].status = job[e].status
                 \/ job[e].status = "queued" /\ job'[e].status = "cancelled"
                 \/ /\ job[e].status = "none" /\ job'[e].status = "queued"
                    /\ status[e] # "absent"
    PROVE  /\ OneRun' /\ OnCourse' /\ StatusKept' /\ FirstRun' /\ BarrierKept'
           /\ OnlyRunInFlight' /\ OwnContainer' /\ Serving'
  <1>1. /\ TypeOK /\ OneRun /\ Requested /\ StatusKept /\ FirstRun /\ BarrierKept
        /\ OnlyRunInFlight
    BY DEF RunInv
  <1>2. run.dep # None => run.dep \in Deployments /\ job[run.dep].status = "active"
    BY RunTyped
  <1>3. OneRun'
    BY <1>1, <1>2 DEF OneRun, RunKept
  <1>4. StatusKept' /\ OnlyRunInFlight'
    BY <1>1 DEF StatusKept, OnlyRunInFlight, RunKept
  <1>5. FirstRun'
    BY <1>1 DEF FirstRun, RunKept, Requested, Pending
  <1>6. BarrierKept'
    <2> SUFFICES ASSUME NEW d \in barred'
                 PROVE  BarrierKept!(d)'
      BY DEF BarrierKept
    <2>1. /\ d \in barred /\ d \in Deployments /\ job[d].status # "none"
          /\ job'[d].status \in Resumable => job[d].status \in Resumable
      BY <1>1 DEF RunKept, TypeOK, Requested, Resumable
    <2> QED
      BY <1>1, <2>1 DEF BarrierKept, RunKept, Past, Resuming
  <1> QED
    BY <1>3, <1>4, <1>5, <1>6, RequestFrame

LEMMA CancelJobsKept ==
    ASSUME RunInv, NEW d \in Deployments, CancelJobsForDeployments(d)
    PROVE  RunInv'
  <1>1. /\ trigger[d].at = "coalesce"
        /\ RunKept /\ status' = status /\ cancel' = cancel /\ accepted' = accepted
        /\ aborts' = aborts
    BY DEF CancelJobsForDeployments, RunKept, remote, bounds
  <1>2. TypeOK /\ Requested /\ CancelKept
    BY DEF RunInv
  <1>3. /\ trigger' \in [Deployments -> TriggerState]
        /\ trigger'[d].at = "enqueue"
        /\ \A e \in Deployments \ {d} : trigger'[e] = trigger[e]
    BY <1>2 DEF CancelJobsForDeployments, TypeOK, TriggerState
  <1>4. /\ job' \in [Deployments -> JobState]
        /\ \A e \in Deployments :
              /\ job'[e].cancel = job[e].cancel
              /\ \/ job'[e].status = job[e].status
                 \/ job[e].status = "queued" /\ job'[e].status = "cancelled"
    BY <1>2 DEF CancelJobsForDeployments, TypeOK, JobState, JobStatus
  <1>5. TypeOK'
    BY <1>1, <1>2, <1>3, <1>4 DEF TypeOK, RunKept
  <1>6. Requested'
    BY <1>1, <1>2, <1>3, <1>4 DEF Requested, RunKept
  <1>7. CancelKept'
    BY <1>1, <1>2, <1>4 DEF CancelKept, AcceptedCancelRecorded, RunKept, TypeOK
  <1> QED
    BY <1>1, <1>4, <1>5, <1>6, <1>7, JobsTouched DEF RunInv

LEMMA EnqueueRunKept ==
    ASSUME RunInv, NEW d \in Deployments, EnqueueRun(d)
    PROVE  RunInv'
  <1>1. /\ trigger[d].at = "enqueue"
        /\ RunKept /\ status' = status /\ cancel' = cancel /\ accepted' = accepted
        /\ aborts' = aborts
    BY DEF EnqueueRun, RunKept, remote, bounds
  <1>2. TypeOK /\ Requested /\ CancelKept
    BY DEF RunInv
  <1>3. /\ trigger' \in [Deployments -> TriggerState]
        /\ trigger'[d].at = "done"
        /\ \A e \in Deployments \ {d} : trigger'[e] = trigger[e]
    BY <1>2 DEF EnqueueRun, TypeOK, TriggerState
  <1>4. job[d].status = "none" /\ status[d] # "absent"
    BY <1>1, <1>2 DEF Requested
  <1>5. /\ job' \in [Deployments -> JobState]
        /\ job'[d].status = "queued" /\ job'[d].cancel = job[d].cancel
        /\ \A e \in Deployments \ {d} : job'[e] = job[e]
    BY <1>2 DEF EnqueueRun, TypeOK, JobState, JobStatus
  <1>6. TypeOK'
    BY <1>1, <1>2, <1>3, <1>5 DEF TypeOK, RunKept
  <1>7. Requested'
    BY <1>1, <1>2, <1>3, <1>4, <1>5 DEF Requested, RunKept
  <1>8. CancelKept'
    BY <1>1, <1>2, <1>5 DEF CancelKept, AcceptedCancelRecorded, RunKept, TypeOK
  <1> QED
    BY <1>1, <1>4, <1>5, <1>6, <1>7, <1>8, JobsTouched DEF RunInv

\* The job of a deployment in flight is active, and so it is flagged.
LEMMA RequestJobCancelKept ==
    ASSUME RunInv, NEW d \in Deployments, RequestDeploymentJobCancel(d)
    PROVE  RunInv'
  <1>1. /\ cancel[d] = "flag" /\ cancel' = [cancel EXCEPT ![d] = "done"]
        /\ accepted' = accepted \cup {d}
        /\ RunKept /\ status' = status /\ trigger' = trigger /\ aborts' = aborts
    BY DEF RequestDeploymentJobCancel, RunKept, remote, bounds
  <1>2. /\ TypeOK /\ Requested /\ CancelKept /\ OnlyRunInFlight /\ OneRun
    BY DEF RunInv
  <1>3. /\ job' \in [Deployments -> JobState]
        /\ \A e \in Deployments :
              /\ job'[e].status = job[e].status
              /\ job[e].cancel => job'[e].cancel
        /\ job[d].status = "active" => job'[d].cancel
    BY <1>2 DEF RequestDeploymentJobCancel, CancelSeesJob, TypeOK, JobState, JobStatus
  <1>4. TypeOK'
    BY <1>1, <1>2, <1>3 DEF TypeOK, RunKept
  <1>5. Requested'
    BY <1>1, <1>2, <1>3 DEF Requested, RunKept, TypeOK
  <1>6. CancelKept'
    <2>1. status[d] \in InFlight \cup Terminal
      BY <1>1, <1>2 DEF Requested, TypeOK, Status
    <2>2. crashes = 0 /\ ~StoreFaults /\ status[d] \in InFlight => job'[d].cancel
      BY <1>2, <1>3, DeploymentAssumption DEF OnlyRunInFlight, OneRun
    <2> QED
      BY <1>1, <1>2, <1>3, <2>1, <2>2
         DEF CancelKept, AcceptedCancelRecorded, RunKept, TypeOK
  <1> QED
    BY <1>1, <1>3, <1>4, <1>5, <1>6, JobsTouched DEF RunInv

-----------------------------------------------------------------------------
(* The invariant.                                                          *)

LEMMA InitKept ==
    ASSUME Init
    PROVE  RunInv
  <1>1. TypeOK
    BY DEF Init, TypeOK, Status, JobState, JobStatus, TriggerState, RunState, Idle,
           Steps, Stages, Terminal, Box, Endpoint, Container, Absent, ByName
  <1>2. OneRun /\ OnCourse /\ StatusKept /\ OwnContainer
    BY DEF Init, OneRun, OnCourse, StatusKept, OwnContainer, Idle
  <1>3. Requested /\ BarrierKept
    BY DEF Init, Requested, BarrierKept, Unstarted
  <1>4. FirstRun /\ OnlyRunInFlight /\ CancelKept
    BY DEF Init, FirstRun, OnlyRunInFlight, CancelKept, AcceptedCancelRecorded,
           InFlight, Stages, Idle
  <1>5. Serving
    BY DEF Init, Serving, Idle, Container
  <1> QED
    BY <1>1, <1>2, <1>3, <1>4, <1>5 DEF RunInv

LEMMA RunStepKept ==
    ASSUME RunInv, RunStep
    PROVE  RunInv'
  BY LoadKept, LoadFailsKept, CheckpointKept, SetStatusKept, SetStatusFailsKept,
     StepFailsKept, ConnectKept, ResumeKept, PrepareKept, BuildKept,
     StopThenStartKept, ClearKept, StartCandidateKept, StartFailsKept,
     HealthyKept, PostDeploymentHookKept, BeginSwitchKept, RouteToCandidateKept,
     StopOldKept, RemoveOldKept, RenameKept, RenameFailsKept, RouteToNameKept,
     FinishKept, CompensateKept, VerdictKept, AcknowledgeKept
     DEF RunStep

LEMMA RequestKept ==
    ASSUME RunInv, NEW d \in Deployments, QueueStep(d) \/ RequestStep(d)
    PROVE  RunInv'
  BY DequeueRunKept, RequeuedKept, AdmitDeploymentKept, CreateDeploymentKept, SupersedeKept,
     CancelJobsKept, EnqueueRunKept, TriggerAbortsKept, CancelReadKept,
     CancelQueuedKept, RequestJobCancelKept
     DEF QueueStep, RequestStep, TriggerStep, CancelStep

LEMMA StutterKept ==
    ASSUME RunInv, UNCHANGED vars
    PROVE  RunInv'
  <1>1. RunKept /\ status' = status /\ job' = job
    BY DEF vars, RunKept
  <1>2. TypeOK /\ Requested /\ CancelKept
    BY DEF RunInv
  <1>3. TypeOK' /\ Requested'
    BY <1>2 DEF vars, TypeOK, Requested
  <1> QED
    BY <1>1, <1>2, <1>3, RowsClosed DEF RunInv, TypeOK, vars

LEMMA NextKept ==
    ASSUME RunInv, [Next]_vars
    PROVE  RunInv'
  BY RunStepKept, CrashKept, RequestKept, StutterKept DEF Next

\* The invariant of the pipeline, from which the other theorems follow; its
\* parts say themselves which failures they exclude.
THEOREM RunInvariant == Spec => []RunInv
  <1>1. Init => RunInv
    BY InitKept
  <1>2. RunInv /\ [Next]_vars => RunInv'
    BY NextKept
  <1> QED
    BY <1>1, <1>2, PTL DEF Spec

\* Rows, jobs, requests, the run, containers and the route keep their types.
THEOREM TypeCorrect == Spec => []TypeOK
  <1>1. RunInv => TypeOK
    BY DEF RunInv
  <1> QED
    BY <1>1, RunInvariant, PTL

\* Unless a verdict was lost, and until a worker dies, a single deployment of
\* the application is in flight (deployment-engine 3.1): the lock key orders the
\* runs, and none ends before its row does.
THEOREM SingleActive ==
    ASSUME ~StoreFaults
    PROVE  Spec => [](crashes = 0 => SingleActiveDeployment)
  <1>1. RunInv => (crashes = 0 => SingleActiveDeployment)
    <2> SUFFICES ASSUME RunInv, crashes = 0
                 PROVE  SingleActiveDeployment
      OBVIOUS
    <2> DEFINE S == {d \in Deployments : status[d] \in InFlight}
    <2>1. S \subseteq {run.dep}
      BY DEF RunInv, OnlyRunInFlight
    <2>2. IsFiniteSet({run.dep}) /\ Cardinality({run.dep}) = 1
      BY FS_Singleton
    <2>3. Cardinality(S) <= Cardinality({run.dep})
      BY <2>1, <2>2, FS_Subset
    <2> QED
      BY <2>1, <2>2, <2>3, FS_Subset, FS_CardinalityType DEF SingleActiveDeployment
  <1> QED
    BY <1>1, RunInvariant, PTL

\* A rolling deployment whose remote calls succeed keeps the application routed
\* to a running container at every step of the switch (INV-005), until a worker
\* dies; statements and requests may fail.
THEOREM RollingServes ==
    ASSUME ~SwitchFaults
    PROVE  Spec => [](crashes = 0 => KeepsServing)
  <1>1. RunInv => (crashes = 0 => KeepsServing)
    <2> SUFFICES ASSUME RunInv, crashes = 0, \A d \in Deployments : Rolling[d]
                 PROVE  Target.up
      BY DEF KeepsServing
    <2>1. TypeOK /\ OneRun /\ OwnContainer /\ Serving
      BY DEF RunInv
    <2>2. CASE run.at \in {"stop_old", "rm_old", "rename"}
      <3>1. run.dep # None /\ run.dep \in Deployments
        BY <2>1, <2>2 DEF OneRun, Idle, TypeOK, RunState
      <3>2. next.dep = run.dep /\ next.up /\ route = AddressOf(next)
        BY <2>1, <2>2, <3>1 DEF OwnContainer, Serving
      <3>3. app.dep # run.dep
        BY <2>1, <2>2, <3>1 DEF Serving
      <3>4. route.by = "ip" /\ AddressOf(app) # route
        BY <3>2, <3>3 DEF AddressOf
      <3> QED
        BY <3>2, <3>4 DEF Target
    <2>3. CASE run.at = "route_name"
      <3>1. app.up /\ route = AddressOf(app)
        BY <2>1, <2>3 DEF Serving
      <3> QED
        BY <3>1 DEF Target, AddressOf
    <2>4. CASE run.at \notin {"stop_old", "rm_old", "rename", "route_name"}
      <3>1. app.up /\ route = ByName
        BY <2>1, <2>4 DEF Serving
      <3> QED
        BY <3>1 DEF Target, ByName
    <2> QED
      BY <2>2, <2>3, <2>4
  <1> QED
    BY <1>1, RunInvariant, PTL

\* Whatever fails, a deployment that entered switching is not cancelled, until a
\* worker dies.
THEOREM BarrierIsKept == Spec => [](crashes = 0 => BarrierHolds)
  <1>1. RunInv => (crashes = 0 => BarrierHolds)
    BY DEF RunInv, BarrierKept, BarrierHolds
  <1> QED
    BY <1>1, RunInvariant, PTL

\* Unless a verdict was lost, and until a worker dies, a cancellation that was
\* answered 202 is recorded on the job of a deployment that is not terminal.
THEOREM CancelIsRecorded ==
    ASSUME ~StoreFaults
    PROVE  Spec => [](crashes = 0 => AcceptedCancelRecorded)
  <1>1. RunInv => (crashes = 0 => AcceptedCancelRecorded)
    BY DEF RunInv, CancelKept
  <1> QED
    BY <1>1, RunInvariant, PTL

-----------------------------------------------------------------------------
(* What a step may never do.                                               *)

LEMMA CrashesBounded == Spec => [](crashes <= MaxCrashes)
  <1> DEFINE Bounded == crashes <= MaxCrashes
  <1>1. Init => Bounded
    BY DeploymentAssumption DEF Init
  <1>2. RunInv /\ Bounded /\ [Next]_vars => Bounded'
    <2> SUFFICES ASSUME RunInv, Bounded, [Next]_vars
                 PROVE  Bounded'
      OBVIOUS
    <2>1. crashes \in Nat
      BY DEF RunInv, TypeOK
    <2>2. CASE Crash
      BY <2>1, <2>2, DeploymentAssumption DEF Crash
    <2>3. CASE ~Crash
      <3>1. crashes' = crashes
        BY <2>3 DEF Next, RunStep, QueueStep, RequestStep, TriggerStep, CancelStep, vars,
           Load, LoadFails, Checkpoint, SetStatus, SetStatusFails, StepFails, Connect,
           Resume, Prepare, Build, StopThenStart, Clear, StartCandidate, StartFails,
           Healthy, PostDeploymentHook, BeginSwitch, RouteToCandidate, StopOld,
           RemoveOld, Rename, RenameFails, RouteToName, Finish, Compensate, Verdict,
           Acknowledge, DequeueRun, ReapRun, PromoteRun, AdmitDeployment, CreateDeployment,
           SupersedeQueuedDeployments, CancelJobsForDeployments, EnqueueRun,
           TriggerAborts, CancelRead, CancelQueuedDeployment,
           RequestDeploymentJobCancel, bounds
      <3> QED
        BY <3>1
    <2> QED
      BY <2>2, <2>3
  <1> QED
    BY <1>1, <1>2, RunInvariant, PTL DEF Spec

\* Only these steps write a row, and a run writes only its own.
LEMMA RowMoves ==
    ASSUME RunInv, [Next]_vars, NEW d \in Deployments, status'[d] # status[d]
    PROVE  \/ status[d] = "absent" /\ status'[d] = "queued"
           \/ status[d] = "queued" /\ status'[d] \in {"cancelled", "superseded"}
           \/ run.dep = d /\ (SetStatus \/ Finish \/ Verdict)
  <1>1. TypeOK /\ Requested
    BY DEF RunInv
  <1>2. CASE SetStatus \/ Finish \/ Verdict
    BY <1>1, <1>2 DEF SetStatus, Finish, Verdict, TypeOK, dep
  <1>3. ASSUME NEW e \in Deployments,
               \/ CreateDeployment(e) \/ SupersedeQueuedDeployments(e)
               \/ CancelQueuedDeployment(e)
        PROVE  \/ status[d] = "absent" /\ status'[d] = "queued"
               \/ status[d] = "queued" /\ status'[d] \in {"cancelled", "superseded"}
    BY <1>1, <1>3 DEF CreateDeployment, SupersedeQueuedDeployments,
                      CancelQueuedDeployment, TypeOK, Requested
  <1>4. CASE /\ ~(SetStatus \/ Finish \/ Verdict)
             /\ ~\E e \in Deployments : \/ CreateDeployment(e)
                                        \/ SupersedeQueuedDeployments(e)
                                        \/ CancelQueuedDeployment(e)
    <2>1. status' = status
      BY <1>4 DEF Next, RunStep, QueueStep, RequestStep, TriggerStep, CancelStep, vars,
         Load, LoadFails, Checkpoint, SetStatusFails, StepFails, Connect,
         Resume, Prepare, Build, StopThenStart, Clear, StartCandidate, StartFails,
         Healthy, PostDeploymentHook, BeginSwitch, RouteToCandidate, StopOld,
         RemoveOld, Rename, RenameFails, RouteToName, Compensate, Acknowledge, Crash,
         DequeueRun, ReapRun, PromoteRun, AdmitDeployment, CancelJobsForDeployments, EnqueueRun,
         TriggerAborts, CancelRead, RequestDeploymentJobCancel
    <2> QED
      BY <2>1
  <1> QED
    BY <1>2, <1>3, <1>4

\* Unless a statement of the run fails, a terminal status is final, however often
\* workers die, although all the writes of a run but one are unconditional; only
\* superseded may become cancelled.
THEOREM TerminalStays ==
    ASSUME ~StoreFaults
    PROVE  Spec => TerminalIsFinal
  <1> DEFINE Final ==
        \A d \in Deployments :
          status[d] \in Terminal
          => \/ status'[d] = status[d]
             \/ status[d] = "superseded" /\ status'[d] = "cancelled"
  <1>1. RunInv /\ [Next]_vars => [Final]_status
    <2> SUFFICES ASSUME RunInv, [Next]_vars, NEW d \in Deployments,
                        status[d] \in Terminal, status'[d] # status[d]
                 PROVE  status[d] = "superseded" /\ status'[d] = "cancelled"
      BY DEF Final
    <2>1. run.dep = d /\ (SetStatus \/ Finish \/ Verdict)
      BY RowMoves DEF Terminal
    <2>2. d # None
      BY DeploymentAssumption
    <2>3. TypeOK /\ OnCourse /\ StatusKept
      BY DEF RunInv
    <2>4. CASE SetStatus
      <3>1. run.at = "enter" /\ (run.stage = "preparing" /\ run.loaded = "queued" => status[d] = "queued")
        BY <2>1, <2>4 DEF SetStatus, At, dep
      <3> QED
        BY <2>1, <2>2, <2>3, <3>1 DEF StatusKept, InFlight, Stages, Terminal
    <2>5. CASE Finish
      BY <2>1, <2>2, <2>3, <2>5 DEF Finish, At, StatusKept, InFlight, Stages, Terminal
    <2>6. CASE Verdict
      <3>1. run.at = "verdict" /\ status'[d] = run.verdict
        BY <2>1, <2>3, <2>6 DEF Verdict, At, TypeOK, dep
      <3> QED
        BY <2>1, <2>2, <2>3, <3>1 DEF StatusKept, InFlight, Stages, Terminal, Pending, Unstarted
    <2> QED
      BY <2>1, <2>4, <2>5, <2>6
  <1> QED
    BY <1>1, RunInvariant, PTL DEF Spec, TerminalIsFinal

\* While no worker dies, whatever else fails, a deployment is declared succeeded
\* only if its own container runs under the application's name and is routed.
THEOREM SucceedsWithOwn ==
    ASSUME MaxCrashes = 0
    PROVE  Spec => SucceededRunsOwn
  <1> DEFINE Own ==
        \A d \in Deployments :
          status'[d] = "succeeded" /\ status[d] # "succeeded"
          => app.dep = d /\ app.up /\ route = ByName
  <1>1. RunInv /\ crashes <= MaxCrashes /\ [Next]_vars => [Own]_vars
    <2> SUFFICES ASSUME RunInv, crashes <= MaxCrashes, [Next]_vars, NEW d \in Deployments,
                        status'[d] = "succeeded", status[d] # "succeeded"
                 PROVE  app.dep = d /\ app.up /\ route = ByName
      BY DEF Own
    <2>1. TypeOK /\ OnCourse /\ OwnContainer /\ Requested
      BY DEF RunInv
    <2>2. crashes = 0
      BY <2>1 DEF TypeOK
    <2>3. run.dep = d /\ (SetStatus \/ Finish \/ Verdict)
      BY RowMoves
    <2>4. run.dep # None
      BY <2>3, DeploymentAssumption
    <2>5. ~SetStatus
      BY <2>1, <2>3 DEF SetStatus, TypeOK, RunState, Stages, dep
    <2>6. ~Verdict
      BY <2>1, <2>3 DEF Verdict, TypeOK, OnCourse, dep
    <2>7. run.at \in {"finish", "finishing"}
      BY <2>3, <2>5, <2>6 DEF Finish, At
    <2> QED
      BY <2>1, <2>2, <2>3, <2>4, <2>7 DEF OwnContainer
  <1> QED
    BY <1>1, RunInvariant, CrashesBounded, PTL DEF Spec, SucceededRunsOwn

\* Whatever fails and however often workers die, a deployment that entered
\* switching starts a candidate again only if two have died, the last one while
\* its row said preparing: resume never replays a switch it can see in the row.
THEOREM ReplaysOnlyErased == Spec => []ReplayNeedsErasure
  <1>1. RunInv => ReplayNeedsErasure
    <2> SUFFICES ASSUME RunInv, NEW d \in barred, run.at = "create", run.dep = d
                 PROVE  d \in erased /\ crashes >= 2
      BY DEF ReplayNeedsErasure, At
    <2>1. BarrierKept /\ ~Past /\ ~Resuming
      BY DEF RunInv, Past, Resuming
    <2> QED
      BY <2>1 DEF BarrierKept
  <1> QED
    BY <1>1, RunInvariant, PTL

=============================================================================
