----------------------------- MODULE MCJobQueue -----------------------------
(* Small instances of the job queue for TLC.                               *)
EXTENDS JobQueue, TLC

CONSTANTS j1, j2, w1, w2, t1, t2, t3, app

OneJob == {j1}
TwoJobs == {j1, j2}
MCWorkers == {w1, w2}

\* Two goroutines of one process beside a second process.
SharedThreads == {t1, t2, t3}
SharedProc == t1 :> w1 @@ t2 :> w1 @@ t3 :> w2

\* One goroutine per process.
SingleThreads == {t1, t2}
SingleProc == t1 :> w1 @@ t2 :> w2

\* The jobs are jobs of one application and exclude each other.
SameLock == [j \in Jobs |-> app]

NoIdem == [j \in Jobs |-> None]

FlatPriority == [j \in Jobs |-> 0]

J1Twice == [j \in Jobs |-> IF j = j1 THEN 2 ELSE 1]
TwoAttempts == [j \in Jobs |-> 2]
=============================================================================
