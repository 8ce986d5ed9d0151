----------------------------- MODULE Scheduler ------------------------------
(***************************************************************************)
(* The election of the scheduler (internal/scheduler/scheduler.go, Run and *)
(* tryLead): replicas compete for a PostgreSQL advisory lock that lives as *)
(* long as the database session that took it.  What a leader does between  *)
(* its election and its end is in the modules that extend this one: a      *)
(* replica is working while its pass is not over.                          *)
(*                                                                         *)
(* A leader never uses its lock connection again until it unlocks, so the  *)
(* end of the session on the server's side need not be known to the        *)
(* client: conn.IsClosed() then answers for what the client has seen.      *)
(***************************************************************************)
EXTENDS Naturals, FiniteSets

CONSTANTS
    Replicas,    \* processes that run the scheduler
    None,
    MaxTrouble   \* bound: processes that die, lock sessions that end on the
                 \* server's side and statements that fail, together

ASSUME SchedulerAssumption ==
    /\ None \notin Replicas
    /\ MaxTrouble \in Nat

VARIABLES
    lock,      \* the replica whose session holds the advisory lock
    role,      \* "down", "follower" or "leader"
    conn,      \* the lock connection, as its client knows it, or "lost"
    trouble    \* what has gone wrong so far

schedVars == <<lock, role, conn, trouble>>

SchedInit ==
    /\ lock = None
    /\ role = [p \in Replicas |-> "follower"]
    /\ conn = [p \in Replicas |-> "none"]
    /\ trouble = 0

\* One more thing goes wrong.
Trouble == trouble < MaxTrouble /\ trouble' = trouble + 1

\* tryLead: a connection of the pool takes the lock.
Elect(p) ==
    /\ role[p] = "follower" /\ lock = None
    /\ lock' = p
    /\ role' = [role EXCEPT ![p] = "leader"]
    /\ conn' = [conn EXCEPT ![p] = "open"]
    /\ UNCHANGED trouble

\* The database ends the session (a failover, an idle kill, a partition) and
\* with it the lock.
LoseSession(p) ==
    /\ lock = p /\ Trouble
    /\ lock' = None
    /\ conn' = [conn EXCEPT ![p] = "lost"]
    /\ UNCHANGED role

\* The driver learns that the connection is closed, if it ever does.
NoticeClosed(p) ==
    /\ conn[p] = "lost"
    /\ conn' = [conn EXCEPT ![p] = "closed"]
    /\ UNCHANGED <<lock, role, trouble>>

\* The cron branch of the leader's loop, between two passes: stepping down
\* unlocks and releases the connection.
StepDown(p) ==
    /\ role[p] = "leader" /\ conn[p] = "closed"
    /\ role' = [role EXCEPT ![p] = "follower"]
    /\ conn' = [conn EXCEPT ![p] = "none"]
    /\ UNCHANGED <<lock, trouble>>

\* The branches that go on to work.  Only the cron branch looks at the
\* connection; the maintenance branch does not.
MayCron(p) == role[p] = "leader" /\ conn[p] # "closed"
MayMaintain(p) == role[p] = "leader"

\* The process dies, or is told to stop, and its session ends with it.
Crash(p) ==
    /\ role[p] # "down" /\ Trouble
    /\ role' = [role EXCEPT ![p] = "down"]
    /\ conn' = [conn EXCEPT ![p] = "none"]
    /\ lock' = IF lock = p THEN None ELSE lock

Restart(p) ==
    /\ role[p] = "down"
    /\ role' = [role EXCEPT ![p] = "follower"]
    /\ UNCHANGED <<lock, conn, trouble>>

SchedTypeOK ==
    /\ lock \in Replicas \cup {None}
    /\ role \in [Replicas -> {"down", "follower", "leader"}]
    /\ conn \in [Replicas -> {"none", "open", "lost", "closed"}]
    /\ trouble \in 0 .. MaxTrouble

\* scheduler.go: the advisory lock elects a single active scheduler.
SingleLeader ==
    \A p, q \in Replicas : role[p] = "leader" /\ role[q] = "leader" => p = q

=============================================================================
