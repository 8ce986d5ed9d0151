---------------------------- MODULE JobContract ----------------------------
(***************************************************************************)
(* What the job queue promises its producers, without leases, workers or   *)
(* clocks: a submitted job is run at most Budget times, never beside       *)
(* another job of the same lock key, and once done it stays done           *)
(* (INV-004, INV-013 of the product requirements).                         *)
(***************************************************************************)
EXTENDS Naturals

CONSTANTS
    Jobs,     \* identities of jobs
    LockKey,  \* LockKey[j]: what j must hold alone while it runs, or None
    Budget,   \* Budget[j]: how many times j may be started
    None

VARIABLES
    phase,  \* phase[j]: "none", "pending", "active" or "done"
    runs    \* runs[j]: how many times j was started

contractVars == <<phase, runs>>

ContractInit ==
    /\ phase = [j \in Jobs |-> "none"]
    /\ runs = [j \in Jobs |-> 0]

Move(S, p) == [j \in Jobs |-> IF j \in S THEN p ELSE phase[j]]

Submit(j) ==
    /\ phase[j] = "none"
    /\ phase' = Move({j}, "pending")
    /\ UNCHANGED runs

Start(j) ==
    /\ phase[j] = "pending"
    /\ runs[j] < Budget[j]
    /\ LockKey[j] # None =>
         \A k \in Jobs \ {j} : LockKey[k] = LockKey[j] => phase[k] # "active"
    /\ phase' = Move({j}, "active")
    /\ runs' = [runs EXCEPT ![j] = runs[j] + 1]

\* Jobs stop running, each of them finished or to be run again.
Stop(S) ==
    /\ \A j \in S : phase[j] = "active"
    /\ phase' \in [Jobs -> {"none", "pending", "active", "done"}]
    /\ \A j \in Jobs : IF j \in S THEN phase'[j] \in {"pending", "done"}
                                  ELSE phase'[j] = phase[j]
    /\ UNCHANGED runs

Withdraw(j) ==
    /\ phase[j] = "pending"
    /\ phase' = Move({j}, "done")
    /\ UNCHANGED runs

ContractNext ==
    \/ \E j \in Jobs : Submit(j) \/ Start(j) \/ Withdraw(j)
    \/ \E S \in SUBSET Jobs : Stop(S)

ContractSpec == ContractInit /\ [][ContractNext]_contractVars
=============================================================================
