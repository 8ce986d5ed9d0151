-------------------------- MODULE MCDeploymentRun --------------------------
(* Small instances of the deployment pipeline for TLC.                     *)
EXTENDS DeploymentRun

CONSTANTS d1, d2

OneDeployment == {d1}
TwoDeployments == {d1, d2}

AllRolling == [d \in Deployments |-> TRUE]
D1StopThenStart == [d \in Deployments |-> d # d1]

AllPushes == [d \in Deployments |-> TRUE]
=============================================================================
