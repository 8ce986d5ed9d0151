-------------------------- MODULE MCServerCleanup --------------------------
(* Small instances of the cleanup exclusion for TLC.                       *)
EXTENDS ServerCleanup

CONSTANTS s1, s2, d1, d2, j1, j2, j3

TwoServers == {s1, s2}
\* s2 deploys d2 and builds for both deployments.
BuildServers == {s2}
TwoDeployments == {d1, d2}
OneDeployment == {d1}
Targets == [d \in Deployments |-> IF d = d1 THEN s1 ELSE s2]
ThreeJobs == {j1, j2, j3}
=============================================================================
