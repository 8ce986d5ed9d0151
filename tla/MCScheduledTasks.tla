-------------------------- MODULE MCScheduledTasks --------------------------
(* Small instances of a scheduled task for TLC.                            *)
EXTENDS ScheduledTasks

CONSTANTS a, b

OneReplica == {a}
TwoExecs == {1, 2}
TwoPeriods == {1, 2}
NeverAndOne == {0, 1}
=============================================================================
