-------------------------- MODULE MCNotifications ---------------------------
(* Small instances of the notification dispatcher for TLC.                 *)
EXTENDS Notifications

CONSTANTS a, b

OneReplica == {a}
TwoReplicas == {a, b}
TwoEvents == {1, 2}
\* Rule 1 sends at once, rule 2 is a digest rule.
BothRules == {1, 2}
DigestRule == {2}
RuleOne == {1}
SecondEvent == {2}
DigestHearsFirst == {<<1, 1>>, <<1, 2>>, <<2, 1>>}
=============================================================================
