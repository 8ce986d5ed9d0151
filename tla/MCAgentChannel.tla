--------------------------- MODULE MCAgentChannel ---------------------------
(* Small instances of the command channel for TLC.                         *)
EXTENDS AgentChannel

CONSTANTS cmd, pull, logs

CommandAndPull == {cmd, pull}
OnlyPull == {pull}
OnlyLogs == {logs}
NoCalls == {}
OneChannel == {1}
TwoChannels == {1, 2}
=============================================================================
