----------------------------- MODULE MCTunnelMux ----------------------------
(* Small instances of a tunnel session for TLC.                            *)
EXTENDS TunnelMux

OneStream == {1}
TwoStreams == {1, 2}
Only(side, n) ==
    [s \in Sides |-> [k \in Streams |-> IF s = side /\ k = 1 THEN n ELSE 0]]
\* The first target answers with more than a queue holds.
Answer == Only("bridge", 2)
\* The first caller sends a request and nothing is answered.
Request == Only("origin", 1)
FirstCaller == {<<"origin", 1>>}
NobodyCloses == {}
OriginOnly == {"origin"}
NoData == Only("origin", 0)
=============================================================================
