------------------------- MODULE MCIdempotencyKeys -------------------------
(* Small instances of the idempotency keys for TLC.                        *)
EXTENDS IdempotencyKeys

CONSTANTS r1, r2, r3, r4, r5, a, b, k1, deploy, other, h1, h2

\* r1 and its retry r2, r3 with the same key and another body, r5 without
\* a key; r4 has the same key on another endpoint.
FourRequests == {r1, r2, r3, r5}
WithEndpoint == {r1, r2, r4}
OneRequest == {r1}

Keys == [r \in Requests |-> IF r = r5 THEN None ELSE k1]
Endpoints == [r \in Requests |-> IF r = r4 THEN other ELSE deploy]
Hashes == [r \in Requests |-> IF r = r3 THEN h2 ELSE h1]

OneApp == {a}
TwoApps == {a, b}
SingleTarget == [r \in Requests |-> {a}]
AllTargets == [r \in Requests |-> Apps]
Webhooks == {deploy}
=============================================================================
