--------------------------- MODULE IdempotencyKeys ---------------------------
(***************************************************************************)
(* What an Idempotency-Key guards: the HTTP middleware                     *)
(* (internal/httpapi/idempotency.go over db/queries/idempotency.sql), the  *)
(* deploy handlers behind it (internal/handlers/webhook.go and             *)
(* applications.go), and the second use of the same key by queue.Enqueue   *)
(* (the unique index on jobs.idempotency_key).                             *)
(*                                                                         *)
(* A request carries its key, endpoint and body hash as constants; a retry *)
(* is another request with the same ones.  One team is modelled.           *)
(***************************************************************************)
EXTENDS Naturals

CONSTANTS
    Requests,    \* HTTP requests, retries included
    Apps,        \* applications a request may deploy
    Key,         \* Key[r]: the Idempotency-Key header, or None
    Endpoint,    \* Endpoint[r]: method and path
    Hash,        \* Hash[r]: hash of the query and the body
    Targets,     \* Targets[r]: applications the request deploys
    Coalesced,   \* endpoints whose deployments carry the webhook trigger
    MaxPurges,   \* bound: daily purges of the keys
    None

ASSUME KeysAssumption ==
    /\ Targets \in [Requests -> SUBSET Apps]
    /\ \A r \in Requests : Targets[r] # {}
    /\ MaxPurges \in Nat
    /\ None \notin Requests

VARIABLES
    row,     \* idempotency_keys, one slot per (key, endpoint)
    dep,     \* deployments, named by the request and target that create them
    job,     \* jobs, named in the same way
    req,     \* the requests' goroutines
    purges   \* purges of a slot so far

vars == <<row, dep, job, req, purges>>

Slots == {<<Key[r], Endpoint[r]>> : r \in {q \in Requests : Key[q] # None}}
Slot(r) == <<Key[r], Endpoint[r]>>
Units == {u \in Requests \X Apps : u[2] \in Targets[u[1]]}

NoKeyRow == [owner |-> None, hash |-> None, answer |-> None]
NoAnswer == [kind |-> "none", of |-> None]
Answer(kind, r) == [kind |-> kind, of |-> r]

Init ==
    /\ row = [s \in Slots |-> NoKeyRow]
    /\ dep = [u \in Units |-> "absent"]
    /\ job = [u \in Units |-> "absent"]
    /\ req = [r \in Requests |-> [pc |-> "new", todo |-> Targets[r],
                                  at |-> None, answer |-> NoAnswer,
                                  gen |-> 0]]
    /\ purges = [s \in Slots |-> 0]

-----------------------------------------------------------------------------
(* The middleware.                                                         *)

Answered(r, kind, of) ==
    [req[r] EXCEPT !.pc = "answered", !.answer = Answer(kind, of)]

\* No key, or a method that is not intercepted.
PassThrough(r) ==
    /\ req[r].pc = "new" /\ Key[r] = None
    /\ req' = [req EXCEPT ![r].pc = "running"]
    /\ UNCHANGED <<row, dep, job, purges>>

\* ClaimIdempotencyKey inserts the row: this request owns the key.
ClaimNew(r) ==
    /\ req[r].pc = "new" /\ Key[r] # None
    /\ row[Slot(r)] = NoKeyRow
    /\ row' = [row EXCEPT ![Slot(r)] = [owner |-> r, hash |-> Hash[r],
                                        answer |-> None]]
    /\ req' = [req EXCEPT ![r].pc = "running",
                          ![r].gen = purges[Slot(r)]]
    /\ UNCHANGED <<dep, job, purges>>

\* Faulty variant of ClaimTaken: the hash of the request is not compared.
ClaimUncompared(r) ==
    LET k == row[Slot(r)] IN
    /\ req[r].pc = "new" /\ Key[r] # None
    /\ k # NoKeyRow
    /\ req' = [req EXCEPT ![r] = IF k.answer # None
                                 THEN Answered(r, "replayed", k.answer)
                                 ELSE Answered(r, "in_progress", None)]
    /\ UNCHANGED <<row, dep, job, purges>>

\* Faulty variant of ClaimTaken: a key without a response is taken over.
ClaimTakesOver(r) ==
    LET k == row[Slot(r)] IN
    /\ req[r].pc = "new" /\ Key[r] # None
    /\ k # NoKeyRow
    /\ IF k.hash = Hash[r] /\ k.answer = None
       THEN /\ req' = [req EXCEPT ![r].pc = "running",
                                  ![r].gen = purges[Slot(r)]]
            /\ row' = [row EXCEPT ![Slot(r)].owner = r]
       ELSE /\ req' = [req EXCEPT ![r] = Answered(r, "replayed", k.answer)]
            /\ UNCHANGED row
    /\ UNCHANGED <<dep, job, purges>>

\* ClaimIdempotencyKey finds a row: conflict, replay or "still in progress".
ClaimTaken(r) ==
    LET k == row[Slot(r)] IN
    /\ req[r].pc = "new" /\ Key[r] # None
    /\ k # NoKeyRow
    /\ req' = [req EXCEPT ![r] =
                 CASE k.hash # Hash[r]  -> Answered(r, "conflict", None)
                   [] k.hash = Hash[r] /\ k.answer # None
                                        -> Answered(r, "replayed", k.answer)
                   [] OTHER             -> Answered(r, "in_progress", None)]
    /\ UNCHANGED <<row, dep, job, purges>>

ClaimFails(r) ==
    /\ req[r].pc = "new" /\ Key[r] # None
    /\ req' = [req EXCEPT ![r] = Answered(r, "failed", None)]
    /\ UNCHANGED <<row, dep, job, purges>>

\* complete: the 2xx response, already written to the client, is kept for
\* the replays.  UPDATE ... WHERE id touches no row if the row was purged.
Complete(r) ==
    /\ req[r].pc = "completing"
    /\ req' = [req EXCEPT ![r].pc = "answered"]
    /\ row' = [s \in Slots |-> IF row[s].owner = r
                               THEN [row[s] EXCEPT !.answer = r] ELSE row[s]]
    /\ UNCHANGED <<dep, job, purges>>

\* The client has left and its context is cancelled, or the database is
\* away: the error of CompleteIdempotencyKey is ignored.
CompleteFails(r) ==
    /\ req[r].pc = "completing"
    /\ req' = [req EXCEPT ![r].pc = "answered"]
    /\ UNCHANGED <<row, dep, job, purges>>

\* PurgeIdempotencyKeys, a day later: no request runs for that long.
PurgeKeys(s) ==
    /\ row[s] # NoKeyRow
    /\ purges[s] < MaxPurges
    /\ req[row[s].owner].pc \in {"answered", "lost"}
    /\ row' = [row EXCEPT ![s] = NoKeyRow]
    /\ purges' = [purges EXCEPT ![s] = @ + 1]
    /\ UNCHANGED <<dep, job, req>>

-----------------------------------------------------------------------------
(* The handler: webhookDeploy or DeployApplication, one target at a time.  *)

\* The queued deployments of application a that a webhook supersedes.
Superseded(r, a) ==
    IF Endpoint[r] \in Coalesced
    THEN {u \in Units : /\ u[2] = a /\ dep[u] = "queued"
                        /\ Endpoint[u[1]] \in Coalesced}
    ELSE {}

\* CreateDeployment, SupersedeQueuedDeployments, CancelJobsForDeployments, in
\* one step: DeploymentRun takes them one by one.
CreateDeployment(r, a) ==
    /\ req[r].pc = "running" /\ a \in req[r].todo
    /\ dep' = [u \in Units |->
                 IF u = <<r, a>> THEN "queued"
                 ELSE IF u \in Superseded(r, a) THEN "superseded" ELSE dep[u]]
    /\ job' = [u \in Units |->
                 IF u \in Superseded(r, a) /\ job[u] = "queued"
                 THEN "cancelled" ELSE job[u]]
    /\ req' = [req EXCEPT ![r].pc = "enqueuing", ![r].at = a,
                          ![r].todo = @ \ {a}]
    /\ UNCHANGED <<row, purges>>

\* The unique index on jobs.idempotency_key, over all endpoints.
KeyOfAJob(r) ==
    /\ Key[r] # None
    /\ \E u \in Units : Key[u[1]] = Key[r] /\ job[u] # "absent"

\* Faulty variant of Enqueue: a row with the key is always found.
EnqueueFindsJob(r) ==
    /\ req[r].pc = "enqueuing"
    /\ req' = [req EXCEPT ![r].pc = "running"]
    /\ UNCHANGED <<row, dep, job, purges>>

\* queue.Enqueue: ON CONFLICT DO NOTHING, then the original job is returned.
Enqueue(r) ==
    /\ req[r].pc = "enqueuing"
    /\ job' = [job EXCEPT ![<<r, req[r].at>>] =
                 IF KeyOfAJob(r) THEN @ ELSE "queued"]
    /\ req' = [req EXCEPT ![r].pc = "running"]
    /\ UNCHANGED <<row, dep, purges>>

\* 202: the response is on the wire before the key is completed.
Accept(r) ==
    /\ req[r].pc = "running" /\ req[r].todo = {}
    /\ req' = [req EXCEPT ![r].answer = Answer("accepted", r),
                          ![r].pc = IF Key[r] = None THEN "answered"
                                    ELSE "completing"]
    /\ UNCHANGED <<row, dep, job, purges>>

\* An unknown target, a full queue (429), an error of the database.
Refuse(r) ==
    /\ req[r].pc \in {"running", "enqueuing"}
    /\ req' = [req EXCEPT ![r] = Answered(r, "failed", None)]
    /\ UNCHANGED <<row, dep, job, purges>>

\* The process dies.
Crash(r) ==
    /\ req[r].pc \in {"running", "enqueuing", "completing"}
    /\ req' = [req EXCEPT ![r].pc = "lost"]
    /\ UNCHANGED <<row, dep, job, purges>>

\* A worker executes the job of a deployment.
TakeJob(u) ==
    /\ job[u] = "queued"
    /\ job' = [job EXCEPT ![u] = "done"]
    /\ dep' = [dep EXCEPT ![u] = IF @ = "queued" THEN "done" ELSE @]
    /\ UNCHANGED <<row, req, purges>>

-----------------------------------------------------------------------------
RequestStep(r) ==
    \/ PassThrough(r) \/ ClaimNew(r) \/ ClaimTaken(r) \/ ClaimFails(r)
    \/ \E a \in Apps : CreateDeployment(r, a)
    \/ Enqueue(r) \/ Accept(r) \/ Refuse(r)
    \/ Complete(r) \/ CompleteFails(r) \/ Crash(r)

Next ==
    \/ \E r \in Requests : RequestStep(r)
    \/ \E s \in Slots : PurgeKeys(s)
    \/ \E u \in Units : TakeJob(u)

Spec == Init /\ [][Next]_vars

-----------------------------------------------------------------------------
(* Properties.                                                             *)

PCs == {"new", "running", "enqueuing", "completing", "answered", "lost"}
Kinds == {"none", "accepted", "replayed", "conflict", "in_progress", "failed"}

KeyRow == [owner : Requests \cup {None},
           hash : {Hash[r] : r \in Requests} \cup {None},
           answer : Requests \cup {None}]
AnswerState == [kind : Kinds, of : Requests \cup {None}]
ReqState == [pc : PCs, todo : SUBSET Apps, at : Apps \cup {None},
             answer : AnswerState, gen : 0 .. MaxPurges]

TypeOK ==
    /\ row \in [Slots -> KeyRow]
    /\ dep \in [Units -> {"absent", "queued", "superseded", "done"}]
    /\ job \in [Units -> {"absent", "queued", "cancelled", "done"}]
    /\ req \in [Requests -> ReqState]
    /\ purges \in [Slots -> 0 .. MaxPurges]

Executed(r) == \E a \in Targets[r] : dep[<<r, a>>] # "absent"

\* A CI that retries its call does not deploy twice: of the requests that
\* carry one key on one endpoint, between two purges of it, at most one runs
\* the handler - also when the first one failed, crashed, or was slow.
ExecutedOncePerKey ==
    \A r, q \in Requests :
        /\ r # q /\ Key[r] # None /\ Slot(r) = Slot(q)
        /\ Executed(r) /\ Executed(q)
        => req[r].gen # req[q].gen

\* What a retry is given instead of an execution is the answer to the same
\* request: the same body, accepted, and all of its deployments created.
ReplayIsOriginal ==
    \A r \in Requests : req[r].answer.kind = "replayed" =>
        LET o == req[r].answer.of IN
        /\ o \in Requests /\ Slot(o) = Slot(r) /\ Hash[o] = Hash[r]
        /\ req[o].answer.kind = "accepted"
        /\ \A a \in Targets[o] : dep[<<o, a>>] # "absent"

\* The key of r names one operation: one target, one endpoint, and the day
\* the key is kept is not over.
NamesOneOperation(r) ==
    /\ \E a \in Apps : Targets[r] = {a}
    /\ Key[r] # None =>
          /\ req[r].gen = 0
          /\ \A q \in Requests : Key[q] = Key[r] => Endpoint[q] = Endpoint[r]

\* Deployment u of an accepted request is waiting and nothing will run it.
Orphan(u) ==
    /\ req[u[1]].answer.kind = "accepted"
    /\ dep[u] = "queued" /\ job[u] # "queued"

\* A deployment that was accepted under such a key has a job to run it: the
\* key of the request cannot have been taken by a job already.
AcceptedHasOwnJob ==
    \A u \in Units : NamesOneOperation(u[1]) => ~Orphan(u)

InHandler == {"running", "enqueuing", "completing"}

\* A row belongs to a request that claimed it after the last purge; what is
\* replayed from it is that request's own accepted answer.
Owned(s) ==
    row[s] # NoKeyRow =>
        LET o == row[s].owner IN
        /\ o \in Requests /\ Key[o] # None /\ Slot(o) = s
        /\ row[s].hash = Hash[o]
        /\ req[o].pc # "new" /\ req[o].gen = purges[s]
        /\ row[s].answer # None =>
              row[s].answer = o /\ req[o].answer.kind = "accepted"

\* A request in its handler still owns its row; one that has executed owns it
\* or claimed it before the last purge.
HoldsClaim(r) ==
    Key[r] # None =>
        /\ req[r].pc \in InHandler => row[Slot(r)].owner = r
        /\ req[r].gen <= purges[Slot(r)]
        /\ Executed(r) => \/ row[Slot(r)].owner = r
                          \/ req[r].gen < purges[Slot(r)]

\* How far a request has come with its targets.
Progressed(r) ==
    /\ req[r].todo \subseteq Targets[r]
    /\ req[r].pc = "new" => req[r].todo = Targets[r]
    /\ req[r].pc = "enqueuing" => /\ req[r].at \in Targets[r] \ req[r].todo
                                  /\ job[<<r, req[r].at>>] = "absent"
    /\ req[r].pc = "completing" => req[r].answer.kind = "accepted"
    /\ req[r].answer.kind = "accepted" =>
          req[r].todo = {} /\ req[r].pc \notin {"new", "running", "enqueuing"}

\* That progress shows in the tables of deployments and of jobs.
Recorded(r, a) ==
    /\ a \in req[r].todo <=> dep[<<r, a>>] = "absent"
    /\ job[<<r, a>>] # "absent" => dep[<<r, a>>] # "absent"
    /\ job[<<r, a>>] \in {"cancelled", "done"} => dep[<<r, a>>] # "queued"

\* A key that names one operation still was free when its job was inserted.
JobInserted(r, a) ==
    /\ NamesOneOperation(r) /\ a \notin req[r].todo
    /\ req[r].pc = "running" \/ req[r].answer.kind = "accepted"
    => job[<<r, a>>] # "absent"

\* The inductive invariant: the middleware's rows, the handlers that own them
\* and the rows of deployments and jobs stay in step, through failures,
\* crashes and purges, so that the promises above hold together.
KeysInv ==
    /\ TypeOK
    /\ \A s \in Slots : Owned(s)
    /\ \A r \in Requests :
          /\ HoldsClaim(r) /\ Progressed(r)
          /\ \A a \in Targets[r] : Recorded(r, a) /\ JobInserted(r, a)
    /\ ExecutedOncePerKey /\ ReplayIsOriginal /\ AcceptedHasOwnJob

\* git-webhook-protocols.md: each accepted deployment has its job queued.
AcceptedHasJob == \A u \in Units : ~Orphan(u)

\* idempotency.go: when a retry is told that the operation is in progress,
\* the original request is still in flight.
InProgressMeansRunning ==
    [][\A r \in Requests :
          req[r].pc = "new" /\ req'[r].answer.kind = "in_progress" =>
          \E q \in Requests \ {r} :
              /\ Slot(q) = Slot(r)
              /\ req[q].pc \in {"running", "enqueuing", "completing"}]_vars

=============================================================================
