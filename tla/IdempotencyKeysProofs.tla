------------------------ MODULE IdempotencyKeysProofs ------------------------
(***************************************************************************)
(* Machine-checked proofs about the idempotency keys, for any number of    *)
(* requests, keys, endpoints, applications and purges.                     *)
(***************************************************************************)
EXTENDS IdempotencyKeys, TLAPS

\* A request with a key has a slot, and each of its targets a unit.
LEMMA InTables ==
    /\ \A r \in Requests : Key[r] # None => Slot(r) \in Slots
    /\ \A r \in Requests : \A a \in Targets[r] : <<r, a>> \in Units
    /\ \A u \in Units : \E r \in Requests : \E a \in Targets[r] : u = <<r, a>>
  BY KeysAssumption DEF Slots, Slot, Units

\* What the handlers assign to a request keeps its type.
LEMMA ReqTypes ==
    ASSUME NEW x \in ReqState, NEW p \in PCs
    PROVE  /\ [x EXCEPT !.pc = p] \in ReqState
           /\ \A n \in 0 .. MaxPurges :
                 [x EXCEPT !.pc = p, !.gen = n] \in ReqState
           /\ \A k \in Kinds, o \in Requests \cup {None} :
                 /\ [x EXCEPT !.pc = p, !.answer = Answer(k, o)] \in ReqState
                 /\ [x EXCEPT !.answer = Answer(k, o), !.pc = p] \in ReqState
           /\ \A a \in Apps :
                 [x EXCEPT !.pc = p, !.at = a, !.todo = @ \ {a}] \in ReqState
  BY DEF ReqState, Answer, AnswerState

\* What the statements on idempotency_keys write is a row.
LEMMA RowTypes ==
    ASSUME NEW k \in KeyRow, NEW r \in Requests
    PROVE  /\ NoKeyRow \in KeyRow
           /\ [owner |-> r, hash |-> Hash[r], answer |-> None] \in KeyRow
           /\ [k EXCEPT !.answer = r] \in KeyRow
  BY DEF KeyRow, NoKeyRow

\* Every step keeps the types.
LEMMA TypeStep == TypeOK /\ [Next]_vars => TypeOK'
  <1> SUFFICES ASSUME TypeOK, [Next]_vars PROVE TypeOK'
    OBVIOUS
  <1> USE InTables
  <1>1. ASSUME NEW r \in Requests, RequestStep(r) PROVE TypeOK'
    <2>0. req[r] \in ReqState
      BY DEF TypeOK
    <2>a. ASSUME NEW x \in ReqState, req' = [req EXCEPT ![r] = x]
          PROVE  req' \in [Requests -> ReqState]
      BY <2>a DEF TypeOK
    <2>b. ASSUME NEW k \in Kinds, NEW o \in Requests \cup {None}
          PROVE  Answered(r, k, o) \in ReqState
      BY <2>0, <2>b, ReqTypes, KeysAssumption DEF Answered, PCs
    <2>1. CASE PassThrough(r)
      BY <2>1, <2>0, <2>a, ReqTypes DEF PassThrough, TypeOK, PCs
    <2>2. CASE ClaimNew(r)
      <3>1. purges[Slot(r)] \in 0 .. MaxPurges
        BY <2>2 DEF ClaimNew, TypeOK
      <3>2. req' \in [Requests -> ReqState]
        <4> DEFINE x == [req[r] EXCEPT !.pc = "running",
                                       !.gen = purges[Slot(r)]]
        <4>1. req' = [req EXCEPT ![r] = x]
          BY <2>2, <2>0 DEF ClaimNew, TypeOK, ReqState
        <4>2. x \in ReqState
          BY <3>1, <2>0, ReqTypes DEF PCs
        <4> HIDE DEF x
        <4> QED
          BY <4>1, <4>2, <2>a
      <3> QED
        BY <2>2, <3>2, RowTypes DEF ClaimNew, TypeOK
    <2>3. CASE ClaimTaken(r)
      <3> DEFINE k == row[Slot(r)]
      <3>1. k.answer \in Requests \cup {None}
        BY <2>3 DEF ClaimTaken, TypeOK, KeyRow
      <3>2. PICK kind \in Kinds, o \in Requests \cup {None} :
               req' = [req EXCEPT ![r] = Answered(r, kind, o)]
        BY <2>3, <3>1 DEF ClaimTaken, Kinds
      <3> QED
        BY <2>3, <3>2, <2>a, <2>b DEF ClaimTaken, TypeOK
    <2>4. CASE ClaimFails(r)
      BY <2>4, <2>a, <2>b DEF ClaimFails, TypeOK, Kinds
    <2>5. CASE \E a \in Apps : CreateDeployment(r, a)
      <3>1. PICK a \in Apps : CreateDeployment(r, a)
        BY <2>5
      <3>2. req' \in [Requests -> ReqState]
        <4> DEFINE x == [req[r] EXCEPT !.pc = "enqueuing", !.at = a,
                                       !.todo = @ \ {a}]
        <4>1. req' = [req EXCEPT ![r] = x]
          BY <3>1, <2>0 DEF CreateDeployment, TypeOK, ReqState
        <4>2. x \in ReqState
          BY <2>0, ReqTypes DEF PCs
        <4> HIDE DEF x
        <4> QED
          BY <4>1, <4>2, <2>a
      <3> QED
        BY <3>1, <3>2 DEF CreateDeployment, TypeOK
    <2>6. CASE Enqueue(r)
      BY <2>6, <2>0, <2>a, ReqTypes DEF Enqueue, TypeOK, PCs
    <2>7. CASE Accept(r)
      BY <2>7, <2>0, <2>a, ReqTypes DEF Accept, TypeOK, PCs, Kinds
    <2>8. CASE Refuse(r)
      BY <2>8, <2>a, <2>b DEF Refuse, TypeOK, Kinds
    <2>9. CASE Complete(r)
      <3>1. req' \in [Requests -> ReqState]
        BY <2>9, <2>0, <2>a, ReqTypes DEF Complete, PCs
      <3> QED
        BY <2>9, <3>1, RowTypes DEF Complete, TypeOK
    <2>10. CASE CompleteFails(r)
      BY <2>10, <2>0, <2>a, ReqTypes DEF CompleteFails, TypeOK, PCs
    <2>11. CASE Crash(r)
      BY <2>11, <2>0, <2>a, ReqTypes DEF Crash, TypeOK, PCs
    <2> QED
      BY <1>1, <2>1, <2>2, <2>3, <2>4, <2>5, <2>6, <2>7, <2>8, <2>9, <2>10,
         <2>11 DEF RequestStep
  <1>2. ASSUME NEW s \in Slots, PurgeKeys(s) PROVE TypeOK'
    BY <1>2, KeysAssumption DEF PurgeKeys, TypeOK, NoKeyRow, KeyRow
  <1>3. ASSUME NEW u \in Units, TakeJob(u) PROVE TypeOK'
    BY <1>3 DEF TakeJob, TypeOK
  <1>4. CASE UNCHANGED vars
    BY <1>4 DEF vars, TypeOK
  <1> QED
    BY <1>1, <1>2, <1>3, <1>4 DEF Next

\* The conjuncts of KeysInv that the steps keep together.
Core ==
    /\ \A s \in Slots : Owned(s)
    /\ \A r \in Requests :
          /\ HoldsClaim(r) /\ Progressed(r)
          /\ \A a \in Targets[r] : Recorded(r, a) /\ JobInserted(r, a)
    /\ ExecutedOncePerKey /\ ReplayIsOriginal

\* Most steps of request r write no table: what they have to keep is about r.
LEMMA OwnStep ==
    ASSUME TypeOK, Core, NEW r \in Requests,
           UNCHANGED <<row, dep, job, purges>>,
           \A q \in Requests \ {r} : req'[q] = req[q],
           req'[r].gen = req[r].gen, req'[r].todo = req[r].todo,
           req'[r].pc \notin {"new", "enqueuing"},
           req[r].pc # "answered",
           req'[r].pc \in InHandler => Key[r] = None \/ req[r].pc \in InHandler,
           req[r].answer.kind = "accepted" => req'[r].answer.kind = "accepted",
           req'[r].answer.kind = "accepted" =>
              req'[r].todo = {} /\ req'[r].pc # "running",
           req'[r].pc = "completing" => req'[r].answer.kind = "accepted",
           \A a \in Targets[r] : JobInserted(r, a)',
           req'[r].answer.kind = "replayed" =>
              LET o == req'[r].answer.of IN
              /\ o \in Requests \ {r} /\ Slot(o) = Slot(r) /\ Hash[o] = Hash[r]
              /\ req[o].answer.kind = "accepted"
    PROVE  Core'
  <1> USE InTables, KeysAssumption
  <1>1. ASSUME NEW s \in Slots PROVE Owned(s)'
    BY DEF Core, Owned, Slot
  <1>2. ASSUME NEW q \in Requests PROVE HoldsClaim(q)'
    BY DEF Core, HoldsClaim, Slot, Executed
  <1>3. ASSUME NEW q \in Requests PROVE Progressed(q)'
    BY DEF Core, Progressed
  <1>4. ASSUME NEW q \in Requests, NEW a \in Targets[q] PROVE Recorded(q, a)'
    BY DEF Core, Recorded
  <1>5. ASSUME NEW q \in Requests, NEW a \in Targets[q] PROVE JobInserted(q, a)'
    BY DEF Core, JobInserted, NamesOneOperation
  <1>6. ExecutedOncePerKey'
    BY DEF Core, ExecutedOncePerKey, Executed, Slot
  <1>7. ReplayIsOriginal'
    <2> SUFFICES ASSUME NEW q \in Requests, req'[q].answer.kind = "replayed"
                 PROVE  LET o == req'[q].answer.of IN
                        /\ o \in Requests /\ Slot(o) = Slot(q)
                        /\ Hash[o] = Hash[q]
                        /\ req'[o].answer.kind = "accepted"
                        /\ \A a \in Targets[o] : dep[<<o, a>>] # "absent"
      BY DEF ReplayIsOriginal, Slot
    <2> DEFINE o == req'[q].answer.of
    <2>1. /\ o \in Requests /\ Slot(o) = Slot(q) /\ Hash[o] = Hash[q]
          /\ req[o].answer.kind = "accepted"
      <3>1. CASE q = r
        BY <3>1
      <3>2. CASE q # r
        BY <3>2 DEF Core, ReplayIsOriginal
      <3> QED
        BY <3>1, <3>2
    <2>2. req'[o].answer.kind = "accepted"
      BY <2>1
    <2>3. \A a \in Targets[o] : dep[<<o, a>>] # "absent"
      BY <2>1 DEF Core, Progressed, Recorded
    <2> QED
      BY <2>1, <2>2, <2>3
  <1> QED
    BY <1>1, <1>2, <1>3, <1>4, <1>5, <1>6, <1>7 DEF Core

\* Handler steps and answers that write no table.
LEMMA QuietSteps ==
    ASSUME TypeOK, Core, NEW r \in Requests,
           \/ PassThrough(r) \/ ClaimTaken(r) \/ ClaimFails(r) \/ Accept(r)
           \/ Refuse(r) \/ CompleteFails(r) \/ Crash(r)
    PROVE  Core'
  <1> USE InTables, KeysAssumption
  <1>0. /\ req[r] \in ReqState
        /\ Progressed(r)
        /\ \A a \in Targets[r] : JobInserted(r, a)
        /\ Key[r] # None => Owned(Slot(r))
    BY DEF TypeOK, Core
  <1> DEFINE Kept(p, n) == /\ UNCHANGED <<row, dep, job, purges>>
                           /\ \A q \in Requests \ {r} : req'[q] = req[q]
                           /\ req'[r].gen = req[r].gen
                           /\ req'[r].todo = req[r].todo
                           /\ req'[r].pc = p
                           /\ req'[r].answer = n
  <1>1. CASE PassThrough(r)
    <2>1. Kept("running", req[r].answer)
      BY <1>1, <1>0 DEF PassThrough, TypeOK, ReqState
    <2>2. ASSUME NEW a \in Targets[r] PROVE JobInserted(r, a)'
      BY <1>1, <2>1, <1>0 DEF PassThrough, JobInserted, Progressed
    <2> QED
      BY <1>1, <2>1, <2>2, <1>0, OwnStep
         DEF PassThrough, Progressed, InHandler, Core, ReplayIsOriginal
  <1>2. CASE ClaimTaken(r)
    <2> DEFINE k == row[Slot(r)]
               failed == Kept("answered", Answer("conflict", None))
                            \/ Kept("answered", Answer("in_progress", None))
    <2>1. k.hash = Hash[r] /\ k.answer # None
             => Kept("answered", Answer("replayed", k.answer))
      BY <1>2, <1>0 DEF ClaimTaken, Answered, TypeOK, ReqState
    <2>2. ~(k.hash = Hash[r] /\ k.answer # None) => failed
      BY <1>2, <1>0 DEF ClaimTaken, Answered, TypeOK, ReqState
    <2>3. req[r].pc = "new" /\ Key[r] # None /\ k # NoKeyRow
      BY <1>2 DEF ClaimTaken
    <2>4. ASSUME NEW a \in Targets[r] PROVE JobInserted(r, a)'
      BY <2>1, <2>2, <1>0 DEF JobInserted, Answer
    <2>5. k.hash = Hash[r] /\ k.answer # None =>
             /\ k.answer \in Requests \ {r}
             /\ Slot(k.answer) = Slot(r) /\ Hash[k.answer] = Hash[r]
             /\ req[k.answer].answer.kind = "accepted"
      BY <2>3, <1>0 DEF Owned, Progressed
    <2> QED
      BY <2>1, <2>2, <2>3, <2>4, <2>5, <1>0, OwnStep
         DEF Progressed, InHandler, Answer
  <1>3. CASE ClaimFails(r)
    <2>1. Kept("answered", Answer("failed", None))
      BY <1>3, <1>0 DEF ClaimFails, Answered, TypeOK, ReqState, Answer
    <2>2. ASSUME NEW a \in Targets[r] PROVE JobInserted(r, a)'
      BY <1>3, <2>1, <1>0 DEF ClaimFails, JobInserted, Progressed,
         NamesOneOperation, Answer
    <2> QED
      BY <1>3, <2>1, <2>2, <1>0, OwnStep
         DEF ClaimFails, Progressed, InHandler, Core, ReplayIsOriginal, Answer
  <1>4. CASE Accept(r)
    <2>1. Kept(IF Key[r] = None THEN "answered" ELSE "completing", Answer("accepted", r))
      BY <1>4, <1>0 DEF Accept, TypeOK, ReqState, Answer
    <2>2. ASSUME NEW a \in Targets[r] PROVE JobInserted(r, a)'
      BY <1>4, <2>1, <1>0 DEF Accept, JobInserted, Progressed,
         NamesOneOperation, Answer
    <2> QED
      <3>1. /\ req[r].pc = "running" /\ req[r].todo = {}
            /\ req'[r].pc \in {"answered", "completing"}
            /\ req'[r].answer.kind = "accepted"
        BY <1>4, <1>0 DEF Accept, Answer, TypeOK, ReqState
      <3> QED
        BY <2>1, <2>2, <3>1, <1>0, OwnStep DEF Progressed, InHandler
  <1>5. CASE Refuse(r)
    <2>1. Kept("answered", Answer("failed", None))
      BY <1>5, <1>0 DEF Refuse, Answered, TypeOK, ReqState, Answer
    <2>2. ASSUME NEW a \in Targets[r] PROVE JobInserted(r, a)'
      BY <1>5, <2>1, <1>0 DEF Refuse, JobInserted, Progressed,
         NamesOneOperation, Answer
    <2> QED
      BY <1>5, <2>1, <2>2, <1>0, OwnStep
         DEF Refuse, Progressed, InHandler, Core, ReplayIsOriginal, Answer
  <1>6. CASE CompleteFails(r)
    <2>1. Kept("answered", req[r].answer)
      BY <1>6, <1>0 DEF CompleteFails, TypeOK, ReqState, Answer
    <2>2. ASSUME NEW a \in Targets[r] PROVE JobInserted(r, a)'
      BY <1>6, <2>1, <1>0 DEF CompleteFails, JobInserted, Progressed,
         NamesOneOperation, Answer
    <2> QED
      BY <1>6, <2>1, <2>2, <1>0, OwnStep
         DEF CompleteFails, Progressed, InHandler, Core, ReplayIsOriginal, Answer
  <1>7. CASE Crash(r)
    <2>1. Kept("lost", req[r].answer)
      BY <1>7, <1>0 DEF Crash, TypeOK, ReqState, Answer
    <2>2. ASSUME NEW a \in Targets[r] PROVE JobInserted(r, a)'
      BY <1>7, <2>1, <1>0 DEF Crash, JobInserted, Progressed,
         NamesOneOperation, Answer
    <2> QED
      BY <1>7, <2>1, <2>2, <1>0, OwnStep
         DEF Crash, Progressed, InHandler, Core, ReplayIsOriginal, Answer
  <1> QED
    BY <1>1, <1>2, <1>3, <1>4, <1>5, <1>6, <1>7


\* ClaimNew is the only way to a row, and finds it free: whoever executed
\* under this key claimed it before the last purge.
LEMMA ClaimNewStep ==
    ASSUME TypeOK, Core, NEW r \in Requests, ClaimNew(r)
    PROVE  Core'
  <1>0. /\ Key[r] # None /\ req[r].pc = "new" /\ Slot(r) \in Slots
        /\ row[Slot(r)] = NoKeyRow /\ NoKeyRow.owner = None
        /\ row'[Slot(r)].owner = r /\ row'[Slot(r)].hash = Hash[r]
        /\ row'[Slot(r)].answer = None
        /\ \A s \in Slots \ {Slot(r)} : row'[s] = row[s]
        /\ req'[r].pc = "running" /\ req'[r].todo = req[r].todo
        /\ req'[r].answer = req[r].answer /\ req'[r].gen = purges[Slot(r)]
        /\ \A q \in Requests \ {r} : req'[q] = req[q]
        /\ UNCHANGED <<dep, job, purges>>
        /\ purges[Slot(r)] \in Nat
    BY InTables, KeysAssumption DEF ClaimNew, TypeOK, ReqState, NoKeyRow
  <1>a. \A q \in Requests : HoldsClaim(q) /\ Progressed(q)
    BY DEF Core
  <1>b. \A q \in Requests : \A a \in Targets[q] : Recorded(q, a) /\ JobInserted(q, a)
    BY DEF Core
  <1>c. ~Executed(r)
    BY <1>0, <1>a, <1>b DEF Executed, Progressed, Recorded
  <1>1. ASSUME NEW s \in Slots PROVE Owned(s)'
    BY <1>0 DEF Core, Owned, Slot
  <1>2. ASSUME NEW q \in Requests PROVE HoldsClaim(q)'
    <2>1. HoldsClaim(q) /\ (Executed(q)' <=> Executed(q)) /\ Slot(q)' = Slot(q)
      BY <1>0, <1>a DEF Executed, Slot
    <2>2. CASE Key[q] # None /\ Slot(q) = Slot(r) /\ q # r
      BY <1>0, <2>1, <2>2, KeysAssumption DEF HoldsClaim, InHandler
    <2>3. CASE Key[q] # None /\ Slot(q) # Slot(r)
      BY <1>0, <2>1, <2>3, InTables DEF HoldsClaim
    <2>4. CASE q = r
      BY <1>0, <2>1, <2>4, <1>c DEF HoldsClaim
    <2>5. CASE Key[q] = None
      BY <2>5 DEF HoldsClaim
    <2> QED
      BY <2>2, <2>3, <2>4, <2>5
  <1>3. ASSUME NEW q \in Requests PROVE Progressed(q)'
    <2>1. Progressed(q)
      BY <1>a
    <2>2. CASE q = r
      BY <2>1, <2>2, <1>0 DEF Progressed
    <2>3. CASE q # r
      BY <2>1, <2>3, <1>0 DEF Progressed
    <2> QED
      BY <2>2, <2>3
  <1>4. ASSUME NEW q \in Requests, NEW a \in Targets[q] PROVE Recorded(q, a)'
    BY <1>0, <1>b DEF Recorded
  <1>5. ASSUME NEW q \in Requests, NEW a \in Targets[q] PROVE JobInserted(q, a)'
    <2>1. CASE q = r
      BY <2>1, <1>0, <1>a DEF JobInserted, Progressed
    <2>2. CASE q # r
      BY <2>2, <1>0, <1>b DEF JobInserted, NamesOneOperation
    <2> QED
      BY <2>1, <2>2
  <1>6. ExecutedOncePerKey'
    <2>1. \A q \in Requests : (Executed(q)' <=> Executed(q)) /\ Slot(q)' = Slot(q)
      BY <1>0 DEF Executed, Slot
    <2> QED
      BY <1>0, <1>c, <2>1 DEF Core, ExecutedOncePerKey
  <1>7. ReplayIsOriginal'
    BY <1>0 DEF Core, ReplayIsOriginal, Slot
  <1> QED
    BY <1>1, <1>2, <1>3, <1>4, <1>5, <1>6, <1>7 DEF Core


\* A deployment row is inserted by the request that owns the key; what it
\* supersedes was queued, and so was executed already.
LEMMA CreateStep ==
    ASSUME TypeOK, Core, NEW r \in Requests, NEW a \in Apps,
           CreateDeployment(r, a)
    PROVE  Core'
  <1>a. \A q \in Requests : HoldsClaim(q) /\ Progressed(q)
    BY DEF Core
  <1>b. \A q \in Requests : \A b \in Targets[q] :
           Recorded(q, b) /\ JobInserted(q, b)
    BY DEF Core
  <1>0. /\ req[r].pc = "running" /\ a \in req[r].todo /\ a \in Targets[r]
        /\ req'[r].pc = "enqueuing" /\ req'[r].at = a
        /\ req'[r].todo = req[r].todo \ {a}
        /\ req'[r].answer = req[r].answer /\ req'[r].gen = req[r].gen
        /\ \A q \in Requests \ {r} : req'[q] = req[q]
        /\ UNCHANGED <<row, purges>>
    BY <1>a DEF CreateDeployment, TypeOK, ReqState, Progressed
  <1>d. dep[<<r, a>>] = "absent" /\ job[<<r, a>>] = "absent"
    BY <1>0, <1>b DEF Recorded
  <1>e. dep'[<<r, a>>] = "queued" /\ job'[<<r, a>>] = "absent"
    BY <1>0, <1>d, InTables DEF CreateDeployment, Superseded
  <1>f. ASSUME NEW q \in Requests, NEW b \in Targets[q], <<q, b>> # <<r, a>>
        PROVE  \/ /\ dep'[<<q, b>>] = dep[<<q, b>>]
                  /\ job'[<<q, b>>] = job[<<q, b>>]
               \/ /\ dep[<<q, b>>] = "queued" /\ dep'[<<q, b>>] = "superseded"
                  /\ job'[<<q, b>>] = IF job[<<q, b>>] = "queued"
                                      THEN "cancelled" ELSE job[<<q, b>>]
    <2>1. <<q, b>> \in Units
      BY InTables
    <2>2. CASE <<q, b>> \in Superseded(r, a)
      <3>1. dep[<<q, b>>] = "queued"
        BY <2>2 DEF Superseded
      <3> QED
        BY <1>f, <2>1, <2>2, <3>1 DEF CreateDeployment
    <2>3. CASE <<q, b>> \notin Superseded(r, a)
      BY <1>f, <2>1, <2>3 DEF CreateDeployment
    <2> QED
      BY <2>2, <2>3
  <1>g. ASSUME NEW q \in Requests, NEW b \in Targets[q]
        PROVE  /\ dep'[<<q, b>>] = "absent" <=>
                     dep[<<q, b>>] = "absent" /\ ~(q = r /\ b = a)
               /\ job'[<<q, b>>] = "absent" <=> job[<<q, b>>] = "absent"
    <2>1. CASE q = r /\ b = a
      BY <1>d, <1>e, <2>1
    <2>2. CASE ~(q = r /\ b = a)
      <3>1. <<q, b>> # <<r, a>>
        BY <2>2
      <3> QED
        BY <1>f, <2>2, <3>1
    <2> QED
      BY <2>1, <2>2
  <1>h. /\ \A q \in Requests \ {r} : Executed(q)' <=> Executed(q)
        /\ \A q \in Requests : Slot(q)' = Slot(q)
    BY <1>g DEF Executed, Slot
  <1>1. ASSUME NEW s \in Slots PROVE Owned(s)'
    BY <1>0 DEF Core, Owned, Slot
  <1>2. ASSUME NEW q \in Requests PROVE HoldsClaim(q)'
    <2>1. CASE q = r
      BY <2>1, <1>0, <1>a, <1>h DEF HoldsClaim, InHandler
    <2>2. CASE q # r
      BY <2>2, <1>0, <1>a, <1>h DEF HoldsClaim, InHandler
    <2> QED
      BY <2>1, <2>2
  <1>3. ASSUME NEW q \in Requests PROVE Progressed(q)'
    <2>1. CASE q = r
      BY <2>1, <1>0, <1>a, <1>e DEF Progressed
    <2>2. CASE q # r
      BY <2>2, <1>0, <1>a, <1>g DEF Progressed
    <2> QED
      BY <2>1, <2>2
  <1>4. ASSUME NEW q \in Requests, NEW b \in Targets[q] PROVE Recorded(q, b)'
    <2>1. CASE q = r /\ b = a
      BY <2>1, <1>0, <1>e DEF Recorded
    <2>2. CASE ~(q = r /\ b = a)
      <3>1. <<q, b>> # <<r, a>>
        BY <2>2
      <3>2. Recorded(q, b)
        BY <1>b
      <3>3. b \in req'[q].todo <=> b \in req[q].todo
        BY <2>2, <1>0
      <3> QED
        BY <1>f, <3>1, <3>2, <3>3 DEF Recorded
    <2> QED
      BY <2>1, <2>2
  <1>5. ASSUME NEW q \in Requests, NEW b \in Targets[q] PROVE JobInserted(q, b)'
    <2>1. CASE q = r
      BY <2>1, <1>0, <1>a DEF JobInserted, Progressed
    <2>2. CASE q # r
      BY <2>2, <1>0, <1>b, <1>g DEF JobInserted, NamesOneOperation
    <2> QED
      BY <2>1, <2>2
  <1>6. ExecutedOncePerKey'
    <2>1. ASSUME NEW q \in Requests \ {r}, Key[r] # None, Slot(q) = Slot(r),
                 Executed(q)
          PROVE  req[q].gen # req[r].gen
      <3>1. Key[q] # None
        BY <2>1 DEF Slot
      <3>2. row[Slot(r)].owner = r /\ Slot(r) \in Slots /\ r # None
        BY <2>1, <1>0, <1>a, InTables, KeysAssumption DEF HoldsClaim, InHandler
      <3>3. req[r].gen = purges[Slot(r)]
        BY <3>2, KeysAssumption DEF Core, Owned, NoKeyRow
      <3>4. req[q].gen < purges[Slot(r)]
        BY <2>1, <3>1, <3>2, <1>a DEF HoldsClaim
      <3> QED
        BY <3>2, <3>3, <3>4 DEF TypeOK, ReqState
    <2>2. \A q, p \in Requests \ {r} :
             /\ q # p /\ Key[q] # None /\ Slot(q) = Slot(p)
             /\ Executed(q) /\ Executed(p)
             => req[q].gen # req[p].gen
      BY DEF Core, ExecutedOncePerKey
    <2>3. \A q \in Requests : req'[q].gen = req[q].gen
      BY <1>0
    <2>4. \A q, p \in Requests : Slot(q) = Slot(p) => Key[q] = Key[p]
      BY DEF Slot
    <2> QED
      BY <2>1, <2>2, <2>3, <2>4, <1>h DEF ExecutedOncePerKey
  <1>7. ReplayIsOriginal'
    <2>1. \A q \in Requests : req'[q].answer = req[q].answer
      BY <1>0
    <2> QED
      BY <2>1, <1>g, <1>h DEF Core, ReplayIsOriginal
  <1> QED
    BY <1>1, <1>2, <1>3, <1>4, <1>5, <1>6, <1>7 DEF Core


\* The job of a deployment is inserted, unless its key is taken; and if the
\* key names one operation, nobody can have taken it.
LEMMA EnqueueStep ==
    ASSUME TypeOK, Core, NEW r \in Requests, Enqueue(r)
    PROVE  Core'
  <1>a. \A q \in Requests : HoldsClaim(q) /\ Progressed(q)
    BY DEF Core
  <1>b. \A q \in Requests : \A b \in Targets[q] :
           Recorded(q, b) /\ JobInserted(q, b)
    BY DEF Core
  <1> DEFINE at == req[r].at
  <1>0. /\ req[r].pc = "enqueuing" /\ at \in Targets[r] \ req[r].todo
        /\ job[<<r, at>>] = "absent"
        /\ req'[r].pc = "running" /\ req'[r].todo = req[r].todo
        /\ req'[r].answer = req[r].answer /\ req'[r].gen = req[r].gen
        /\ \A q \in Requests \ {r} : req'[q] = req[q]
        /\ UNCHANGED <<row, dep, purges>>
    BY <1>a DEF Enqueue, TypeOK, ReqState, Progressed
  <1>d. /\ ~KeyOfAJob(r) => job'[<<r, at>>] = "queued"
        /\ job'[<<r, at>>] \in {"absent", "queued"}
        /\ \A q \in Requests : \A b \in Targets[q] :
              <<q, b>> # <<r, at>> => job'[<<q, b>>] = job[<<q, b>>]
    BY <1>0, InTables DEF Enqueue, TypeOK
  <1>h. /\ \A q \in Requests : Executed(q)' <=> Executed(q)
        /\ \A q \in Requests : Slot(q)' = Slot(q)
    BY <1>0 DEF Executed, Slot
  <1>1. ASSUME NEW s \in Slots PROVE Owned(s)'
    BY <1>0 DEF Core, Owned, Slot
  <1>2. ASSUME NEW q \in Requests PROVE HoldsClaim(q)'
    BY <1>0, <1>a, <1>h DEF HoldsClaim, InHandler
  <1>3. ASSUME NEW q \in Requests PROVE Progressed(q)'
    <2>1. CASE q = r
      BY <2>1, <1>0, <1>a DEF Progressed
    <2>2. CASE q # r
      <3>1. Progressed(q) /\ req'[q] = req[q]
        BY <2>2, <1>0, <1>a
      <3>2. req[q].pc = "enqueuing" =>
               job'[<<q, req[q].at>>] = job[<<q, req[q].at>>]
        BY <2>2, <3>1, <1>d DEF Progressed
      <3> QED
        BY <3>1, <3>2 DEF Progressed
    <2> QED
      BY <2>1, <2>2
  <1>4. ASSUME NEW q \in Requests, NEW b \in Targets[q] PROVE Recorded(q, b)'
    <2>1. CASE <<q, b>> = <<r, at>>
      <3>1. q = r /\ b = at
        BY <2>1
      <3> QED
        BY <3>1, <1>0, <1>b, <1>d DEF Recorded
    <2>2. CASE <<q, b>> # <<r, at>>
      <3>1. Recorded(q, b) /\ job'[<<q, b>>] = job[<<q, b>>]
            /\ req'[q].todo = req[q].todo
        BY <2>2, <1>0, <1>b, <1>d
      <3> QED
        BY <3>1, <1>0 DEF Recorded
    <2> QED
      BY <2>1, <2>2
  <1>5. ASSUME NEW q \in Requests, NEW b \in Targets[q] PROVE JobInserted(q, b)'
    <2>0. NamesOneOperation(q)' <=> NamesOneOperation(q)
      BY <1>0 DEF NamesOneOperation
    <2>1. CASE q = r
      <3> SUFFICES ASSUME NamesOneOperation(r) PROVE JobInserted(r, b)'
        BY <2>0, <2>1 DEF JobInserted
      <3>1. b = at
        BY <2>1, <1>0 DEF NamesOneOperation
      <3>2. ASSUME NEW p \in Requests, NEW c \in Targets[p], Key[r] # None,
                   Key[p] = Key[r]
            PROVE  job[<<p, c>>] = "absent"
        <4>1. CASE p = r
          BY <4>1, <2>1, <3>1, <1>0 DEF NamesOneOperation
        <4>2. CASE p # r
          <5>1. Slot(p) = Slot(r)
            BY <3>2 DEF NamesOneOperation, Slot
          <5>2. row[Slot(r)].owner = r /\ Slot(r) \in Slots /\ r # None
            BY <3>2, <1>0, <1>a, InTables, KeysAssumption
               DEF HoldsClaim, InHandler
          <5>3. purges[Slot(r)] = 0
            BY <5>2, <3>2, KeysAssumption
               DEF Core, Owned, NoKeyRow, NamesOneOperation
          <5>4. ~Executed(p)
            BY <5>1, <5>2, <5>3, <4>2, <3>2, <1>a DEF HoldsClaim, TypeOK, ReqState
          <5> QED
            BY <5>4, <1>b DEF Executed, Recorded
        <4> QED
          BY <4>1, <4>2
      <3>3. ~KeyOfAJob(r)
        <4>1. ASSUME NEW u \in Units, Key[r] # None, Key[u[1]] = Key[r]
              PROVE  job[u] = "absent"
          BY <3>2, <4>1, InTables
        <4> QED
          BY <4>1 DEF KeyOfAJob
      <3> QED
        BY <3>1, <3>3, <1>d, <2>1 DEF JobInserted
    <2>2. CASE q # r
      <3>1. JobInserted(q, b) /\ req'[q] = req[q]
            /\ job'[<<q, b>>] = job[<<q, b>>]
        BY <2>2, <1>0, <1>b, <1>d
      <3> QED
        BY <3>1, <2>0 DEF JobInserted
    <2> QED
      BY <2>1, <2>2
  <1>6. ExecutedOncePerKey'
    BY <1>0, <1>h DEF Core, ExecutedOncePerKey
  <1>7. ReplayIsOriginal'
    BY <1>0, <1>h DEF Core, ReplayIsOriginal
  <1> QED
    BY <1>1, <1>2, <1>3, <1>4, <1>5, <1>6, <1>7 DEF Core

\* The response that is kept is the accepted answer of the row's owner.
LEMMA CompleteStep ==
    ASSUME TypeOK, Core, NEW r \in Requests, Complete(r)
    PROVE  Core'
  <1>a. \A q \in Requests : HoldsClaim(q) /\ Progressed(q)
    BY DEF Core
  <1>b. \A q \in Requests : \A b \in Targets[q] :
           Recorded(q, b) /\ JobInserted(q, b)
    BY DEF Core
  <1>0. /\ req[r].pc = "completing" /\ req[r].answer.kind = "accepted"
        /\ req'[r].pc = "answered" /\ req'[r].todo = req[r].todo
        /\ req'[r].answer = req[r].answer /\ req'[r].gen = req[r].gen
        /\ \A q \in Requests \ {r} : req'[q] = req[q]
        /\ UNCHANGED <<dep, job, purges>>
    BY <1>a DEF Complete, TypeOK, ReqState, Progressed
  <1>d. /\ \A s \in Slots : /\ row'[s].owner = row[s].owner
                            /\ row'[s].hash = row[s].hash
                            /\ row[s].owner # r => row'[s] = row[s]
                            /\ row[s].owner = r => row'[s].answer = r
    BY DEF Complete, TypeOK, KeyRow
  <1>h. /\ \A q \in Requests : Executed(q)' <=> Executed(q)
        /\ \A q \in Requests : Slot(q)' = Slot(q)
    BY <1>0 DEF Executed, Slot
  <1>1. ASSUME NEW s \in Slots PROVE Owned(s)'
    <2>1. CASE row[s].owner = r
      <3>1. row[s] # NoKeyRow
        BY <2>1, KeysAssumption DEF NoKeyRow
      <3>2. Owned(s)
        BY DEF Core
      <3> QED
        BY <2>1, <3>1, <3>2, <1>0, <1>d, <1>h DEF Owned
    <2>2. CASE row[s].owner # r
      <3>1. Owned(s) /\ row'[s] = row[s]
        BY <2>2, <1>d DEF Core
      <3> QED
        BY <3>1, <2>2, <1>0, <1>h DEF Owned
    <2> QED
      BY <2>1, <2>2
  <1>2. ASSUME NEW q \in Requests PROVE HoldsClaim(q)'
    BY <1>0, <1>a, <1>d, <1>h, InTables DEF HoldsClaim, InHandler
  <1>3. ASSUME NEW q \in Requests PROVE Progressed(q)'
    <2>1. CASE q = r
      BY <2>1, <1>0, <1>a DEF Progressed
    <2>2. CASE q # r
      BY <2>2, <1>0, <1>a DEF Progressed
    <2> QED
      BY <2>1, <2>2
  <1>4. ASSUME NEW q \in Requests, NEW b \in Targets[q] PROVE Recorded(q, b)'
    BY <1>0, <1>b DEF Recorded
  <1>5. ASSUME NEW q \in Requests, NEW b \in Targets[q] PROVE JobInserted(q, b)'
    BY <1>0, <1>b DEF JobInserted, NamesOneOperation
  <1>6. ExecutedOncePerKey'
    BY <1>0, <1>h DEF Core, ExecutedOncePerKey
  <1>7. ReplayIsOriginal'
    BY <1>0, <1>h DEF Core, ReplayIsOriginal
  <1> QED
    BY <1>1, <1>2, <1>3, <1>4, <1>5, <1>6, <1>7 DEF Core

\* A purge waits for the owner's handler to end.
LEMMA PurgeStep ==
    ASSUME TypeOK, Core, NEW s \in Slots, PurgeKeys(s)
    PROVE  Core'
  <1>a. \A q \in Requests : HoldsClaim(q) /\ Progressed(q)
    BY DEF Core
  <1>b. \A q \in Requests : \A b \in Targets[q] :
           Recorded(q, b) /\ JobInserted(q, b)
    BY DEF Core
  <1>0. /\ row[s] # NoKeyRow /\ req[row[s].owner].pc \in {"answered", "lost"}
        /\ row'[s] = NoKeyRow /\ NoKeyRow.owner = None
        /\ purges'[s] = purges[s] + 1
        /\ purges[s] \in Nat /\ purges'[s] \in Nat
        /\ \A x \in Slots \ {s} : row'[x] = row[x] /\ purges'[x] = purges[x]
        /\ UNCHANGED <<dep, job, req>>
    BY KeysAssumption DEF PurgeKeys, TypeOK, NoKeyRow
  <1>h. /\ \A q \in Requests : Executed(q)' <=> Executed(q)
        /\ \A q \in Requests : Slot(q)' = Slot(q)
    BY <1>0 DEF Executed, Slot
  <1>1. ASSUME NEW x \in Slots PROVE Owned(x)'
    BY <1>0, <1>h DEF Core, Owned
  <1>2. ASSUME NEW q \in Requests PROVE HoldsClaim(q)'
    <2>1. HoldsClaim(q) /\ req[q].gen \in Nat
      BY <1>a DEF TypeOK, ReqState
    <2>2. CASE Key[q] # None /\ Slot(q) = s
      BY <2>1, <2>2, <1>0, <1>h DEF HoldsClaim, InHandler
    <2>3. CASE Key[q] # None /\ Slot(q) # s
      BY <2>1, <2>3, <1>0, <1>h, InTables DEF HoldsClaim
    <2>4. CASE Key[q] = None
      BY <2>4 DEF HoldsClaim
    <2> QED
      BY <2>2, <2>3, <2>4
  <1>3. ASSUME NEW q \in Requests PROVE Progressed(q)'
    BY <1>0, <1>a DEF Progressed
  <1>4. ASSUME NEW q \in Requests, NEW b \in Targets[q] PROVE Recorded(q, b)'
    BY <1>0, <1>b DEF Recorded
  <1>5. ASSUME NEW q \in Requests, NEW b \in Targets[q] PROVE JobInserted(q, b)'
    BY <1>0, <1>b DEF JobInserted, NamesOneOperation
  <1>6. ExecutedOncePerKey'
    BY <1>0, <1>h DEF Core, ExecutedOncePerKey
  <1>7. ReplayIsOriginal'
    BY <1>0, <1>h DEF Core, ReplayIsOriginal
  <1> QED
    BY <1>1, <1>2, <1>3, <1>4, <1>5, <1>6, <1>7 DEF Core

\* A worker that takes a job ends the deployment's wait.
LEMMA TakeStep ==
    ASSUME TypeOK, Core, NEW u \in Units, TakeJob(u)
    PROVE  Core'
  <1>a. \A q \in Requests : HoldsClaim(q) /\ Progressed(q)
    BY DEF Core
  <1>b. \A q \in Requests : \A b \in Targets[q] :
           Recorded(q, b) /\ JobInserted(q, b)
    BY DEF Core
  <1>0. /\ job[u] = "queued" /\ job'[u] = "done"
        /\ dep'[u] = IF dep[u] = "queued" THEN "done" ELSE dep[u]
        /\ \A x \in Units \ {u} : job'[x] = job[x] /\ dep'[x] = dep[x]
        /\ UNCHANGED <<row, req, purges>>
    BY DEF TakeJob, TypeOK
  <1>d. \A x \in Units : /\ dep'[x] = "absent" <=> dep[x] = "absent"
                         /\ job'[x] = "absent" <=> job[x] = "absent"
    BY <1>0
  <1>h. /\ \A q \in Requests : Executed(q)' <=> Executed(q)
        /\ \A q \in Requests : Slot(q)' = Slot(q)
    BY <1>d, InTables DEF Executed, Slot
  <1>1. ASSUME NEW x \in Slots PROVE Owned(x)'
    BY <1>0, <1>h DEF Core, Owned
  <1>2. ASSUME NEW q \in Requests PROVE HoldsClaim(q)'
    BY <1>0, <1>a, <1>h DEF HoldsClaim
  <1>3. ASSUME NEW q \in Requests PROVE Progressed(q)'
    BY <1>0, <1>a, <1>d, InTables DEF Progressed
  <1>4. ASSUME NEW q \in Requests, NEW b \in Targets[q] PROVE Recorded(q, b)'
    <2>1. <<q, b>> \in Units /\ Recorded(q, b)
      BY <1>b, InTables
    <2> QED
      BY <2>1, <1>0 DEF Recorded
  <1>5. ASSUME NEW q \in Requests, NEW b \in Targets[q] PROVE JobInserted(q, b)'
    <2>1. <<q, b>> \in Units /\ JobInserted(q, b)
      BY <1>b, InTables
    <2> QED
      BY <2>1, <1>0, <1>d DEF JobInserted, NamesOneOperation
  <1>6. ExecutedOncePerKey'
    BY <1>0, <1>h DEF Core, ExecutedOncePerKey
  <1>7. ReplayIsOriginal'
    BY <1>0, <1>d, <1>h, InTables DEF Core, ReplayIsOriginal
  <1> QED
    BY <1>1, <1>2, <1>3, <1>4, <1>5, <1>6, <1>7 DEF Core


-----------------------------------------------------------------------------
\* Every step of the system keeps the conjuncts.
LEMMA CoreStep == TypeOK /\ Core /\ [Next]_vars => Core'
  <1> SUFFICES ASSUME TypeOK, Core, [Next]_vars PROVE Core'
    OBVIOUS
  <1>1. ASSUME NEW r \in Requests, RequestStep(r) PROVE Core'
    BY <1>1, QuietSteps, ClaimNewStep, CreateStep, EnqueueStep, CompleteStep
       DEF RequestStep
  <1>2. ASSUME NEW s \in Slots, PurgeKeys(s) PROVE Core'
    BY <1>2, PurgeStep
  <1>3. ASSUME NEW u \in Units, TakeJob(u) PROVE Core'
    BY <1>3, TakeStep
  <1>4. CASE UNCHANGED vars
    BY <1>4 DEF vars, Core, Owned, HoldsClaim, Progressed, Recorded,
       JobInserted, NamesOneOperation, ExecutedOncePerKey, Executed,
       ReplayIsOriginal, Slot
  <1> QED
    BY <1>1, <1>2, <1>3, <1>4 DEF Next

\* Nothing has been claimed, executed or answered at the start.
LEMMA InitCore == Init => TypeOK /\ Core
  <1> SUFFICES ASSUME Init PROVE TypeOK /\ Core
    OBVIOUS
  <1>1. \A r \in Requests : /\ req[r].pc = "new" /\ req[r].todo = Targets[r]
                            /\ req[r].answer.kind = "none"
                            /\ req[r].gen = 0
    BY DEF Init, NoAnswer
  <1>2. \A r \in Requests : \A a \in Targets[r] :
           dep[<<r, a>>] = "absent" /\ job[<<r, a>>] = "absent"
    BY InTables DEF Init
  <1>3. \A s \in Slots : row[s] = NoKeyRow /\ purges[s] = 0
    BY DEF Init
  <1>4. TypeOK
    <2>1. ASSUME NEW r \in Requests PROVE req[r] \in ReqState
      <3>1. req[r] = [pc |-> "new", todo |-> Targets[r], at |-> None,
                      answer |-> NoAnswer, gen |-> 0]
        BY DEF Init
      <3>2. NoAnswer \in AnswerState
        BY DEF NoAnswer, AnswerState, Kinds
      <3>3. Targets[r] \in SUBSET Apps /\ 0 \in 0 .. MaxPurges
        BY KeysAssumption
      <3> QED
        BY <3>1, <3>2, <3>3 DEF ReqState, PCs
    <2>2. NoKeyRow \in KeyRow
      BY DEF KeyRow, NoKeyRow
    <2> QED
      BY <2>1, <2>2, KeysAssumption DEF Init, TypeOK
  <1>5. \A s \in Slots : Owned(s)
    BY <1>3 DEF Owned
  <1>6. ASSUME NEW r \in Requests PROVE HoldsClaim(r) /\ Progressed(r)
    <2>1. ~Executed(r)
      BY <1>2 DEF Executed
    <2>2. HoldsClaim(r)
      BY <1>1, <1>3, <2>1, InTables DEF HoldsClaim, InHandler
    <2>3. Progressed(r)
      BY <1>1 DEF Progressed
    <2> QED
      BY <2>2, <2>3
  <1>7. \A r \in Requests : \A a \in Targets[r] :
           Recorded(r, a) /\ JobInserted(r, a)
    BY <1>1, <1>2 DEF Recorded, JobInserted
  <1>8. ExecutedOncePerKey /\ ReplayIsOriginal
    BY <1>1, <1>2 DEF ExecutedOncePerKey, ReplayIsOriginal, Executed
  <1> QED
    BY <1>4, <1>5, <1>6, <1>7, <1>8 DEF Core

\* An accepted deployment whose key names one operation has had its job, and
\* that job ends together with the deployment's wait.
LEMMA CoreHasOwnJob == TypeOK /\ Core => AcceptedHasOwnJob
  <1> SUFFICES ASSUME TypeOK, Core, NEW u \in Units, NamesOneOperation(u[1]),
                      Orphan(u)
               PROVE  FALSE
    BY DEF AcceptedHasOwnJob
  <1>0. PICK r \in Requests : \E a \in Targets[r] : u = <<r, a>>
    BY InTables
  <1>1. PICK a \in Targets[r] : u = <<r, a>>
    BY <1>0
  <1>2. u[1] = r
    BY <1>1
  <1>3. /\ Progressed(r) /\ Recorded(r, a) /\ JobInserted(r, a)
        /\ job[<<r, a>>] \in {"absent", "queued", "cancelled", "done"}
    BY <1>1 DEF Core, TypeOK
  <1> QED
    BY <1>1, <1>2, <1>3 DEF Orphan, Progressed, Recorded, JobInserted

\* The inductive invariant of the idempotency keys holds in every reachable
\* state, for every set of requests, keys, endpoints, targets and purges.
THEOREM KeysInvariant == Spec => []KeysInv
  <1>1. TypeOK /\ Core => KeysInv
    BY CoreHasOwnJob DEF Core, KeysInv
  <1> QED
    BY <1>1, InitCore, TypeStep, CoreStep, PTL DEF Spec

\* Of the requests with one key on one endpoint, at most one per purge period
\* runs the handler: a retry never deploys again (idempotency.go: claim).
THEOREM ExecutedOnce == Spec => []ExecutedOncePerKey
  BY KeysInvariant, PTL DEF KeysInv

\* A retry is given the accepted answer of the same request, after all of its
\* deployments were created (idempotency.go: replay).
THEOREM ReplaysOriginal == Spec => []ReplayIsOriginal
  BY KeysInvariant, PTL DEF KeysInv

\* An accepted deployment under a key of one operation has a job to run it
\* (queue.go: Enqueue on the unique index of the key).
THEOREM AcceptedRuns == Spec => []AcceptedHasOwnJob
  BY KeysInvariant, PTL DEF KeysInv

=============================================================================
