--------------------------- MODULE JobQueueProofs ---------------------------
(***************************************************************************)
(* Machine-checked proofs about the job queue, for every number of jobs,   *)
(* processes and goroutines and every ceiling.                             *)
(***************************************************************************)
EXTENDS JobQueue, TLAPS

\* The statements of the store keep every column of a row in its type; the
\* attempt the reaper gives back never goes below zero.
LEMMA RowTypes ==
    ASSUME NEW r \in Row, NEW w \in Workers, NEW n \in Nat, NEW b \in BOOLEAN
    PROVE  /\ Enqueued(r, b) \in Row
           /\ DequeueJob(r, w) \in Row
           /\ MarkJobRunning(r) \in Row
           /\ HeartbeatJob(r) \in Row
           /\ SucceedJob(r) \in Row
           /\ FailJob(r, b) \in Row
           /\ UpdateJobSteps(r, n) \in Row
           /\ CancelledRow(r) \in Row
           /\ Promoted(r) \in Row
           /\ Reaped(r) \in Row
           /\ [r EXCEPT !.status = "purged"] \in Row
           /\ [r EXCEPT !.due = TRUE] \in Row
           /\ [r EXCEPT !.lapsed = TRUE] \in Row
  <1>0. /\ r.attempt + 1 \in Nat /\ r.lease + 1 \in Nat
        /\ r.failures + 1 \in Nat /\ r.resumes + 1 \in Nat
        /\ r.attempt # 0 => r.attempt - 1 \in Nat
    BY DEF Row
  <1>1. Enqueued(r, b) \in Row
    BY DEF Enqueued, Row, Status
  <1>2. DequeueJob(r, w) \in Row
    BY <1>0 DEF DequeueJob, Row, Status
  <1>3. MarkJobRunning(r) \in Row
    BY DEF MarkJobRunning, Row, Status
  <1>4. HeartbeatJob(r) \in Row
    BY DEF HeartbeatJob, Row
  <1>5. SucceedJob(r) \in Row
    BY DEF SucceedJob, Row, Status
  <1>6. FailJob(r, b) \in Row
    <2>1. CASE b
      BY <2>1, <1>0 DEF FailJob, Row, Status
    <2>2. CASE ~b
      BY <2>2, <1>0 DEF FailJob, Row, Status
    <2> QED
      BY <2>1, <2>2
  <1>7. UpdateJobSteps(r, n) \in Row
    BY DEF UpdateJobSteps, Row
  <1>8. CancelledRow(r) \in Row
    BY DEF CancelledRow, Row, Status
  <1>9. Promoted(r) \in Row
    BY DEF Promoted, Row, Status
  <1>10. Reaped(r) \in Row
    <2> DEFINE dead == r.resumes >= MaxResumes
               s == IF dead THEN "dead_letter" ELSE "retry_wait"
               a == IF dead \/ r.attempt = 0 THEN r.attempt ELSE r.attempt - 1
    <2>1. s \in Status /\ a \in Nat
      BY <1>0 DEF Row, Status
    <2>2. Reaped(r) = [r EXCEPT !.status = s, !.resumes = r.resumes + 1,
                                !.attempt = a, !.due = TRUE, !.owner = None,
                                !.lapsed = FALSE]
      BY DEF Reaped
    <2> HIDE DEF s, a
    <2> QED
      BY <2>1, <2>2, <1>0 DEF Row
  <1>11. [r EXCEPT !.status = "purged"] \in Row
    BY DEF Row, Status
  <1>12. /\ [r EXCEPT !.due = TRUE] \in Row
         /\ [r EXCEPT !.lapsed = TRUE] \in Row
    BY DEF Row
  <1> QED
    BY <1>1, <1>2, <1>3, <1>4, <1>5, <1>6, <1>7, <1>8, <1>9, <1>10, <1>11,
       <1>12

\* The values the consumer loop gives a goroutine are goroutine states.
LEMMA ThreadTypes ==
    ASSUME NEW x \in Thread, NEW j \in Jobs, NEW a \in Nat, NEW n \in Nat,
           NEW p \in PC, NEW b \in BOOLEAN
    PROVE  /\ Idle \in Thread
           /\ [Idle EXCEPT !.pc = "selected", !.job = j] \in Thread
           /\ [pc |-> "leased", job |-> j, attempt |-> a, lease |-> n,
               lost |-> FALSE] \in Thread
           /\ [x EXCEPT !.pc = p] \in Thread
           /\ [x EXCEPT !.lost = b] \in Thread
  BY DEF Thread, PC, Idle

Busy == \A t \in Threads : th[t].pc # "idle" => th[t].job \in Jobs

\* Every step of a goroutine keeps the types.
LEMMA ThreadStepType ==
    ASSUME TypeOK, Busy, NEW t \in Threads, ThreadStep(t)
    PROVE  TypeOK' /\ Busy'
  <1> DEFINE j == th[t].job
  <1>1. /\ Proc[t] \in Workers
        /\ th[t] \in Thread
        /\ th[t].attempt \in Nat /\ th[t].lease \in Nat
    BY QueueAssumption DEF TypeOK, Thread
  <1>2. ASSUME th[t].pc # "idle"
        PROVE  j \in Jobs /\ row[j] \in Row
    BY <1>2 DEF Busy, TypeOK
  <1>3. Idle \in Thread /\ Idle.pc = "idle"
    BY ThreadTypes, <1>1 DEF Thread, PC, Idle
  <1>4. ASSUME NEW r \in Row, NEW c, j \in Jobs,
               Write(j, r) \/ WriteIf(c, j, r)
        PROVE  row' \in [Jobs -> Row]
    BY <1>4 DEF Write, WriteIf, TypeOK
  <1>5. ASSUME NEW x \in Thread, x.pc # "idle" => x.job \in Jobs,
               th' = [th EXCEPT ![t] = x]
        PROVE  th' \in [Threads -> Thread] /\ Busy'
    BY <1>5 DEF TypeOK, Busy
  <1>6. CASE DequeueSelect(t)
    <2>1. PICK k \in Jobs : th' = [th EXCEPT ![t] =
                               [Idle EXCEPT !.pc = "selected", !.job = k]]
      BY <1>6 DEF DequeueSelect
    <2> DEFINE x == [Idle EXCEPT !.pc = "selected", !.job = k]
    <2>2. x \in Thread /\ x.job \in Jobs
      BY <1>1, ThreadTypes DEF Idle, Thread, PC
    <2>3. th' \in [Threads -> Thread] /\ Busy'
      BY <2>1, <2>2, <1>5
    <2> QED
      BY <2>3, <1>6 DEF DequeueSelect, TypeOK
  <1>7. CASE DequeueLease(t)
    <2>1. j \in Jobs /\ row[j] \in Row
      BY <1>2, <1>7 DEF DequeueLease
    <2> DEFINE x == [pc |-> "leased", job |-> j,
                     attempt |-> row[j].attempt + 1,
                     lease |-> row[j].lease + 1, lost |-> FALSE]
    <2>2. row[j].attempt + 1 \in Nat /\ row[j].lease + 1 \in Nat
      BY <2>1 DEF Row
    <2>3. x \in Thread /\ x.job \in Jobs
      BY <2>1, <2>2, ThreadTypes, <1>1 DEF Thread, PC
    <2>4. th' \in [Threads -> Thread] /\ Busy'
      BY <2>3, <1>5, <1>7 DEF DequeueLease
    <2>5. DequeueJob(row[j], Proc[t]) \in Row
      BY <2>1, <1>1, RowTypes
    <2>6. row' \in [Jobs -> Row]
      BY <2>1, <2>5, <1>4, <1>7 DEF DequeueLease
    <2> QED
      BY <2>4, <2>6, <1>7 DEF DequeueLease, TypeOK
  <1>8. CASE DequeueFails(t) \/ WriteLost(t) \/ WriteCancelled(t)
    <2>1. th' = [th EXCEPT ![t] = Idle]
      BY <1>8 DEF DequeueFails, WriteLost, WriteCancelled
    <2>2. th' \in [Threads -> Thread] /\ Busy'
      BY <2>1, <1>3, <1>5
    <2> QED
      BY <2>2, <1>8 DEF DequeueFails, WriteLost, WriteCancelled, TypeOK
  <1>9. CASE MarkRunning(t)
    <2>1. j \in Jobs /\ row[j] \in Row
      BY <1>2, <1>9 DEF MarkRunning
    <2>2. MarkJobRunning(row[j]) \in Row
      BY <2>1, <1>1, RowTypes
    <2>3. row' \in [Jobs -> Row]
      BY <2>1, <2>2, <1>4, <1>9 DEF MarkRunning
    <2>4. /\ [th[t] EXCEPT !.pc = "running"] \in Thread
          /\ [th[t] EXCEPT !.pc = "running"].job \in Jobs
      BY <2>1, <1>1 DEF Thread, PC
    <2>5. \/ th' = [th EXCEPT ![t] = [th[t] EXCEPT !.pc = "running"]]
          \/ th' = [th EXCEPT ![t] = Idle]
      BY <1>9 DEF MarkRunning
    <2>6. th' \in [Threads -> Thread] /\ Busy'
      BY <2>4, <2>5, <1>3, <1>5
    <2> QED
      BY <2>3, <2>6, <1>9 DEF MarkRunning, TypeOK
  <1>10. CASE Heartbeat(t)
    <2>1. j \in Jobs /\ row[j] \in Row
      BY <1>2, <1>10 DEF Heartbeat
    <2>2. HeartbeatJob(row[j]) \in Row
      BY <2>1, <1>1, RowTypes
    <2>3. row' \in [Jobs -> Row]
      BY <2>1, <2>2, <1>4, <1>10 DEF Heartbeat
    <2> DEFINE x == [th[t] EXCEPT !.lost = ~LeasedBy(j, Proc[t])]
    <2>4. x \in Thread /\ x.job \in Jobs
      BY <2>1, <1>1 DEF Thread, LeasedBy
    <2>5. th' = [th EXCEPT ![t] = x]
      BY <1>10 DEF Heartbeat
    <2>6. th' \in [Threads -> Thread] /\ Busy'
      BY <2>4, <2>5, <1>5
    <2> QED
      BY <2>3, <2>6, <1>10 DEF Heartbeat, TypeOK
  <1>11. CASE RecordStep(t)
    <2>1. j \in Jobs /\ row[j] \in Row
      BY <1>2, <1>11 DEF RecordStep
    <2>2. UpdateJobSteps(row[j], th[t].lease) \in Row
      BY <2>1, <1>1, RowTypes
    <2>3. row' \in [Jobs -> Row]
      BY <2>1, <2>2, <1>4, <1>11 DEF RecordStep
    <2> QED
      BY <2>3, <1>11 DEF RecordStep, TypeOK, Busy
  <1>12. ASSUME NEW ok \in BOOLEAN, HandlerReturns(t, ok)
         PROVE  TypeOK' /\ Busy'
    <2>1. j \in Jobs /\ row[j] \in Row
      BY <1>2, <1>12 DEF HandlerReturns
    <2>2. UpdateJobSteps(row[j], th[t].lease) \in Row
      BY <2>1, <1>1, RowTypes
    <2>3. row' \in [Jobs -> Row]
      BY <2>1, <2>2, <1>4, <1>12 DEF HandlerReturns
    <2> DEFINE p == IF ok THEN "succeeding" ELSE "failing"
               x == [th[t] EXCEPT !.pc = p]
    <2>4. p \in PC
      BY DEF PC
    <2>5. x \in Thread /\ x.job \in Jobs
      <3> HIDE DEF p
      <3> QED
        BY <2>1, <2>4, <1>1 DEF Thread
    <2>6. th' = [th EXCEPT ![t] = x]
      BY <1>12 DEF HandlerReturns
    <2>7. th' \in [Threads -> Thread] /\ Busy'
      BY <2>5, <2>6, <1>5
    <2> QED
      BY <2>3, <2>7, <1>12 DEF HandlerReturns, TypeOK
  <1>13. CASE Succeed(t)
    <2>1. j \in Jobs /\ row[j] \in Row
      BY <1>2, <1>13 DEF Succeed
    <2>2. SucceedJob(row[j]) \in Row
      BY <2>1, <1>1, RowTypes
    <2>3. row' \in [Jobs -> Row]
      BY <2>1, <2>2, <1>4, <1>13 DEF Succeed
    <2>4. th' \in [Threads -> Thread] /\ Busy'
      BY <1>3, <1>5, <1>13 DEF Succeed
    <2> QED
      BY <2>3, <2>4, <1>13 DEF Succeed, TypeOK
  <1>14. CASE Fail(t)
    <2>1. j \in Jobs /\ row[j] \in Row
      BY <1>2, <1>14 DEF Fail
    <2> DEFINE dead == th[t].attempt >= MaxAttempts[j]
    <2>2. FailJob(row[j], dead) \in Row
      <3>1. dead \in BOOLEAN
        OBVIOUS
      <3> HIDE DEF dead
      <3> QED
        BY <2>1, <3>1, <1>1, RowTypes
    <2>3. row' \in [Jobs -> Row]
      BY <2>1, <2>2, <1>4, <1>14 DEF Fail
    <2>4. th' \in [Threads -> Thread] /\ Busy'
      BY <1>3, <1>5, <1>14 DEF Fail
    <2> QED
      BY <2>3, <2>4, <1>14 DEF Fail, TypeOK
  <1> QED
    BY <1>6, <1>7, <1>8, <1>9, <1>10, <1>11, <1>12, <1>13, <1>14
       DEF ThreadStep

\* Every step of the API, of time and of the purge keeps the types.
LEMMA JobStepType ==
    ASSUME TypeOK, Busy, NEW j \in Jobs, JobStep(j)
    PROVE  TypeOK' /\ Busy'
  <1>1. ASSUME NEW k \in Jobs, NEW r \in Row, Write(k, r)
        PROVE  row' \in [Jobs -> Row]
    BY <1>1 DEF Write, TypeOK
  <1>2. row[j] \in Row
    BY DEF TypeOK
  <1>3. CASE Enqueue(j)
    <2>1. PICK later \in BOOLEAN : Write(j, Enqueued(row[j], later))
      BY <1>3 DEF Enqueue
    <2>2. Enqueued(row[j], later) \in Row
      BY <1>2 DEF Enqueued, Row, Status
    <2>3. row' \in [Jobs -> Row]
      BY <2>1, <2>2, <1>1
    <2> QED
      BY <2>3, <1>3 DEF Enqueue, TypeOK, Busy
  <1>4. CASE CancelJobsForDeployments(j) \/ ForgetDeadLetterJob(j)
    <2>1. CancelledRow(row[j]) \in Row
      BY <1>2 DEF CancelledRow, Row, Status
    <2>2. row' \in [Jobs -> Row]
      BY <2>1, <1>1, <1>4 DEF CancelJobsForDeployments, ForgetDeadLetterJob
    <2> QED
      BY <2>2, <1>4
         DEF CancelJobsForDeployments, ForgetDeadLetterJob, TypeOK, Busy
  <1>5. CASE RetryRead(j)
    BY <1>5 DEF RetryRead, TypeOK, Busy
  <1>6. ASSUME NEW n \in Jobs, RetryEnqueue(j, n)
        PROVE  TypeOK' /\ Busy'
    <2>1. row[n] \in Row
      BY DEF TypeOK
    <2>2. Enqueued(row[n], FALSE) \in Row
      BY <2>1 DEF Enqueued, Row, Status
    <2>3. row' \in [Jobs -> Row]
      BY <2>2, <1>1, <1>6 DEF RetryEnqueue
    <2> QED
      BY <2>3, <1>6 DEF RetryEnqueue, TypeOK, Busy
  <1>7. CASE PurgeTerminalJobs(j)
    <2>1. [row[j] EXCEPT !.status = "purged"] \in Row
      BY <1>2 DEF Row, Status
    <2>2. row' \in [Jobs -> Row]
      BY <2>1, <1>1, <1>7 DEF PurgeTerminalJobs
    <2> QED
      BY <2>2, <1>7 DEF PurgeTerminalJobs, TypeOK, Busy
  <1>8. CASE BecomesDue(j)
    <2>1. [row[j] EXCEPT !.due = TRUE] \in Row
      BY <1>2 DEF Row
    <2>2. row' \in [Jobs -> Row]
      BY <2>1, <1>1, <1>8 DEF BecomesDue
    <2> QED
      BY <2>2, <1>8 DEF BecomesDue, TypeOK, Busy
  <1>9. CASE LeaseLapses(j)
    <2>1. [row[j] EXCEPT !.lapsed = TRUE] \in Row
      BY <1>2 DEF Row
    <2>2. row' \in [Jobs -> Row]
      BY <2>1, <1>1, <1>9 DEF LeaseLapses
    <2> QED
      BY <2>2, <1>9 DEF LeaseLapses, TypeOK, Busy
  <1> QED
    BY <1>3, <1>4, <1>5, <1>6, <1>7, <1>8, <1>9 DEF JobStep

\* So do the maintenance loop and the events of a process.
LEMMA SystemStepType ==
    ASSUME TypeOK, Busy, NEW w \in Workers,
           PromoteWaitingJobs \/ ReapExpiredLeases \/ Drain(w) \/ Crash(w)
    PROVE  TypeOK' /\ Busy'
  <1>1. ASSUME NEW r \in Row
        PROVE  Promoted(r) \in Row /\ Reaped(r) \in Row
    <2>1. 0 \in Nat /\ TRUE \in BOOLEAN
      OBVIOUS
    <2> QED
      BY <2>1, RowTypes
  <1>2. CASE PromoteWaitingJobs
    <2>1. row' \in [Jobs -> Row]
      BY <1>1, <1>2 DEF PromoteWaitingJobs, TypeOK
    <2> QED
      BY <2>1, <1>2 DEF PromoteWaitingJobs, TypeOK, Busy
  <1>3. CASE ReapExpiredLeases
    <2>1. row' \in [Jobs -> Row]
      BY <1>1, <1>3 DEF ReapExpiredLeases, TypeOK
    <2> QED
      BY <2>1, <1>3 DEF ReapExpiredLeases, TypeOK, Busy
  <1>4. CASE Drain(w)
    BY <1>4 DEF Drain, TypeOK, Busy
  <1>5. CASE Crash(w)
    <2>1. Idle \in Thread /\ Idle.pc = "idle"
      BY DEF Idle, Thread, PC
    <2>2. th' \in [Threads -> Thread] /\ Busy'
      BY <2>1, <1>5 DEF Crash, TypeOK, Busy
    <2> QED
      BY <2>2, <1>5 DEF Crash, TypeOK
  <1> QED
    BY <1>2, <1>3, <1>4, <1>5

\* The types, with the job of a busy goroutine, are inductive.
LEMMA TypeInductive ==
    /\ Init => TypeOK /\ Busy
    /\ TypeOK /\ Busy /\ [Next]_vars => TypeOK' /\ Busy'
  <1>1. Init => TypeOK /\ Busy
    <2>1. NoRow \in Row
      BY DEF NoRow, Row, Status
    <2>2. Idle \in Thread /\ Idle.pc = "idle"
      BY DEF Idle, Thread, PC
    <2> QED
      BY <2>1, <2>2 DEF Init, TypeOK, Busy
  <1>2. TypeOK /\ Busy /\ [Next]_vars => TypeOK' /\ Busy'
    <2> SUFFICES ASSUME TypeOK, Busy, [Next]_vars
                 PROVE  TypeOK' /\ Busy'
      OBVIOUS
    <2>1. CASE UNCHANGED vars
      BY <2>1 DEF vars, TypeOK, Busy
    <2>2. CASE \E t \in Threads : ThreadStep(t)
      BY <2>2, ThreadStepType
    <2>3. CASE \E j \in Jobs : JobStep(j)
      BY <2>3, JobStepType
    <2>4. CASE PromoteWaitingJobs \/ ReapExpiredLeases
      <3>1. PICK w \in Workers : TRUE
        BY <2>4 DEF PromoteWaitingJobs, ReapExpiredLeases
      <3> QED
        BY <2>4, <3>1, SystemStepType
    <2>5. CASE \E w \in Workers : Drain(w) \/ Crash(w)
      BY <2>5, SystemStepType
    <2> QED
      BY <2>1, <2>2, <2>3, <2>4, <2>5 DEF Next
  <1> QED
    BY <1>1, <1>2

\* Type correctness of the table and of the worker pool, for every instance.
THEOREM TypeCorrect == Spec => []TypeOK
  <1>1. Spec => [](TypeOK /\ Busy)
    BY TypeInductive, PTL DEF Spec
  <1> QED
    BY <1>1, PTL

-----------------------------------------------------------------------------
(* What one step may do to one row.                                        *)

\* The statement DequeueJob of goroutine t commits on row k.
LeaseMove(k, t) ==
    /\ DequeueLease(t)
    /\ th[t].job = k
    /\ row'[k] = DequeueJob(row[k], Proc[t])

\* The FailJob of goroutine t finds its lease on row k.
FailMove(k, t) ==
    /\ th[t].pc = "failing" /\ th[t].job = k
    /\ LeasedBy(k, Proc[t])
    /\ row'[k] = FailJob(row[k], th[t].attempt >= MaxAttempts[k])
    /\ th' = [th EXCEPT ![t] = Idle]

\* The SucceedJob of goroutine t finds its lease on row k.
SucceedMove(k, t) ==
    /\ th[t].pc = "succeeding" /\ th[t].job = k
    /\ LeasedBy(k, Proc[t])
    /\ row'[k] = SucceedJob(row[k])
    /\ th' = [th EXCEPT ![t] = Idle]

\* The reaper takes row k away.
ReapMove(k) ==
    /\ IsActive(k) /\ row[k].lapsed
    /\ row'[k] = Reaped(row[k])
    /\ th' = th

\* A statement that leaves status, owner and counters alone.
QuietMove(k) ==
    \/ row'[k] = row[k]
    \/ row[k].status = "leased" /\ row'[k] = MarkJobRunning(row[k])
    \/ row'[k] = HeartbeatJob(row[k])
    \/ \E t \in Threads :
         /\ th[t].pc = "running" /\ th[t].job = k
         /\ row'[k] = UpdateJobSteps(row[k], th[t].lease)
    \/ row'[k] = [row[k] EXCEPT !.due = TRUE]
    \/ /\ StallsPossible \/ ~Attended(k)
       /\ row'[k] = [row[k] EXCEPT !.lapsed = TRUE]

\* The step writes no other row.
Alone(k) == \A i \in Jobs : i # k => row'[i] = row[i]

\* A producer's or an operator's statement, on a row nobody executes.
OutsideMove(k) ==
    \/ /\ row[k].status = "absent" /\ Alone(k)
       /\ \E b \in BOOLEAN : row'[k] = Enqueued(row[k], b)
    \/ /\ row[k].status = "queued" /\ ~RowLocked(k) /\ Alone(k)
       /\ row'[k] = CancelledRow(row[k])
    \/ row[k].status = "dead_letter" /\ row'[k] = CancelledRow(row[k])
    \/ /\ row[k].status \in {"succeeded", "cancelled"}
       /\ row'[k] = [row[k] EXCEPT !.status = "purged"]
    \/ row[k].status \in Waiting /\ row'[k] = Promoted(row[k])

RowMove(k) ==
    \/ QuietMove(k) \/ OutsideMove(k) \/ ReapMove(k)
    \/ \E t \in Threads : LeaseMove(k, t) \/ SucceedMove(k, t) \/ FailMove(k, t)

\* Every step changes every row by one of these moves.
LEMMA RowMoves ==
    ASSUME TypeOK, Busy, [Next]_vars, NEW k \in Jobs
    PROVE  RowMove(k)
  <1>1. ASSUME NEW r, NEW c \in BOOLEAN, NEW j \in Jobs, WriteIf(c, j, r)
        PROVE  row'[k] = row[k] \/ (c /\ k = j /\ row'[k] = r)
    BY <1>1 DEF WriteIf, TypeOK
  <1>2. ASSUME NEW r, NEW j \in Jobs, Write(j, r)
        PROVE  row'[k] = row[k] \/ (k = j /\ row'[k] = r /\ Alone(k))
    BY <1>2 DEF Write, TypeOK, Alone
  <1>3. ASSUME row'[k] = row[k] PROVE RowMove(k)
    BY <1>3 DEF RowMove, QuietMove
  <1>4. ASSUME NEW t \in Threads, ThreadStep(t)
        PROVE  RowMove(k)
    <2> DEFINE j == th[t].job
    <2>1. th[t].pc # "idle" => j \in Jobs
      BY DEF Busy
    <2>3. CASE UNCHANGED row
      BY <2>3, <1>3
    <2>4. CASE DequeueLease(t)
      BY <2>4, <2>1, <1>2, <1>3 DEF DequeueLease, RowMove, LeaseMove
    <2>5. CASE MarkRunning(t)
      <3> DEFINE held == LeasedBy(j, Proc[t]) /\ row[j].status = "leased"
      <3>1. held \in BOOLEAN /\ j \in Jobs
        BY <2>1, <2>5 DEF MarkRunning, LeasedBy
      <3>2. WriteIf(held, j, MarkJobRunning(row[j]))
        BY <2>5 DEF MarkRunning
      <3>3. row'[k] = row[k] \/ (held /\ k = j /\ row'[k] = MarkJobRunning(row[j]))
        <4> HIDE DEF held
        <4> QED
          BY <3>1, <3>2, <1>1
      <3> QED
        BY <3>3 DEF RowMove, QuietMove
    <2>6. CASE Heartbeat(t)
      <3> DEFINE held == LeasedBy(j, Proc[t])
      <3>1. held \in BOOLEAN /\ j \in Jobs
        BY <2>1, <2>6 DEF Heartbeat, LeasedBy
      <3>2. WriteIf(held, j, HeartbeatJob(row[j]))
        BY <2>6 DEF Heartbeat
      <3>3. row'[k] = row[k] \/ (k = j /\ row'[k] = HeartbeatJob(row[j]))
        <4> HIDE DEF held
        <4> QED
          BY <3>1, <3>2, <1>1
      <3> QED
        BY <3>3 DEF RowMove, QuietMove
    <2>7. CASE RecordStep(t)
      <3>1. row'[k] = row[k]
            \/ (k = j /\ row'[k] = UpdateJobSteps(row[j], th[t].lease))
        BY <2>1, <2>7, <1>2 DEF RecordStep
      <3> QED
        BY <2>7, <3>1 DEF RecordStep, RowMove, QuietMove
    <2>8. ASSUME NEW ok \in BOOLEAN, HandlerReturns(t, ok) PROVE RowMove(k)
      <3> DEFINE live == Serving(Proc[t])
      <3>1. live \in BOOLEAN /\ j \in Jobs
        BY <2>1, <2>8 DEF HandlerReturns, Serving
      <3>2. WriteIf(live, j, UpdateJobSteps(row[j], th[t].lease))
        BY <2>8 DEF HandlerReturns
      <3>3. row'[k] = row[k]
            \/ (k = j /\ row'[k] = UpdateJobSteps(row[j], th[t].lease))
        <4> HIDE DEF live
        <4> QED
          BY <3>1, <3>2, <1>1
      <3> QED
        BY <2>8, <3>3 DEF HandlerReturns, RowMove, QuietMove
    <2>9. CASE Succeed(t)
      <3> DEFINE held == LeasedBy(j, Proc[t])
      <3>1. held \in BOOLEAN /\ j \in Jobs
        BY <2>1, <2>9 DEF Succeed, LeasedBy
      <3>2. WriteIf(held, j, SucceedJob(row[j]))
        BY <2>9 DEF Succeed
      <3>3. row'[k] = row[k] \/ (held /\ k = j /\ row'[k] = SucceedJob(row[j]))
        <4> HIDE DEF held
        <4> QED
          BY <3>1, <3>2, <1>1
      <3>4. CASE row'[k] = row[k]
        BY <3>4, <1>3
      <3>5. CASE held /\ k = j /\ row'[k] = SucceedJob(row[j])
        BY <3>5, <2>9 DEF Succeed, RowMove, SucceedMove
      <3> QED
        BY <3>3, <3>4, <3>5
    <2>10. CASE Fail(t)
      <3> DEFINE held == LeasedBy(j, Proc[t])
                 dead == th[t].attempt >= MaxAttempts[j]
      <3>1. held \in BOOLEAN /\ j \in Jobs
        BY <2>1, <2>10 DEF Fail, LeasedBy
      <3>2. WriteIf(held, j, FailJob(row[j], dead))
        BY <2>10 DEF Fail
      <3>3. row'[k] = row[k] \/ (held /\ k = j /\ row'[k] = FailJob(row[j], dead))
        <4> HIDE DEF held, dead
        <4> QED
          BY <3>1, <3>2, <1>1
      <3>4. CASE row'[k] = row[k]
        BY <3>4, <1>3
      <3>5. CASE held /\ k = j /\ row'[k] = FailJob(row[j], dead)
        BY <3>5, <2>10 DEF Fail, RowMove, FailMove
      <3> QED
        BY <3>3, <3>4, <3>5
    <2> QED
      BY <1>4, <2>3, <2>4, <2>5, <2>6, <2>7, <2>8, <2>9, <2>10
         DEF ThreadStep, DequeueSelect, DequeueFails, WriteLost, WriteCancelled
  <1>5. ASSUME NEW j \in Jobs, JobStep(j)
        PROVE  RowMove(k)
    <2>1. CASE UNCHANGED row
      BY <2>1, <1>3
    <2>2. CASE Enqueue(j)
      <3>1. PICK b \in BOOLEAN : Write(j, Enqueued(row[j], b))
        BY <2>2 DEF Enqueue
      <3>2. row'[k] = row[k]
            \/ (k = j /\ row'[k] = Enqueued(row[j], b) /\ Alone(k))
        BY <3>1, <1>2
      <3> QED
        BY <3>2, <1>3, <2>2 DEF Enqueue, RowMove, OutsideMove
    <2>3. ASSUME NEW n \in Jobs, RetryEnqueue(j, n) PROVE RowMove(k)
      <3>1. row'[k] = row[k]
            \/ (k = n /\ row'[k] = Enqueued(row[n], FALSE) /\ Alone(k))
        BY <2>3, <1>2 DEF RetryEnqueue
      <3> QED
        BY <3>1, <1>3, <2>3 DEF RetryEnqueue, RowMove, OutsideMove
    <2>4. CASE CancelJobsForDeployments(j) \/ ForgetDeadLetterJob(j)
      <3>1. row'[k] = row[k]
            \/ (k = j /\ row'[k] = CancelledRow(row[j]) /\ Alone(k))
        BY <2>4, <1>2 DEF CancelJobsForDeployments, ForgetDeadLetterJob
      <3> QED
        BY <3>1, <1>3, <2>4
           DEF CancelJobsForDeployments, ForgetDeadLetterJob, RowMove,
               OutsideMove
    <2>5. CASE PurgeTerminalJobs(j)
      <3> DEFINE r == [row[j] EXCEPT !.status = "purged"]
      <3>1. Write(j, r)
        BY <2>5 DEF PurgeTerminalJobs
      <3>2. row'[k] = row[k] \/ (k = j /\ row'[k] = r)
        BY <3>1, <1>2
      <3> QED
        BY <3>2, <1>3, <2>5 DEF PurgeTerminalJobs, RowMove, OutsideMove
    <2>6. CASE BecomesDue(j)
      <3> DEFINE r == [row[j] EXCEPT !.due = TRUE]
      <3>1. Write(j, r)
        BY <2>6 DEF BecomesDue
      <3>2. row'[k] = row[k] \/ (k = j /\ row'[k] = r)
        BY <3>1, <1>2
      <3> QED
        BY <3>2 DEF RowMove, QuietMove
    <2>7. CASE LeaseLapses(j)
      <3> DEFINE r == [row[j] EXCEPT !.lapsed = TRUE]
      <3>1. Write(j, r)
        BY <2>7 DEF LeaseLapses
      <3>2. row'[k] = row[k] \/ (k = j /\ row'[k] = r)
        BY <3>1, <1>2
      <3> QED
        BY <3>2, <1>3, <2>7 DEF LeaseLapses, RowMove, QuietMove
    <2> QED
      BY <1>5, <2>1, <2>2, <2>3, <2>4, <2>5, <2>6, <2>7
         DEF JobStep, RetryRead
  <1>6. CASE PromoteWaitingJobs
    BY <1>6, <1>3 DEF PromoteWaitingJobs, RowMove, OutsideMove
  <1>7. CASE ReapExpiredLeases
    BY <1>7, <1>3 DEF ReapExpiredLeases, RowMove, ReapMove
  <1>8. CASE UNCHANGED row
    BY <1>8, <1>3
  <1> QED
    BY <1>4, <1>5, <1>6, <1>7, <1>8 DEF Next, vars, Drain, Crash

\* Quiet moves keep the owner and the counters, and the row on its side of
\* every distinction the invariants make.
LEMMA QuietEffect ==
    ASSUME TypeOK, NEW k \in Jobs, QuietMove(k)
    PROVE  /\ row'[k].status = row[k].status
              \/ (row[k].status = "leased" /\ row'[k].status = "running")
           /\ row'[k].owner = row[k].owner
           /\ row'[k].attempt = row[k].attempt
           /\ row'[k].resumes = row[k].resumes
           /\ row'[k].lease = row[k].lease
           /\ row'[k].failures = row[k].failures
           /\ row'[k].lapsed =>
                row[k].lapsed \/ StallsPossible \/ ~Attended(k)
  <1>1. row[k] \in Row
    BY DEF TypeOK
  <1>2. CASE row'[k] = row[k]
    BY <1>2
  <1>3. CASE row[k].status = "leased" /\ row'[k] = MarkJobRunning(row[k])
    BY <1>1, <1>3 DEF MarkJobRunning, Row
  <1>4. CASE row'[k] = HeartbeatJob(row[k])
    BY <1>1, <1>4 DEF HeartbeatJob, Row
  <1>5. CASE \E n \in {th[t].lease : t \in Threads} :
               row'[k] = UpdateJobSteps(row[k], n)
    BY <1>1, <1>5 DEF UpdateJobSteps, Row
  <1>6. CASE row'[k] = [row[k] EXCEPT !.due = TRUE]
    BY <1>1, <1>6 DEF Row
  <1>7. CASE /\ StallsPossible \/ ~Attended(k)
             /\ row'[k] = [row[k] EXCEPT !.lapsed = TRUE]
    BY <1>1, <1>7 DEF Row
  <1> QED
    BY <1>2, <1>3, <1>4, <1>5, <1>6, <1>7 DEF QuietMove

\* The moves from outside start from an inactive row and keep its counters.
LEMMA OutsideEffect ==
    ASSUME TypeOK, NEW k \in Jobs, OutsideMove(k)
    PROVE  /\ row[k].status \notin Active
           /\ \/ /\ row[k].status \in {"absent"} \cup Waiting
                 /\ row'[k].status \in {"queued", "scheduled"}
              \/ /\ row[k].status \notin {"absent"} \cup Waiting
                 /\ row'[k].status \in {"cancelled", "purged"}
           /\ row[k].status = "queued" => ~RowLocked(k)
           /\ row[k].status \in {"absent", "queued"} => Alone(k)
           /\ row'[k].attempt = row[k].attempt
           /\ row'[k].resumes = row[k].resumes
           /\ row'[k].lease = row[k].lease
           /\ row'[k].failures = row[k].failures
  <1>1. row[k] \in Row
    BY DEF TypeOK
  <1>2. CASE /\ row[k].status = "absent" /\ Alone(k)
             /\ \E b \in BOOLEAN : row'[k] = Enqueued(row[k], b)
    <2>1. PICK b \in BOOLEAN : row'[k] = Enqueued(row[k], b)
      BY <1>2
    <2>2. CASE b
      BY <1>1, <1>2, <2>1, <2>2 DEF Enqueued, Row, Active
    <2>3. CASE ~b
      BY <1>1, <1>2, <2>1, <2>3 DEF Enqueued, Row, Active
    <2> QED
      BY <2>2, <2>3
  <1>3. CASE /\ row[k].status = "queued" /\ ~RowLocked(k) /\ Alone(k)
             /\ row'[k] = CancelledRow(row[k])
    BY <1>1, <1>3 DEF CancelledRow, Row, Active, Waiting
  <1>4. CASE row[k].status = "dead_letter" /\ row'[k] = CancelledRow(row[k])
    BY <1>1, <1>4 DEF CancelledRow, Row, Active, Waiting
  <1>5. CASE /\ row[k].status \in {"succeeded", "cancelled"}
             /\ row'[k] = [row[k] EXCEPT !.status = "purged"]
    BY <1>1, <1>5 DEF Row, Active, Waiting
  <1>6. CASE row[k].status \in Waiting /\ row'[k] = Promoted(row[k])
    BY <1>1, <1>6 DEF Promoted, Row, Active, Waiting
  <1> QED
    BY <1>2, <1>3, <1>4, <1>5, <1>6 DEF OutsideMove

\* The reaper frees a lapsed row, counts the resume and, below the cap, gives
\* the attempt back.
LEMMA ReapEffect ==
    ASSUME TypeOK, NEW k \in Jobs, ReapMove(k)
    PROVE  /\ row[k].status \in Active /\ row[k].lapsed
           /\ row'[k].lease = row[k].lease
           /\ row'[k].failures = row[k].failures
           /\ row'[k].resumes = row[k].resumes + 1
           /\ \/ /\ row'[k].status = "retry_wait"
                 /\ row[k].resumes < MaxResumes
                 /\ row[k].attempt # 0 =>
                      row'[k].attempt = row[k].attempt - 1
              \/ /\ row'[k].status = "dead_letter"
                 /\ row[k].resumes >= MaxResumes
                 /\ row'[k].attempt = row[k].attempt
  <1>1. row[k] \in Row /\ row[k].status \in Active /\ row[k].lapsed
    BY DEF TypeOK, ReapMove, IsActive
  <1>2. row'[k] = Reaped(row[k])
    BY DEF ReapMove
  <1>3. CASE row[k].resumes >= MaxResumes
    BY <1>1, <1>2, <1>3 DEF Reaped, Row
  <1>4. CASE ~(row[k].resumes >= MaxResumes)
    <2>1. row[k].resumes < MaxResumes
      BY <1>1, <1>4, QueueAssumption DEF Row
    <2> QED
      BY <1>1, <1>2, <1>4, <2>1 DEF Reaped, Row
  <1> QED
    BY <1>3, <1>4

\* SucceedJob frees the row.
LEMMA SucceedEffect ==
    ASSUME TypeOK, NEW k \in Jobs, NEW t \in Threads, SucceedMove(k, t)
    PROVE  /\ row[k].status \in Active
           /\ row'[k].status = "succeeded"
           /\ row'[k].attempt = row[k].attempt
           /\ row'[k].lease = row[k].lease
  <1>1. row[k] \in Row /\ row[k].status \in Active
    BY DEF TypeOK, SucceedMove, LeasedBy, IsActive
  <1>2. row'[k] = SucceedJob(row[k])
    BY DEF SucceedMove
  <1> QED
    BY <1>1, <1>2 DEF SucceedJob, Row

\* DequeueJob spends an attempt on a row whose lock_key is free.
LEMMA LeaseEffect ==
    ASSUME TypeOK, NEW k \in Jobs, NEW t \in Threads, LeaseMove(k, t)
    PROVE  /\ th[t].pc = "selected" /\ th[t].job = k
           /\ ~LockHeld(k)
           /\ row'[k].status = "leased"
           /\ row'[k].owner = Proc[t]
           /\ ~row'[k].lapsed
           /\ row'[k].attempt = row[k].attempt + 1
           /\ row'[k].lease = row[k].lease + 1
           /\ row'[k].resumes = row[k].resumes
           /\ row'[k].failures = row[k].failures
  <1>1. row[k] \in Row
    BY DEF TypeOK
  <1>2. row'[k] = DequeueJob(row[k], Proc[t])
    BY DEF LeaseMove
  <1>3. th[t].pc = "selected" /\ th[t].job = k /\ ~LockHeld(k)
    BY DEF LeaseMove, DequeueLease
  <1> QED
    BY <1>1, <1>2, <1>3 DEF DequeueJob, Row

\* FailJob frees the row and records the failure.
LEMMA FailEffect ==
    ASSUME TypeOK, NEW k \in Jobs, NEW t \in Threads, FailMove(k, t)
    PROVE  /\ row[k].status \in Active
           /\ row[k].owner = Proc[t]
           /\ row'[k].status = IF th[t].attempt >= MaxAttempts[k]
                                 THEN "dead_letter" ELSE "retry_wait"
           /\ row'[k].attempt = row[k].attempt
           /\ row'[k].lease = row[k].lease
           /\ row'[k].resumes = row[k].resumes
           /\ row'[k].failures = row[k].failures + 1
  <1> DEFINE dead == th[t].attempt >= MaxAttempts[k]
  <1>1. row[k] \in Row
    BY DEF TypeOK
  <1>2. row'[k] = FailJob(row[k], dead)
    BY DEF FailMove
  <1>3. row[k].status \in Active /\ row[k].owner = Proc[t]
    BY DEF FailMove, LeasedBy, IsActive
  <1> HIDE DEF dead
  <1>4. /\ row'[k].status = IF dead THEN "dead_letter" ELSE "retry_wait"
        /\ row'[k].attempt = row[k].attempt
        /\ row'[k].lease = row[k].lease
        /\ row'[k].resumes = row[k].resumes
        /\ row'[k].failures = row[k].failures + 1
    BY <1>1, <1>2 DEF FailJob, Row
  <1> QED
    BY <1>3, <1>4 DEF dead

-----------------------------------------------------------------------------
(* Mutual exclusion of a lock_key.                                         *)

\* A row becomes active only by a DequeueJob that found its lock_key free.
LEMMA Activation ==
    ASSUME TypeOK, Busy, [Next]_vars, NEW k \in Jobs, IsActive(k)'
    PROVE  \/ IsActive(k)
           \/ \E t \in Threads : LeaseMove(k, t)
  <1>1. row'[k].status \in Active
    BY DEF IsActive
  <1>2. RowMove(k)
    BY RowMoves
  <1>3. CASE QuietMove(k)
    BY <1>1, <1>3, QuietEffect DEF IsActive, Active
  <1>4. CASE OutsideMove(k)
    BY <1>1, <1>4, OutsideEffect DEF Active
  <1>5. CASE ReapMove(k)
    BY <1>1, <1>5, ReapEffect DEF Active
  <1>6. ASSUME NEW t \in Threads, SucceedMove(k, t) \/ FailMove(k, t)
        PROVE  FALSE
    BY <1>1, <1>6, SucceedEffect, FailEffect DEF Active
  <1> QED
    BY <1>2, <1>3, <1>4, <1>5, <1>6 DEF RowMove

\* Of one DequeueJob statement in one step only one row is leased.
LEMMA OneLease ==
    ASSUME TypeOK, Busy, NEW j \in Jobs, NEW k \in Jobs, j # k,
           NEW t \in Threads, LeaseMove(j, t)
    PROVE  row'[k] = row[k]
  BY DEF LeaseMove, DequeueLease, Write, TypeOK

\* The partial unique index and the NOT EXISTS keep the holders of a lock_key
\* apart, whatever the number of goroutines in the middle of a DequeueJob.
LEMMA LockInductive ==
    ASSUME TypeOK, Busy, LockKeyExclusive, [Next]_vars
    PROVE  LockKeyExclusive'
  <1> SUFFICES ASSUME NEW j \in Jobs, NEW k \in Jobs, j # k,
                      LockKey[j] # None, LockKey[j] = LockKey[k],
                      IsActive(j)', IsActive(k)'
               PROVE  FALSE
    BY DEF LockKeyExclusive
  <1>1. ASSUME NEW a \in Jobs, NEW b \in Jobs, a # b, LockKey[a] # None,
               LockKey[a] = LockKey[b], IsActive(b)',
               NEW t \in Threads, LeaseMove(a, t)
        PROVE  FALSE
    <2>1. row'[b] = row[b]
      BY <1>1, OneLease
    <2>2. IsActive(b)
      BY <2>1, <1>1 DEF IsActive
    <2>3. ~LockHeld(a)
      BY <1>1, LeaseEffect
    <2> QED
      BY <1>1, <2>2, <2>3 DEF LockHeld
  <1>2. CASE IsActive(j) /\ IsActive(k)
    BY <1>2 DEF LockKeyExclusive
  <1> QED
    BY <1>1, <1>2, Activation

\* INV-004: two jobs of one lock_key are never leased or running together.
THEOREM LockExclusion == Spec => []LockKeyExclusive
  <1>1. Init => LockKeyExclusive
    BY DEF Init, LockKeyExclusive, IsActive, NoRow, Active
  <1>2. /\ TypeOK /\ Busy /\ LockKeyExclusive /\ [Next]_vars
        => TypeOK' /\ Busy' /\ LockKeyExclusive'
    BY TypeInductive, LockInductive
  <1>3. Spec => [](TypeOK /\ Busy /\ LockKeyExclusive)
    BY <1>1, <1>2, TypeInductive, PTL DEF Spec
  <1> QED
    BY <1>3, PTL

-----------------------------------------------------------------------------
(* What one step may do to one goroutine.                                  *)

Executing(t) == th[t].pc \notin {"idle", "selected"}

\* The goroutine stays where it is, or moves on inside process.
KeepMove(t) ==
    /\ th'[t].job = th[t].job
    /\ th'[t].attempt = th[t].attempt
    /\ th'[t].lease = th[t].lease
    /\ th'[t].pc = th[t].pc \/ (Executing(t) /\ Executing(t)')

SelectMove(t) ==
    /\ th'[t].pc = "selected"
    /\ th'[t].job \in Jobs /\ Eligible(th'[t].job)
    /\ UNCHANGED row
    /\ \A u \in Threads : u # t => th'[u] = th[u]

ThreadMove(t) ==
    \/ KeepMove(t)
    \/ th'[t] = Idle
    \/ SelectMove(t)
    \/ DequeueLease(t) /\ LeaseMove(th[t].job, t)

\* Every step changes every goroutine by one of these moves.
LEMMA ThreadMoves ==
    ASSUME TypeOK, Busy, [Next]_vars, NEW t \in Threads
    PROVE  ThreadMove(t)
  <1>1. th[t] \in Thread
    BY DEF TypeOK
  <1>2. ASSUME th'[t] = th[t] PROVE ThreadMove(t)
    BY <1>2 DEF ThreadMove, KeepMove
  <1>3. ASSUME NEW u \in Threads, ThreadStep(u), u # t
        PROVE  th'[t] = th[t]
    BY <1>3 DEF ThreadStep, DequeueSelect, DequeueLease, DequeueFails,
                MarkRunning, Heartbeat, RecordStep, HandlerReturns, Succeed,
                Fail, WriteLost, WriteCancelled, TypeOK
  <1>4. ASSUME NEW p \in {"running", "succeeding", "failing"}, Executing(t),
               th' = [th EXCEPT ![t].pc = p]
        PROVE  ThreadMove(t)
    <2>1. th'[t] = [th[t] EXCEPT !.pc = p]
      BY <1>4 DEF TypeOK
    <2>2. /\ th'[t].job = th[t].job /\ th'[t].attempt = th[t].attempt
          /\ th'[t].lease = th[t].lease /\ th'[t].pc = p
      BY <2>1, <1>1 DEF Thread
    <2> QED
      BY <2>2, <1>4 DEF ThreadMove, KeepMove, Executing
  <1>5. ASSUME ThreadStep(t) PROVE ThreadMove(t)
    <2> DEFINE j == th[t].job
    <2>1. CASE th' = [th EXCEPT ![t] = Idle]
      BY <2>1 DEF ThreadMove, TypeOK
    <2>2. CASE DequeueSelect(t)
      <3>1. PICK k \in Jobs :
              /\ Eligible(k)
              /\ th' = [th EXCEPT ![t] = [Idle EXCEPT !.pc = "selected",
                                                      !.job = k]]
        BY <2>2 DEF DequeueSelect
      <3>2. th'[t].pc = "selected" /\ th'[t].job = k
        BY <3>1 DEF TypeOK, Idle
      <3>3. \A u \in Threads : u # t => th'[u] = th[u]
        BY <3>1 DEF TypeOK
      <3> QED
        BY <3>1, <3>2, <3>3, <2>2 DEF DequeueSelect, ThreadMove, SelectMove
    <2>3. CASE DequeueLease(t)
      <3>1. j \in Jobs
        BY <2>3 DEF DequeueLease, Busy
      <3>2. row'[j] = DequeueJob(row[j], Proc[t])
        BY <3>1, <2>3 DEF DequeueLease, Write, TypeOK
      <3> QED
        BY <3>2, <2>3 DEF ThreadMove, LeaseMove
    <2>4. CASE MarkRunning(t)
      <3>1. Executing(t)
        BY <2>4 DEF MarkRunning, Executing
      <3> QED
        BY <3>1, <2>1, <2>4, <1>4 DEF MarkRunning
    <2>5. CASE Heartbeat(t)
      <3> DEFINE x == [th[t] EXCEPT !.lost = ~LeasedBy(j, Proc[t])]
      <3>1. th'[t] = x
        BY <2>5 DEF Heartbeat, TypeOK
      <3>2. /\ x.job = th[t].job /\ x.attempt = th[t].attempt
            /\ x.lease = th[t].lease /\ x.pc = th[t].pc
        BY <1>1 DEF Thread
      <3> QED
        BY <3>1, <3>2 DEF ThreadMove, KeepMove
    <2>6. CASE RecordStep(t)
      BY <2>6, <1>2 DEF RecordStep
    <2>7. ASSUME NEW ok \in BOOLEAN, HandlerReturns(t, ok)
          PROVE  ThreadMove(t)
      <3> DEFINE p == IF ok THEN "succeeding" ELSE "failing"
      <3>1. Executing(t)
        BY <2>7 DEF HandlerReturns, Executing
      <3>2. th' = [th EXCEPT ![t].pc = p]
        BY <2>7 DEF HandlerReturns
      <3>3. p \in {"running", "succeeding", "failing"}
        OBVIOUS
      <3> HIDE DEF p
      <3> QED
        BY <3>1, <3>2, <3>3, <1>4
    <2> QED
      BY <1>5, <2>1, <2>2, <2>3, <2>4, <2>5, <2>6, <2>7
         DEF ThreadStep, DequeueFails, Succeed, Fail, WriteLost, WriteCancelled
  <1>6. CASE \E u \in Threads : ThreadStep(u)
    BY <1>6, <1>3, <1>5, <1>2
  <1>7. ASSUME NEW w \in Workers, Crash(w)
        PROVE  ThreadMove(t)
    BY <1>7, <1>2 DEF Crash, ThreadMove
  <1>8. CASE th' = th
    BY <1>8, <1>2
  <1> QED
    BY <1>6, <1>7, <1>8
       DEF Next, vars, JobStep, Enqueue, CancelJobsForDeployments, RetryRead,
           RetryEnqueue, ForgetDeadLetterJob, PurgeTerminalJobs, BecomesDue,
           LeaseLapses, PromoteWaitingJobs, ReapExpiredLeases, Drain

\* A goroutine that commits its DequeueJob remembers the lease it was granted.
LEMMA LeaseRemembered ==
    ASSUME TypeOK, Busy, NEW t \in Threads, LeaseMove(th[t].job, t)
    PROVE  /\ th[t].job \in Jobs
           /\ th'[t].pc = "leased"
           /\ th'[t].job = th[t].job
           /\ th'[t].attempt = row'[th[t].job].attempt
           /\ th'[t].lease = row'[th[t].job].lease
  <1> DEFINE j == th[t].job
  <1>1. DequeueLease(t)
    BY DEF LeaseMove
  <1>2. j \in Jobs
    BY <1>1 DEF DequeueLease, Busy
  <1>3. th'[t] = [pc |-> "leased", job |-> j, attempt |-> row[j].attempt + 1,
                  lease |-> row[j].lease + 1, lost |-> FALSE]
    BY <1>1 DEF DequeueLease, TypeOK
  <1>4. /\ row'[j].attempt = row[j].attempt + 1
        /\ row'[j].lease = row[j].lease + 1
    BY <1>2, LeaseEffect
  <1> QED
    BY <1>2, <1>3, <1>4

-----------------------------------------------------------------------------
(* The counters.  Every worker id names one goroutine, or no process stalls *)
(* past its lease: under either of them the queue invariant is inductive.   *)

OneEach == \A t, u \in Threads : Proc[t] = Proc[u] => t = u

LeaseInv == ~StallsPossible => LeaseHeld

\* A DequeueJob in flight on a row finds it queued, and nobody executing it.
LEMMA SelectedQueued ==
    ASSUME QueueInv, NEW k \in Jobs, NEW t \in Threads,
           th[t].pc = "selected", th[t].job = k
    PROVE  row[k].status = "queued"
  BY DEF QueueInv, RowLocks

\* The counters of a row stay accounted for.
LEMMA AccountedStep ==
    ASSUME TypeOK, Busy, QueueInv, [Next]_vars, NEW k \in Jobs
    PROVE  Accounted(row'[k], k)
  <1> DEFINE r == row[k]
             s == row'[k]
  <1> SUFFICES Accounted(s, k)
    OBVIOUS
  <1>1. /\ r.attempt \in Nat /\ r.resumes \in Nat /\ r.lease \in Nat
        /\ r.failures \in Nat /\ MaxAttempts[k] \in Nat /\ MaxResumes \in Nat
    BY QueueAssumption DEF TypeOK, Row
  <1>2. Accounted(r, k)
    BY DEF QueueInv
  <1>3. CASE QuietMove(k)
    <2>1. /\ s.status = r.status \/ (r.status = "leased" /\ s.status = "running")
          /\ s.attempt = r.attempt /\ s.resumes = r.resumes
          /\ s.lease = r.lease /\ s.failures = r.failures
      BY <1>3, QuietEffect
    <2> HIDE DEF r, s
    <2> QED
      BY <1>2, <2>1 DEF Accounted, Active, Waiting
  <1>4. CASE OutsideMove(k)
    <2>1. /\ \/ /\ r.status \in {"absent"} \cup Waiting
                /\ s.status \in {"queued", "scheduled"}
             \/ s.status \in {"cancelled", "purged"}
          /\ s.attempt = r.attempt /\ s.resumes = r.resumes
          /\ s.lease = r.lease /\ s.failures = r.failures
      BY <1>4, OutsideEffect
    <2> HIDE DEF r, s
    <2> QED
      BY <1>2, <2>1 DEF Accounted, Active, Waiting
  <1>5. CASE ReapMove(k)
    <2>1. /\ r.status \in Active
          /\ s.lease = r.lease /\ s.failures = r.failures
          /\ s.resumes = r.resumes + 1
          /\ \/ /\ s.status = "retry_wait" /\ r.resumes < MaxResumes
                /\ r.attempt # 0 => s.attempt = r.attempt - 1
             \/ /\ s.status = "dead_letter" /\ r.resumes >= MaxResumes
                /\ s.attempt = r.attempt
      BY <1>5, ReapEffect
    <2>2. /\ r.attempt = r.failures + 1 /\ r.attempt <= MaxAttempts[k]
          /\ r.resumes <= MaxResumes /\ r.lease = r.attempt + r.resumes
      BY <1>2, <2>1 DEF Accounted
    <2> HIDE DEF r, s
    <2> QED
      BY <1>1, <2>1, <2>2 DEF Accounted, Active, Waiting
  <1>6. ASSUME NEW t \in Threads, LeaseMove(k, t)
        PROVE  Accounted(s, k)
    <2>1. /\ th[t].pc = "selected" /\ th[t].job = k
          /\ s.status = "leased" /\ s.attempt = r.attempt + 1
          /\ s.lease = r.lease + 1 /\ s.resumes = r.resumes
          /\ s.failures = r.failures
      BY <1>6, LeaseEffect
    <2>2. r.status = "queued"
      BY <2>1, SelectedQueued
    <2>3. /\ r.attempt = r.failures /\ r.attempt < MaxAttempts[k]
          /\ r.resumes <= MaxResumes /\ r.lease = r.attempt + r.resumes
      BY <1>2, <2>2 DEF Accounted
    <2> HIDE DEF r, s
    <2> QED
      BY <1>1, <2>1, <2>3 DEF Accounted, Active, Waiting
  <1>7. ASSUME NEW t \in Threads, SucceedMove(k, t)
        PROVE  Accounted(s, k)
    <2>1. s.status = "succeeded" /\ s.attempt = r.attempt
      BY <1>7, SucceedEffect
    <2> HIDE DEF r, s
    <2> QED
      BY <1>2, <2>1 DEF Accounted, Active, Waiting
  <1>8. ASSUME NEW t \in Threads, FailMove(k, t)
        PROVE  Accounted(s, k)
    <2>1. th[t].attempt = r.attempt
      BY <1>8 DEF FailMove, QueueInv, LeaseKnown
    <2>2. /\ r.status \in Active
          /\ s.status = IF r.attempt >= MaxAttempts[k]
                          THEN "dead_letter" ELSE "retry_wait"
          /\ s.attempt = r.attempt /\ s.lease = r.lease
          /\ s.resumes = r.resumes /\ s.failures = r.failures + 1
      BY <1>8, <2>1, FailEffect
    <2>3. /\ r.attempt = r.failures + 1 /\ r.attempt <= MaxAttempts[k]
          /\ r.resumes <= MaxResumes /\ r.lease = r.attempt + r.resumes
      BY <1>2, <2>2 DEF Accounted
    <2> HIDE DEF r, s
    <2>4. CASE r.attempt >= MaxAttempts[k]
      BY <1>1, <2>2, <2>3, <2>4 DEF Accounted, Active, Waiting
    <2>5. CASE ~(r.attempt >= MaxAttempts[k])
      BY <1>1, <2>2, <2>3, <2>5 DEF Accounted, Active, Waiting
    <2> QED
      BY <2>4, <2>5
  <1>9. RowMove(k)
    BY RowMoves
  <1> QED
    BY <1>3, <1>4, <1>5, <1>6, <1>7, <1>8, <1>9 DEF RowMove

\* A DequeueJob in flight keeps its row queued and to itself.
LEMMA RowLocksStep ==
    ASSUME TypeOK, Busy, QueueInv, [Next]_vars
    PROVE  RowLocks'
  <1>1. Busy'
    BY TypeInductive
  <1> SUFFICES ASSUME NEW t \in Threads, th'[t].pc = "selected"
               PROVE  /\ row'[th'[t].job].status = "queued"
                      /\ \A u \in Threads :
                           /\ th'[u].pc = "selected" /\ th'[u].job = th'[t].job
                           => u = t
    BY <1>1 DEF RowLocks, Busy
  <1> DEFINE k == th'[t].job
  <1>2. k \in Jobs
    BY <1>1 DEF Busy
  <1>3. Idle.pc # "selected"
    BY DEF Idle
  <1>4. ASSUME NEW u \in Threads, th'[u].pc = "selected"
        PROVE  \/ th[u].pc = "selected" /\ th[u].job = th'[u].job
               \/ SelectMove(u)
    <2>1. CASE KeepMove(u)
      BY <1>4, <2>1 DEF KeepMove, Executing
    <2>2. CASE LeaseMove(th[u].job, u)
      BY <1>4, <2>2, LeaseRemembered
    <2> QED
      BY <1>3, <1>4, <2>1, <2>2, ThreadMoves DEF ThreadMove
  <1>5. CASE SelectMove(t)
    <2>1. row' = row /\ row[k].status = "queued" /\ ~RowLocked(k)
      BY <1>5 DEF SelectMove, Eligible
    <2>2. ASSUME NEW u \in Threads, th'[u].pc = "selected", th'[u].job = k,
                 u # t
          PROVE  FALSE
      BY <1>5, <2>1, <2>2 DEF SelectMove, RowLocked
    <2> QED
      BY <2>1, <2>2
  <1>6. CASE th[t].pc = "selected" /\ th[t].job = k
    <2>1. row[k].status = "queued" /\ RowLocked(k)
      BY <1>2, <1>6, SelectedQueued DEF RowLocked
    <2>2. row'[k].status = "queued"
      <3>1. CASE QuietMove(k)
        BY <1>2, <2>1, <3>1, QuietEffect
      <3>2. CASE OutsideMove(k)
        BY <1>2, <2>1, <3>2, OutsideEffect
      <3>3. CASE ReapMove(k)
        BY <1>2, <2>1, <3>3, ReapEffect DEF Active
      <3>4. ASSUME NEW u \in Threads, SucceedMove(k, u) \/ FailMove(k, u)
            PROVE  FALSE
        BY <1>2, <2>1, <3>4, SucceedEffect, FailEffect DEF Active
      <3>5. ASSUME NEW u \in Threads, LeaseMove(k, u)
            PROVE  FALSE
        <4>1. th[u].pc = "selected" /\ th[u].job = k
          BY <1>2, <3>5, LeaseEffect
        <4>2. u = t
          BY <4>1, <1>6 DEF QueueInv, RowLocks
        <4>3. LeaseMove(th[t].job, t)
          BY <4>1, <4>2, <3>5
        <4> QED
          BY <4>3, LeaseRemembered
      <3> QED
        BY <1>2, <3>1, <3>2, <3>3, <3>4, <3>5, RowMoves DEF RowMove
    <2>3. ASSUME NEW u \in Threads, th'[u].pc = "selected", th'[u].job = k
          PROVE  u = t
      <3>1. CASE SelectMove(u)
        BY <2>1, <2>3, <3>1 DEF SelectMove, Eligible
      <3>2. CASE th[u].pc = "selected" /\ th[u].job = k
        BY <3>2, <1>6 DEF QueueInv, RowLocks
      <3> QED
        BY <2>3, <3>1, <3>2, <1>4
    <2> QED
      BY <2>2, <2>3
  <1> QED
    BY <1>4, <1>5, <1>6

\* A goroutine that is inside process after a step was inside it before, on
\* the same row with the same lease, or has just been granted its lease.
LEMMA ExecutingBefore ==
    ASSUME TypeOK, Busy, [Next]_vars, NEW t \in Threads, Executing(t)'
    PROVE  \/ /\ Executing(t)
              /\ th'[t].job = th[t].job
              /\ th'[t].attempt = th[t].attempt
              /\ th'[t].lease = th[t].lease
           \/ LeaseMove(th[t].job, t)
  <1>1. th'[t].pc \notin {"idle", "selected"}
    BY DEF Executing
  <1>2. CASE KeepMove(t)
    BY <1>1, <1>2 DEF KeepMove, Executing
  <1>3. CASE th'[t] = Idle
    BY <1>1, <1>3 DEF Idle
  <1>4. CASE SelectMove(t)
    BY <1>1, <1>4 DEF SelectMove
  <1> QED
    BY <1>2, <1>3, <1>4, ThreadMoves DEF ThreadMove

\* A goroutine whose process owns the lease keeps remembering it.
LEMMA LeaseKnownStep ==
    ASSUME TypeOK, Busy, QueueInv, LeaseInv, OneEach \/ ~StallsPossible,
           [Next]_vars
    PROVE  LeaseKnown'
  <1> SUFFICES ASSUME NEW t \in Threads, Executing(t)',
                      LeasedBy(th[t].job, Proc[t])'
               PROVE  /\ th'[t].attempt = row'[th'[t].job].attempt
                      /\ th'[t].lease = row'[th'[t].job].lease
    BY DEF LeaseKnown, Executing
  <1>1. CASE LeaseMove(th[t].job, t)
    BY <1>1, LeaseRemembered
  <1>2. CASE /\ Executing(t)
             /\ th'[t].job = th[t].job
             /\ th'[t].attempt = th[t].attempt
             /\ th'[t].lease = th[t].lease
    <2> DEFINE k == th[t].job
    <2>1. k \in Jobs
      BY <1>2 DEF Busy, Executing
    <2>2. row'[k].owner = Proc[t] /\ row'[k].status \in Active
      BY <1>2 DEF LeasedBy, IsActive
    <2>3. CASE QuietMove(k)
      <3>1. LeasedBy(k, Proc[t])
        BY <2>1, <2>2, <2>3, QuietEffect DEF LeasedBy, IsActive, Active
      <3>2. th[t].attempt = row[k].attempt /\ th[t].lease = row[k].lease
        BY <3>1, <1>2 DEF QueueInv, LeaseKnown, Executing
      <3> QED
        BY <3>2, <1>2, <2>1, <2>3, QuietEffect
    <2>4. ASSUME NEW u \in Threads, LeaseMove(k, u)
          PROVE  FALSE
      <3>1. th[u].pc = "selected" /\ th[u].job = k /\ row'[k].owner = Proc[u]
        BY <2>1, <2>4, LeaseEffect
      <3>2. row[k].status = "queued"
        BY <2>1, <3>1, SelectedQueued
      <3>3. CASE OneEach
        BY <1>2, <2>2, <3>1, <3>3 DEF OneEach, Executing
      <3>4. CASE ~StallsPossible
        BY <1>2, <3>2, <3>4
           DEF LeaseInv, LeaseHeld, Executing, LeasedBy, IsActive, Active
      <3> QED
        BY <3>3, <3>4
    <2>5. CASE OutsideMove(k)
      BY <2>1, <2>2, <2>5, OutsideEffect DEF Active
    <2>6. CASE ReapMove(k)
      BY <2>1, <2>2, <2>6, ReapEffect DEF Active
    <2>7. ASSUME NEW u \in Threads, SucceedMove(k, u) \/ FailMove(k, u)
          PROVE  FALSE
      BY <2>1, <2>2, <2>7, SucceedEffect, FailEffect DEF Active
    <2> QED
      BY <2>1, <2>3, <2>4, <2>5, <2>6, <2>7, RowMoves DEF RowMove
  <1> QED
    BY <1>1, <1>2, ExecutingBefore

\* Without stalls nothing takes its lease from an executing goroutine.
LEMMA LeaseHeldStep ==
    ASSUME TypeOK, Busy, QueueInv, LeaseHeld, ~StallsPossible, [Next]_vars
    PROVE  LeaseHeld'
  <1> SUFFICES ASSUME NEW t \in Threads, Executing(t)'
               PROVE  /\ LeasedBy(th[t].job, Proc[t])'
                      /\ ~row'[th'[t].job].lapsed
                      /\ th'[t].attempt = row'[th'[t].job].attempt
                      /\ th'[t].lease = row'[th'[t].job].lease
                      /\ \A u \in Threads :
                           Executing(u)' /\ th'[u].job = th'[t].job => u = t
    BY DEF LeaseHeld, Executing
  <1>1. ASSUME NEW u \in Threads, Executing(u)
        PROVE  /\ th[u].job \in Jobs
               /\ row[th[u].job].status \in Active
               /\ row[th[u].job].owner = Proc[u]
               /\ ~row[th[u].job].lapsed
               /\ th[u].attempt = row[th[u].job].attempt
               /\ th[u].lease = row[th[u].job].lease
               /\ \A v \in Threads :
                    Executing(v) /\ th[v].job = th[u].job => v = u
    BY <1>1 DEF Busy, LeaseHeld, Executing, LeasedBy, IsActive
  <1>2. ASSUME NEW u \in Threads, LeaseMove(th[u].job, u)
        PROVE  th[u].job \in Jobs /\ row[th[u].job].status = "queued"
    BY <1>2, LeaseRemembered, LeaseEffect, SelectedQueued
  <1>3. CASE LeaseMove(th[t].job, t)
    <2> DEFINE k == th[t].job
    <2>1. /\ k \in Jobs /\ th'[t].job = k
          /\ th'[t].attempt = row'[k].attempt /\ th'[t].lease = row'[k].lease
      BY <1>3, LeaseRemembered
    <2>2. /\ row'[k].status = "leased" /\ row'[k].owner = Proc[t]
          /\ ~row'[k].lapsed
      BY <1>3, <2>1, LeaseEffect
    <2>3. ASSUME NEW u \in Threads, Executing(u)', th'[u].job = k, u # t
          PROVE  FALSE
      <3>1. th'[u] = th[u]
        BY <1>3, <2>3 DEF LeaseMove, DequeueLease, TypeOK
      <3>2. Executing(u) /\ th[u].job = k
        BY <3>1, <2>3 DEF Executing
      <3> QED
        BY <3>2, <1>1, <1>2, <1>3 DEF Active
    <2> QED
      BY <2>1, <2>2, <2>3 DEF LeasedBy, IsActive, Active
  <1>4. CASE /\ Executing(t)
             /\ th'[t].job = th[t].job
             /\ th'[t].attempt = th[t].attempt
             /\ th'[t].lease = th[t].lease
    <2> DEFINE k == th[t].job
    <2>1. /\ k \in Jobs /\ row[k].status \in Active /\ ~row[k].lapsed
          /\ row[k].owner = Proc[t]
          /\ th[t].attempt = row[k].attempt /\ th[t].lease = row[k].lease
      BY <1>1, <1>4
    <2>2. Attended(k)
      BY <1>4, <2>1 DEF Attended, Executing
    <2>3. QuietMove(k)
      <3>1. CASE OutsideMove(k)
        BY <2>1, <3>1, OutsideEffect
      <3>2. CASE ReapMove(k)
        BY <2>1, <3>2, ReapEffect
      <3>3. ASSUME NEW u \in Threads, LeaseMove(k, u)
            PROVE  FALSE
        <4>1. th[u].job = k
          BY <3>3 DEF LeaseMove
        <4> QED
          BY <4>1, <2>1, <1>2, <3>3 DEF Active
      <3>4. ASSUME NEW u \in Threads, SucceedMove(k, u) \/ FailMove(k, u)
            PROVE  FALSE
        <4>1. Executing(u) /\ th[u].job = k /\ th' = [th EXCEPT ![u] = Idle]
          BY <3>4 DEF SucceedMove, FailMove, Executing
        <4>2. u = t
          BY <4>1, <1>1, <1>4
        <4>3. th'[t] = Idle
          BY <4>1, <4>2 DEF TypeOK
        <4> QED
          BY <4>3 DEF Executing, Idle
      <3> QED
        BY <2>1, <3>1, <3>2, <3>3, <3>4, RowMoves DEF RowMove
    <2>4. /\ row'[k].status \in Active /\ row'[k].owner = Proc[t]
          /\ ~row'[k].lapsed
          /\ row'[k].attempt = row[k].attempt /\ row'[k].lease = row[k].lease
      BY <2>1, <2>2, <2>3, QuietEffect DEF Active
    <2>5. ASSUME NEW u \in Threads, Executing(u)', th'[u].job = k
          PROVE  u = t
      <3>1. CASE Executing(u) /\ th'[u].job = th[u].job
        BY <3>1, <2>5, <1>1, <1>4
      <3>2. CASE LeaseMove(th[u].job, u)
        <4>1. th'[u].job = th[u].job
          BY <3>2, LeaseRemembered
        <4> QED
          BY <4>1, <2>5, <3>2, <1>2, <2>1 DEF Active
      <3> QED
        BY <2>5, <3>1, <3>2, ExecutingBefore
    <2> QED
      BY <1>4, <2>1, <2>4, <2>5 DEF LeasedBy, IsActive
  <1> QED
    BY <1>3, <1>4, ExecutingBefore

\* All together.
FullInv == TypeOK /\ Busy /\ LockKeyExclusive /\ QueueInv /\ LeaseInv

\* The full invariant is inductive.
LEMMA FullInductive ==
    ASSUME OneEach \/ ~StallsPossible
    PROVE  /\ Init => FullInv
           /\ FullInv /\ [Next]_vars => FullInv'
  <1>1. Init => FullInv
    <2> SUFFICES ASSUME Init PROVE FullInv
      OBVIOUS
    <2>1. TypeOK /\ Busy
      BY TypeInductive
    <2>2. /\ \A j \in Jobs : row[j] = NoRow
          /\ \A t \in Threads : th[t].pc = "idle"
      BY DEF Init, Idle
    <2>3. LockKeyExclusive
      BY <2>2 DEF LockKeyExclusive, IsActive, NoRow, Active
    <2>4. \A j \in Jobs : Accounted(row[j], j)
      BY <2>2, QueueAssumption DEF Accounted, NoRow, Active, Waiting
    <2>5. RowLocks /\ LeaseKnown /\ LeaseHeld
      BY <2>2 DEF RowLocks, LeaseKnown, LeaseHeld
    <2> QED
      BY <2>1, <2>3, <2>4, <2>5 DEF FullInv, QueueInv, LeaseInv
  <1>2. FullInv /\ [Next]_vars => FullInv'
    <2> SUFFICES ASSUME FullInv, [Next]_vars PROVE FullInv'
      OBVIOUS
    <2>1. TypeOK /\ Busy /\ LockKeyExclusive /\ QueueInv /\ LeaseInv
      BY DEF FullInv
    <2>2. TypeOK' /\ Busy'
      BY <2>1, TypeInductive
    <2>3. LockKeyExclusive'
      BY <2>1, LockInductive
    <2>4. \A k \in Jobs : Accounted(row'[k], k)
      BY <2>1, AccountedStep
    <2>5. RowLocks' /\ LeaseKnown'
      BY <2>1, RowLocksStep, LeaseKnownStep
    <2>6. LeaseInv'
      BY <2>1, LeaseHeldStep DEF LeaseInv
    <2> QED
      BY <2>2, <2>3, <2>4, <2>5, <2>6 DEF FullInv, QueueInv
  <1> QED
    BY <1>1, <1>2

\* Counters, row locks and remembered leases agree in every reachable state.
THEOREM QueueInvariant ==
    ASSUME OneEach \/ ~StallsPossible
    PROVE  Spec => []QueueInv
  <1>1. Spec => []FullInv
    BY FullInductive, PTL DEF Spec
  <1>2. FullInv => QueueInv
    BY DEF FullInv
  <1> QED
    BY <1>1, <1>2, PTL

\* attempt never passes max_attempts: Worker.fail always meets its ceiling.
THEOREM CeilingHolds ==
    ASSUME OneEach \/ ~StallsPossible
    PROVE  Spec => []AttemptWithinCeiling
  <1>1. QueueInv => AttemptWithinCeiling
    BY DEF QueueInv, Accounted, AttemptWithinCeiling
  <1> QED
    BY <1>1, QueueInvariant, PTL

\* No row is dead-lettered early: max_attempts failures or maxResumes losses.
THEOREM DeadLettersJustified ==
    ASSUME OneEach \/ ~StallsPossible
    PROVE  Spec => []DeadLetterJustified
  <1>1. QueueInv => DeadLetterJustified
    BY DEF QueueInv, Accounted, DeadLetterJustified
  <1> QED
    BY <1>1, QueueInvariant, PTL

\* When leases outlive the pauses of the workers, an executing goroutine holds
\* the current lease of its row, alone.
THEOREM LeasesHeld ==
    ASSUME ~StallsPossible
    PROVE  Spec => []LeaseHeld
  <1>1. Spec => []FullInv
    BY FullInductive, PTL DEF Spec
  <1>2. FullInv => LeaseHeld
    BY DEF FullInv, LeaseInv
  <1> QED
    BY <1>1, <1>2, PTL

\* Then no two handlers of one job or of one lock_key run at once, whatever
\* the number of processes, goroutines and crashes.
THEOREM HandlerExclusion ==
    ASSUME ~StallsPossible
    PROVE  Spec => []HandlersExclusive
  <1>1. Spec => []FullInv
    BY FullInductive, PTL DEF Spec
  <1>2. FullInv => HandlersExclusive
    <2> SUFFICES ASSUME FullInv, NEW t \in Threads, NEW u \in Threads, t # u,
                        InHandler(t), InHandler(u)
                 PROVE  /\ th[t].job # th[u].job
                        /\ LockKey[th[t].job] # None =>
                             LockKey[th[t].job] # LockKey[th[u].job]
      BY DEF HandlersExclusive
    <2>1. th[t].job \in Jobs /\ th[u].job \in Jobs
      BY DEF FullInv, Busy, InHandler
    <2>2. /\ IsActive(th[t].job) /\ IsActive(th[u].job)
          /\ th[t].job # th[u].job
      BY DEF FullInv, LeaseInv, LeaseHeld, LeasedBy, InHandler
    <2> QED
      BY <2>1, <2>2 DEF FullInv, LockKeyExclusive
  <1> QED
    BY <1>1, <1>2, PTL

\* The verdict a goroutine writes concerns the lease it was granted, never a
\* later one of the same process.
THEOREM HolderCompletes ==
    ASSUME OneEach \/ ~StallsPossible
    PROVE  Spec => OnlyHolderCompletes
  <1> DEFINE Rightful ==
        \A t \in Threads :
          LET j == th[t].job IN
          /\ th[t].pc \in {"succeeding", "failing"} /\ th'[t] = Idle
          /\ IsActive(j) /\ row'[j].status \notin Active
          => th[t].lease = row[j].lease
  <1>1. FullInv /\ [Next]_vars => Rightful
    <2> SUFFICES ASSUME FullInv, [Next]_vars, NEW t \in Threads,
                        th[t].pc \in {"succeeding", "failing"}, th'[t] = Idle,
                        IsActive(th[t].job),
                        row'[th[t].job].status \notin Active
                 PROVE  th[t].lease = row[th[t].job].lease
      OBVIOUS
    <2> DEFINE k == th[t].job
    <2>1. TypeOK /\ Busy /\ k \in Jobs /\ row[k].status \in Active
      BY DEF FullInv, Busy, IsActive
    <2>2. th'[t] # th[t]
      BY DEF Idle
    <2>3. CASE QuietMove(k)
      BY <2>1, <2>3, QuietEffect DEF Active
    <2>4. CASE OutsideMove(k)
      BY <2>1, <2>4, OutsideEffect
    <2>5. CASE ReapMove(k)
      BY <2>2, <2>5 DEF ReapMove
    <2>6. ASSUME NEW u \in Threads, LeaseMove(k, u)
          PROVE  FALSE
      BY <2>1, <2>6, LeaseEffect DEF Active
    <2>7. ASSUME NEW u \in Threads, SucceedMove(k, u) \/ FailMove(k, u)
          PROVE  th[t].lease = row[k].lease
      <3>1. th' = [th EXCEPT ![u] = Idle] /\ LeasedBy(k, Proc[u])
        BY <2>7 DEF SucceedMove, FailMove
      <3>2. u = t
        BY <2>1, <2>2, <3>1 DEF TypeOK
      <3> QED
        BY <3>1, <3>2 DEF FullInv, QueueInv, LeaseKnown
    <2> QED
      BY <2>1, <2>3, <2>4, <2>5, <2>6, <2>7, RowMoves DEF RowMove
  <1>2. Spec => []FullInv
    BY FullInductive, PTL DEF Spec
  <1>3. FullInv /\ [Next]_vars => [Rightful]_vars
    BY <1>1
  <1>4. OnlyHolderCompletes <=> [][Rightful]_vars
    BY DEF OnlyHolderCompletes
  <1> HIDE DEF Rightful
  <1> QED
    BY <1>2, <1>3, <1>4, PTL DEF Spec

-----------------------------------------------------------------------------
(* The step timeline.                                                      *)

\* A row shows the timeline of a lease that was granted.
StepsGranted == \A j \in Jobs : row[j].steps <= row[j].lease

\* The one statement that writes a timeline comes from the holder of the lease;
\* every other one keeps it.
LEMMA StepsMove ==
    ASSUME FullInv, ~StallsPossible, StepsGranted, [Next]_vars, NEW k \in Jobs
    PROVE  row'[k].steps >= row[k].steps /\ row'[k].steps <= row'[k].lease
  <1>1. TypeOK /\ Busy /\ LeaseHeld
    BY DEF FullInv, LeaseInv
  <1>2. row[k] \in Row /\ row[k].steps \in Nat /\ row[k].lease \in Nat
    BY <1>1 DEF TypeOK, Row
  <1>3. row[k].steps <= row[k].lease
    BY DEF StepsGranted
  <1>4. CASE row'[k].steps = row[k].steps /\ row'[k].lease \in {row[k].lease, row[k].lease + 1}
    BY <1>2, <1>3, <1>4
  <1>5. ASSUME NEW t \in Threads, th[t].pc = "running", th[t].job = k,
               row'[k] = UpdateJobSteps(row[k], th[t].lease)
        PROVE  row'[k].steps >= row[k].steps /\ row'[k].steps <= row'[k].lease
    <2>1. th[t].lease = row[k].lease
      BY <1>1, <1>5 DEF LeaseHeld
    <2>2. row'[k].steps = row[k].lease /\ row'[k].lease = row[k].lease
      BY <1>2, <1>5, <2>1 DEF UpdateJobSteps, Row
    <2> QED
      BY <1>2, <1>3, <2>2
  <1>6. CASE QuietMove(k)
    <2>1. CASE \/ row'[k] = row[k]
               \/ row'[k] = MarkJobRunning(row[k])
               \/ row'[k] = HeartbeatJob(row[k])
               \/ row'[k] = [row[k] EXCEPT !.due = TRUE]
               \/ row'[k] = [row[k] EXCEPT !.lapsed = TRUE]
      <3>1. row'[k].steps = row[k].steps /\ row'[k].lease = row[k].lease
        BY <1>2, <2>1 DEF MarkJobRunning, HeartbeatJob, Row
      <3> QED
        BY <1>4, <3>1
    <2> QED
      BY <1>5, <1>6, <2>1 DEF QuietMove
  <1>7. CASE OutsideMove(k) \/ ReapMove(k)
    <2>1. row'[k].steps = row[k].steps /\ row'[k].lease = row[k].lease
      BY <1>2, <1>7 DEF OutsideMove, ReapMove, Enqueued, CancelledRow, Promoted, Reaped, Row
    <2> QED
      BY <1>4, <2>1
  <1>8. ASSUME NEW t \in Threads, LeaseMove(k, t) \/ SucceedMove(k, t) \/ FailMove(k, t)
        PROVE  row'[k].steps >= row[k].steps /\ row'[k].steps <= row'[k].lease
    <2>1. /\ row'[k].steps = row[k].steps
          /\ row'[k].lease \in {row[k].lease, row[k].lease + 1}
      BY <1>2, <1>8 DEF LeaseMove, SucceedMove, FailMove, DequeueJob, SucceedJob, FailJob, Row
    <2> QED
      BY <1>4, <2>1
  <1> QED
    BY <1>1, <1>6, <1>7, <1>8, RowMoves DEF RowMove

\* Although UpdateJobSteps is not fenced by the lease, without stalls the
\* timeline of a row never goes back to that of an older lease.
THEOREM TimelineAdvances ==
    ASSUME ~StallsPossible
    PROVE  Spec => StepsMonotone
  <1> DEFINE Advances == \A j \in Jobs : row'[j].steps >= row[j].steps
  <1>1. Init => StepsGranted
    BY DEF Init, StepsGranted, NoRow
  <1>2. FullInv /\ StepsGranted /\ [Next]_vars => StepsGranted' /\ Advances
    <2> SUFFICES ASSUME FullInv, StepsGranted, [Next]_vars
                 PROVE  \A j \in Jobs : /\ row'[j].steps >= row[j].steps
                                        /\ row'[j].steps <= row'[j].lease
      BY DEF StepsGranted
    <2> QED
      BY StepsMove
  <1>3. Spec => []FullInv
    BY FullInductive, PTL DEF Spec
  <1>4. StepsMonotone <=> [][Advances]_row
    BY DEF StepsMonotone
  <1> HIDE DEF Advances
  <1> QED
    BY <1>1, <1>2, <1>3, <1>4, PTL DEF Spec

-----------------------------------------------------------------------------
(* The queue implements its contract.                                      *)

\* Seen from outside, a step that neither submits, withdraws nor leases the row
\* keeps its phase or ends its run.
Calm(k) ==
    /\ row'[k].lease = row[k].lease
    /\ \/ Phase(row'[k].status) = Phase(row[k].status)
       \/ /\ Phase(row[k].status) = "active"
          /\ Phase(row'[k].status) \in {"pending", "done"}

\* What each move is, seen from outside.
LEMMA PhaseOfMove ==
    ASSUME FullInv, [Next]_vars, NEW k \in Jobs
    PROVE  \/ Calm(k)
           \/ /\ row[k].status = "absent" /\ Alone(k)
              /\ row'[k].lease = row[k].lease
              /\ row'[k].status \in {"queued", "scheduled"}
           \/ /\ row[k].status = "queued" /\ Alone(k)
              /\ row'[k].lease = row[k].lease
              /\ row'[k].status \in {"cancelled", "purged"}
           \/ \E t \in Threads : LeaseMove(k, t)
  <1>1. TypeOK /\ Busy /\ row[k] \in Row /\ row[k].status \in Status
    BY DEF FullInv, TypeOK, Row
  <1>2. CASE QuietMove(k)
    <2>1. /\ row'[k].status = row[k].status
             \/ (row[k].status = "leased" /\ row'[k].status = "running")
          /\ row'[k].lease = row[k].lease
      BY <1>1, <1>2, QuietEffect
    <2> QED
      BY <2>1 DEF Calm, Phase, Active, Waiting
  <1>3. CASE OutsideMove(k)
    <2>1. /\ row[k].status \notin Active
          /\ \/ /\ row[k].status \in {"absent"} \cup Waiting
                /\ row'[k].status \in {"queued", "scheduled"}
             \/ /\ row[k].status \notin {"absent"} \cup Waiting
                /\ row'[k].status \in {"cancelled", "purged"}
          /\ row[k].status \in {"absent", "queued"} => Alone(k)
          /\ row'[k].lease = row[k].lease
      BY <1>1, <1>3, OutsideEffect
    <2> QED
      BY <1>1, <2>1 DEF Calm, Phase, Active, Waiting, Status
  <1>4. CASE ReapMove(k)
    <2>1. /\ row[k].status \in Active /\ row'[k].lease = row[k].lease
          /\ row'[k].status \in {"retry_wait", "dead_letter"}
      BY <1>1, <1>4, ReapEffect
    <2> QED
      BY <2>1 DEF Calm, Phase, Active, Waiting
  <1>5. ASSUME NEW t \in Threads, SucceedMove(k, t) \/ FailMove(k, t)
        PROVE  Calm(k)
    <2>1. /\ row[k].status \in Active /\ row'[k].lease = row[k].lease
          /\ row'[k].status \in {"succeeded", "retry_wait", "dead_letter"}
      BY <1>1, <1>5, SucceedEffect, FailEffect
    <2> QED
      BY <2>1 DEF Calm, Phase, Active, Waiting
  <1> QED
    BY <1>1, <1>2, <1>3, <1>4, <1>5, RowMoves DEF RowMove

\* Every step of the queue is a step of the contract.
LEMMA ContractStep ==
    ASSUME FullInv, [Next]_vars
    PROVE  Contract!ContractNext
  <1>1. TypeOK /\ Busy
    BY DEF FullInv
  <1>2. /\ phaseBar = [k \in Jobs |-> Phase(row[k].status)]
        /\ phaseBar' = [k \in Jobs |-> Phase(row'[k].status)]
        /\ runsBar = [k \in Jobs |-> row[k].lease]
        /\ runsBar' = [k \in Jobs |-> row'[k].lease]
    BY DEF phaseBar, runsBar
  <1>3. ASSUME NEW k \in Jobs, row[k].status = "absent", Alone(k),
               row'[k].lease = row[k].lease,
               row'[k].status \in {"queued", "scheduled"}
        PROVE  Contract!Submit(k)
    <2>1. Phase(row[k].status) = "none" /\ Phase(row'[k].status) = "pending"
      BY <1>3 DEF Phase, Active, Waiting
    <2>2. phaseBar' = [i \in Jobs |-> IF i \in {k} THEN "pending"
                                                   ELSE phaseBar[i]]
      BY <1>2, <1>3, <2>1 DEF Alone
    <2>3. runsBar' = runsBar
      BY <1>2, <1>3 DEF Alone
    <2> QED
      BY <1>2, <2>1, <2>2, <2>3 DEF Contract!Submit, Contract!Move
  <1>4. ASSUME NEW k \in Jobs, row[k].status = "queued", Alone(k),
               row'[k].lease = row[k].lease,
               row'[k].status \in {"cancelled", "purged"}
        PROVE  Contract!Withdraw(k)
    <2>1. Phase(row[k].status) = "pending" /\ Phase(row'[k].status) = "done"
      BY <1>4 DEF Phase, Active, Waiting
    <2>2. phaseBar' = [i \in Jobs |-> IF i \in {k} THEN "done"
                                                   ELSE phaseBar[i]]
      BY <1>2, <1>4, <2>1 DEF Alone
    <2>3. runsBar' = runsBar
      BY <1>2, <1>4 DEF Alone
    <2> QED
      BY <1>2, <2>1, <2>2, <2>3 DEF Contract!Withdraw, Contract!Move
  <1>5. ASSUME NEW k \in Jobs, NEW t \in Threads, LeaseMove(k, t)
        PROVE  Contract!Start(k)
    <2>1. /\ th[t].pc = "selected" /\ th[t].job = k /\ ~LockHeld(k)
          /\ row'[k].status = "leased" /\ row'[k].lease = row[k].lease + 1
      BY <1>1, <1>5, LeaseEffect
    <2>2. row[k].status = "queued" /\ Accounted(row[k], k)
      BY <2>1, SelectedQueued DEF FullInv, QueueInv
    <2>3. Alone(k)
      BY <1>1, <1>5, OneLease DEF Alone
    <2>4. Phase(row[k].status) = "pending" /\ Phase(row'[k].status) = "active"
      BY <2>1, <2>2 DEF Phase, Active, Waiting
    <2>5. phaseBar' = [i \in Jobs |-> IF i \in {k} THEN "active"
                                                   ELSE phaseBar[i]]
      BY <1>2, <2>3, <2>4 DEF Alone
    <2>6. runsBar' = [runsBar EXCEPT ![k] = runsBar[k] + 1]
      BY <1>2, <2>1, <2>3 DEF Alone
    <2>7. runsBar[k] < BudgetBar[k]
      <3>1. /\ row[k].attempt \in Nat /\ row[k].resumes \in Nat
            /\ MaxAttempts[k] \in Nat /\ MaxResumes \in Nat
        BY <1>1, QueueAssumption DEF TypeOK, Row
      <3>2. /\ row[k].attempt < MaxAttempts[k] /\ row[k].resumes <= MaxResumes
            /\ row[k].lease = row[k].attempt + row[k].resumes
        BY <2>2 DEF Accounted
      <3>3. runsBar[k] = row[k].lease /\ BudgetBar[k] = MaxAttempts[k] + MaxResumes
        BY <1>2 DEF BudgetBar
      <3> QED
        BY <3>1, <3>2, <3>3
    <2>8. ASSUME LockKey[k] # None, NEW i \in Jobs \ {k},
                 LockKey[i] = LockKey[k]
          PROVE  phaseBar[i] # "active"
      <3>1. row[i].status \notin Active
        BY <2>1, <2>8 DEF LockHeld, IsActive
      <3> QED
        BY <1>2, <3>1 DEF Phase
    <2> QED
      BY <1>2, <2>4, <2>5, <2>6, <2>7, <2>8 DEF Contract!Start, Contract!Move
  <1>6. ASSUME \A k \in Jobs : Calm(k)
        PROVE  \E S \in SUBSET Jobs : Contract!Stop(S)
    <2> DEFINE S == {k \in Jobs : phaseBar'[k] # phaseBar[k]}
    <2>1. \A k \in S : phaseBar[k] = "active" /\ phaseBar'[k] \in {"pending", "done"}
      BY <1>2, <1>6 DEF Calm
    <2>2. \A k \in Jobs : k \notin S => phaseBar'[k] = phaseBar[k]
      OBVIOUS
    <2>3. runsBar' = runsBar
      BY <1>2, <1>6 DEF Calm
    <2>4. phaseBar' \in [Jobs -> {"none", "pending", "active", "done"}]
      BY <1>2 DEF Phase
    <2>5. S \in SUBSET Jobs
      OBVIOUS
    <2> HIDE DEF S
    <2>6. Contract!Stop(S)
      BY <2>1, <2>2, <2>3, <2>4, <2>5 DEF Contract!Stop
    <2> QED
      BY <2>5, <2>6
  <1> QED
    BY <1>3, <1>4, <1>5, <1>6, PhaseOfMove DEF Contract!ContractNext

\* Under the same condition the queue implements the contract its producers
\* rely on: at most max_attempts + maxResumes runs of a job, one active job per
\* lock_key, and a job that is done stays done.
THEOREM QueueImplementsContract ==
    ASSUME OneEach \/ ~StallsPossible
    PROVE  Spec => ImplementsContract
  <1>1. Init => Contract!ContractInit
    BY DEF Init, NoRow, phaseBar, runsBar, Phase, Active, Waiting,
           Contract!ContractInit
  <1>2. Spec => []FullInv
    BY FullInductive, PTL DEF Spec
  <1>3. FullInv /\ [Next]_vars => [Contract!ContractNext]_(Contract!contractVars)
    BY ContractStep
  <1> QED
    BY <1>1, <1>2, <1>3, PTL
       DEF Spec, ImplementsContract, Contract!ContractSpec

=============================================================================
