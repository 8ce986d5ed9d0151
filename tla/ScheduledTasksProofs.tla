------------------------ MODULE ScheduledTasksProofs ------------------------
(***************************************************************************)
(* While nothing goes wrong, an occurrence of a scheduled task opens one   *)
(* execution and its command is run once, for any cron expressions that    *)
(* match some time, any number of executions and replicas, any retry       *)
(* ceiling and any edits.                                                  *)
(*                                                                         *)
(* Two arguments meet.  The window lies beyond every occurrence that has   *)
(* fired, because a pass moves it strictly past the clock it read before   *)
(* it decided; edits may only drop the window.  That needs passes not to   *)
(* overlap, which the lock gives as long as no session is lost.  And an    *)
(* execution is queued once, by whoever opened it, so that its job runs    *)
(* the command on one attempt only.                                        *)
(***************************************************************************)
EXTENDS ScheduledTasks, TLAPS

\* What holds while nothing has gone wrong.
Clean ==
    /\ \A p \in Replicas : WorksUnderLock(p) /\ ReadStillGood(p) /\ OwnExecution(p)
    /\ WindowAhead /\ OwnManual
    /\ \A x \in Execs : RunOnce(x)
    /\ FiredOnce

\* cronexpr.Schedule.Next: strictly after the time it is given.
LEMMA NextIsLater ==
    ASSUME 0 \notin Periods, NEW c \in Periods, NEW t \in Nat
    PROVE  NextAfter(c, t) \in Nat /\ NextAfter(c, t) > t
  <1>1. c \in Nat \ {0}
    BY TaskAssumption
  <1> QED
    BY <1>1 DEF NextAfter

-----------------------------------------------------------------------------
(* Types.                                                                  *)

LEMMA SchedTypes ==
    ASSUME TypeOK, NEW p \in Replicas,
           \/ Elect(p) \/ LoseSession(p) \/ NoticeClosed(p) \/ Restart(p)
           \/ StepDown(p) \/ Crash(p)
    PROVE  SchedTypeOK'
  <1>1. Trouble => trouble' \in 0 .. MaxTrouble
    BY SchedulerAssumption DEF TypeOK, SchedTypeOK, Trouble
  <1>2. SchedTypeOK
    BY DEF TypeOK
  <1>3. CASE Elect(p)
    BY <1>2, <1>3 DEF Elect, SchedTypeOK
  <1>4. CASE LoseSession(p)
    BY <1>1, <1>2, <1>4 DEF LoseSession, SchedTypeOK
  <1>5. CASE NoticeClosed(p)
    BY <1>2, <1>5 DEF NoticeClosed, SchedTypeOK
  <1>6. CASE Restart(p)
    BY <1>2, <1>6 DEF Restart, SchedTypeOK
  <1>7. CASE StepDown(p)
    BY <1>2, <1>7 DEF StepDown, SchedTypeOK
  <1>8. CASE Crash(p)
    BY <1>1, <1>2, <1>8 DEF Crash, SchedTypeOK
  <1> QED
    BY <1>3, <1>4, <1>5, <1>6, <1>7, <1>8

\* A statement fails or does not: the scheduler's types stand, and in the
\* latter case only can nothing have gone wrong.
LEMMA FailTypes ==
    ASSUME TypeOK, StatementFails \/ UNCHANGED schedVars
    PROVE  /\ SchedTypeOK'
           /\ StatementFails => trouble' # 0
           /\ UNCHANGED schedVars => trouble' = trouble
  <1>1. StatementFails => trouble' \in 0 .. MaxTrouble /\ trouble' # 0
    BY SchedulerAssumption DEF TypeOK, SchedTypeOK, Trouble, StatementFails
  <1> QED
    BY <1>1 DEF TypeOK, SchedTypeOK, StatementFails, schedVars

LEMMA PassWritten ==
    ASSUME TypeOK, NEW p \in Replicas, NEW x \in PassState,
           pass' = [pass EXCEPT ![p] = x]
    PROVE  /\ pass' \in [Replicas -> PassState] /\ pass'[p] = x
           /\ \A q \in Replicas \ {p} : pass'[q] = pass[q]
  BY DEF TypeOK

LEMMA JobWritten ==
    ASSUME TypeOK, NEW x \in Execs, NEW j \in JobState,
           job' = [job EXCEPT ![x] = j]
    PROVE  /\ job' \in [Execs -> JobState] /\ job'[x] = j
           /\ \A y \in Execs \ {x} : job'[y] = job[y]
  BY DEF TypeOK

LEMMA PassFields ==
    ASSUME TypeOK, NEW p \in Replicas
    PROVE  /\ pass[p].pc \in {"idle", "decide", "create", "enqueue", "advance"}
           /\ pass[p].cron \in Periods \cup {0} /\ pass[p].next \in Nat
           /\ pass[p].at \in Nat /\ pass[p].at \in 0 .. Horizon
           /\ pass[p].id \in Execs \cup {0}
  BY TaskAssumption DEF TypeOK, PassState

LEMMA IdleType == /\ Idle \in PassState /\ Idle.pc = "idle"
                  /\ Idle \in ApiState /\ NoJob \in JobState
  BY TaskAssumption DEF Idle, PassState, ApiState, NoJob, JobState

\* What a job becomes when its attempt fails, and when its worker dies.
LEMMA JobOutcomes ==
    ASSUME NEW j \in JobState
    PROVE  /\ Retried(j) \in JobState /\ Retried(j).pc \in {"waiting", "dead"}
           /\ Resumed(j) \in JobState
           /\ Over("done") \in JobState /\ Over("done").pc = "done"
  <1>1. /\ Over("done") \in JobState /\ Over("done").pc = "done"
        /\ Over("dead") \in JobState /\ Over("dead").pc = "dead"
    BY TaskAssumption DEF Over, NoJob, JobState
  <1>2. j.tries \in 0 .. MaxAttempts - 1 /\ j.resumes \in 0 .. MaxResumes
    BY DEF JobState
  <1>3. j.tries + 1 < MaxAttempts => j.tries + 1 \in 0 .. MaxAttempts - 1
    BY <1>2, TaskAssumption
  <1>4. j.resumes < MaxResumes => j.resumes + 1 \in 0 .. MaxResumes
    BY <1>2, TaskAssumption
  <1>5. Retried(j) \in JobState /\ Retried(j).pc \in {"waiting", "dead"}
    BY <1>1, <1>3 DEF Retried, JobState
  <1>6. Resumed(j) \in JobState
    BY <1>1, <1>4 DEF Resumed, JobState
  <1> QED
    BY <1>1, <1>5, <1>6

\* Only one replica has a pass, if nothing has gone wrong.
LEMMA Alone ==
    ASSUME Clean, NEW p \in Replicas, role[p] = "leader"
    PROVE  \A q \in Replicas \ {p} : pass[q].pc = "idle"
  BY SchedulerAssumption DEF Clean, WorksUnderLock

-----------------------------------------------------------------------------
(* The clock and the API.                                                  *)

\* Time passes, and an edit moves nothing but the row: at most it drops the
\* window.
LEMMA EditStep ==
    ASSUME TypeOK, trouble = 0 => Clean,
           \/ TimePasses \/ Delete
           \/ \E c \in Periods : EditCron(c)
           \/ \E on \in BOOLEAN : SetEnabled(on)
    PROVE  TypeOK' /\ (trouble' = 0 => Clean')
  <1>0. UNCHANGED <<lock, role, conn, trouble, pass, api, exec, job, occ, ran>>
    BY DEF TimePasses, Delete, EditCron, SetEnabled, Edit, schedVars, history
  <1>1. /\ now' \in 0 .. Horizon /\ now <= now' /\ now \in Nat /\ now' \in Nat
        /\ cron' \in Periods
        /\ next' \in {next, 0} /\ status' \in {"on", "off", "deleted"}
        /\ edits' \in 0 .. MaxEdits /\ misled' = misled /\ since' \in 0 .. Horizon
    <2>1. now \in 0 .. Horizon /\ edits \in 0 .. MaxEdits /\ since \in 0 .. Horizon
      BY DEF TypeOK
    <2>2. CASE TimePasses
      BY <2>1, <2>2, TaskAssumption DEF TimePasses, TypeOK, history
    <2>3. CASE Delete
      BY <2>1, <2>3, TaskAssumption DEF Delete, Edit, TypeOK
    <2>4. CASE \E c \in Periods : EditCron(c)
      BY <2>1, <2>4, TaskAssumption DEF EditCron, Edit, TypeOK
    <2>5. CASE \E on \in BOOLEAN : SetEnabled(on)
      BY <2>1, <2>5, TaskAssumption DEF SetEnabled, Edit, TypeOK
    <2> QED
      BY <2>2, <2>3, <2>4, <2>5
  <1>2. TypeOK'
    BY <1>0, <1>1 DEF TypeOK, SchedTypeOK
  <1>3. ASSUME trouble' = 0 PROVE Clean'
    <2>1. Clean
      BY <1>0, <1>3
    <2>2. \A p \in Replicas : WorksUnderLock(p)' /\ OwnExecution(p)'
      BY <1>0, <2>1 DEF Clean, WorksUnderLock, OwnExecution
    <2>3. ASSUME NEW p \in Replicas PROVE ReadStillGood(p)'
      <3>1. ReadStillGood(p) /\ pass[p].at \in Nat
        BY <2>1, PassFields DEF Clean
      <3>2. pass[p].at <= now => pass[p].at <= now'
        BY <1>1, <3>1
      <3> QED
        BY <1>0, <3>1, <3>2 DEF ReadStillGood
    <2>4. WindowAhead' /\ OwnManual'
      BY <1>0, <1>1, <2>1 DEF Clean, WindowAhead, OwnManual
    <2>5. ASSUME NEW x \in Execs PROVE RunOnce(x)'
      <3>1. RunOnce(x) /\ occ[x] \in Nat
        BY <2>1 DEF Clean, TypeOK
      <3>2. occ[x] <= now'
        BY <1>1, <3>1 DEF RunOnce
      <3> QED
        BY <1>0, <3>1, <3>2 DEF RunOnce
    <2>6. FiredOnce'
      BY <1>0, <2>1 DEF Clean, FiredOnce
    <2> QED
      BY <2>2, <2>3, <2>4, <2>5, <2>6 DEF Clean
  <1> QED
    BY <1>2, <1>3

-----------------------------------------------------------------------------
(* The leader.                                                             *)

\* A step that changes one pass and neither executions nor jobs.
LEMMA PassMoves ==
    ASSUME TypeOK, trouble = 0 => Clean, NEW p \in Replicas, NEW x \in PassState,
           pass' = [pass EXCEPT ![p] = x],
           UNCHANGED <<lock, role, conn, trouble, now, cron, status, edits, api,
                       exec, job, occ, ran, since>>,
           misled' \in BOOLEAN, next' \in Nat,
           x.pc # "enqueue", x.pc # "idle" => x.cron \in Periods,
           trouble = 0 => /\ role[p] = "leader"
                          /\ ReadStillGood(p)' /\ WindowAhead'
    PROVE  TypeOK' /\ (trouble' = 0 => Clean')
  <1>1. /\ pass' \in [Replicas -> PassState] /\ pass'[p] = x
        /\ \A q \in Replicas \ {p} : pass'[q] = pass[q]
    BY PassWritten
  <1>2. TypeOK'
    BY <1>1 DEF TypeOK, SchedTypeOK
  <1>3. ASSUME trouble = 0 PROVE Clean'
    <2>1. Clean
      BY <1>3
    <2>2. \A q \in Replicas : /\ WorksUnderLock(q)' /\ OwnExecution(q)'
                              /\ ReadStillGood(q)'
      BY <1>1, <1>3, <2>1 DEF Clean, WorksUnderLock, OwnExecution, ReadStillGood
    <2>3. \A y \in Execs : RunOnce(y)'
      BY <2>1 DEF Clean, RunOnce
    <2>4. FiredOnce' /\ WindowAhead' /\ OwnManual'
      BY <1>3, <2>1 DEF Clean, FiredOnce, OwnManual
    <2> QED
      BY <2>2, <2>3, <2>4 DEF Clean
  <1> QED
    BY <1>2, <1>3

\* The window is read when no other pass has it to move.
LEMMA ListStep ==
    ASSUME TypeOK, trouble = 0 => Clean, NEW p \in Replicas, ListTasks(p)
    PROVE  TypeOK' /\ (trouble' = 0 => Clean')
  <1> DEFINE x == [Idle EXCEPT !.pc = "decide", !.cron = cron, !.next = next,
                               !.at = now]
  <1>0. /\ pass' = [pass EXCEPT ![p] = x] /\ role[p] = "leader"
        /\ pass[p].pc = "idle" /\ next <= now
        /\ UNCHANGED <<lock, role, conn, trouble, now, cron, status, edits, api,
                       exec, job, occ, ran, since, misled, next>>
    BY DEF ListTasks, MayCron, schedVars, task, history
  <1>1. /\ x \in PassState /\ x.pc = "decide" /\ x.cron = cron /\ x.next = next
        /\ x.at = now /\ now \in Nat /\ cron \in Periods
    <2>1. now \in 0 .. Horizon /\ cron \in Periods /\ next \in Nat
      BY DEF TypeOK
    <2>2. now \in Nat /\ cron \in Nat
      BY <2>1, TaskAssumption
    <2>3. x \in PassState
      BY <2>1, <2>2 DEF Idle, PassState
    <2>4. /\ x.pc = "decide" /\ x.cron = cron /\ x.next = next /\ x.at = now
      BY <2>1, <2>2 DEF Idle
    <2> QED
      BY <2>1, <2>2, <2>3, <2>4
  <1> HIDE DEF x
  <1>2. /\ pass'[p] = x /\ \A q \in Replicas \ {p} : pass'[q] = pass[q]
    BY <1>0, <1>1, PassWritten
  <1>3. ASSUME trouble = 0
        PROVE  ReadStillGood(p)' /\ WindowAhead'
    <2>1. Clean
      BY <1>3
    <2>2. next = 0 \/ \A y \in Execs : occ[y] < next
      BY <1>0, <2>1, Alone DEF Clean, WindowAhead
    <2>3. \A y \in Execs : occ[y] <= now
      BY <2>1 DEF Clean, RunOnce
    <2>4. ReadStillGood(p)'
      BY <1>0, <1>1, <1>2, <2>2, <2>3 DEF ReadStillGood, TypeOK
    <2> QED
      BY <1>0, <2>2, <2>4 DEF WindowAhead
  <1>4. misled' \in BOOLEAN /\ next' \in Nat
    BY <1>0 DEF TypeOK
  <1> QED
    BY <1>0, <1>1, <1>3, <1>4, PassMoves

\* The pass goes on to move the window, or to fire.
LEMMA DecideStep ==
    ASSUME TypeOK, trouble = 0 => Clean, NEW p \in Replicas,
           Seed(p) \/ SkipMissed(p) \/ SkipOverlap(p) \/ Fire(p)
    PROVE  TypeOK' /\ (trouble' = 0 => Clean')
  <1>0. /\ UNCHANGED <<lock, role, conn, trouble, now, cron, status, edits, api,
                       exec, job, occ, ran, since, next>>
        /\ pass[p].pc = "decide"
    BY DEF Seed, SkipMissed, SkipOverlap, Fire, Due, schedVars, task, history
  <1>1. misled' \in BOOLEAN /\ next' \in Nat
    BY <1>0 DEF TypeOK, Seed, SkipMissed, SkipOverlap, Fire, history
  <1>2. PICK x \in PassState :
           /\ pass' = [pass EXCEPT ![p] = x]
           /\ x.cron = pass[p].cron /\ x.cron \in Periods /\ x.at = pass[p].at
           /\ \/ x.pc = "advance"
              \/ x.pc = "create" /\ x.next = pass[p].next /\ x.next # 0
    <2>0. pass[p].cron \in Periods
      BY <1>0 DEF TypeOK
    <2>1. CASE Advance(p)
      <3> DEFINE x == [pass[p] EXCEPT !.pc = "advance", !.next = 0, !.id = 0]
      <3>1. /\ x \in PassState /\ x.pc = "advance" /\ x.cron = pass[p].cron
            /\ x.at = pass[p].at /\ pass' = [pass EXCEPT ![p] = x]
        BY <2>1 DEF Advance, TypeOK, PassState
      <3> QED
        BY <2>0, <3>1
    <2>2. CASE Fire(p)
      <3> DEFINE x == [pass[p] EXCEPT !.pc = "create"]
      <3>1. /\ x \in PassState /\ x.pc = "create" /\ x.cron = pass[p].cron
            /\ x.at = pass[p].at /\ x.next = pass[p].next /\ pass[p].next # 0
            /\ pass' = [pass EXCEPT ![p] = x]
        BY <2>2 DEF Fire, Due, TypeOK, PassState
      <3> QED
        BY <2>0, <3>1
    <2> QED
      BY <2>1, <2>2 DEF Seed, SkipMissed, SkipOverlap
  <1>3. pass'[p] = x /\ \A q \in Replicas \ {p} : pass'[q] = pass[q]
    BY <1>2, PassWritten
  <1>4. ASSUME trouble = 0
        PROVE  role[p] = "leader" /\ ReadStillGood(p)' /\ WindowAhead'
    <2>1. Clean /\ role[p] = "leader"
      BY <1>0, <1>4 DEF Clean, WorksUnderLock
    <2>2. next = 0 \/ \A y \in Execs : occ[y] < next
      BY <1>0, <2>1, Alone DEF Clean, WindowAhead
    <2>3. ReadStillGood(p)
      BY <2>1 DEF Clean
    <2>4. ReadStillGood(p)'
      BY <1>0, <1>2, <1>3, <2>3 DEF ReadStillGood
    <2> QED
      BY <1>0, <2>1, <2>2, <2>4 DEF WindowAhead
  <1> QED
    BY <1>0, <1>1, <1>2, <1>4, PassMoves

\* The window is moved strictly past the clock the pass read, and so past
\* every occurrence that has fired.
LEMMA AdvanceStep ==
    ASSUME 0 \notin Periods, TypeOK, trouble = 0 => Clean, NEW p \in Replicas,
           AdvanceTask(p)
    PROVE  TypeOK' /\ (trouble' = 0 => Clean')
  <1>0. /\ UNCHANGED <<lock, role, conn, trouble, now, cron, status, edits, api,
                       exec, job, occ, ran, since, misled>>
        /\ pass[p].pc = "advance" /\ pass' = [pass EXCEPT ![p] = Idle]
        /\ next' = IF NextAfter(pass[p].cron, pass[p].at) = 0 THEN next
                  ELSE NextAfter(pass[p].cron, pass[p].at)
    BY DEF AdvanceTask, schedVars, history
  <1>1. pass'[p] = Idle /\ \A q \in Replicas \ {p} : pass'[q] = pass[q]
    BY <1>0, IdleType, PassWritten
  <1>2. pass[p].at \in Nat /\ \A x \in Execs : occ[x] \in Nat
    BY PassFields DEF TypeOK
  <1>3. pass[p].cron \in Periods /\ next' \in Nat /\ next' > pass[p].at
    <2>1. pass[p].cron \in Periods
      BY <1>0 DEF TypeOK
    <2> QED
      BY <1>0, <1>2, <2>1, NextIsLater
  <1>4. ASSUME trouble = 0
        PROVE  role[p] = "leader" /\ ReadStillGood(p)' /\ WindowAhead'
    <2>1. Clean /\ role[p] = "leader"
      BY <1>0, <1>4 DEF Clean, WorksUnderLock
    <2>2. \A x \in Execs : occ[x] <= pass[p].at
      BY <1>0, <2>1 DEF Clean, ReadStillGood
    <2>3. \A x \in Execs : occ'[x] < next'
      BY <1>0, <1>2, <1>3, <2>2
    <2> QED
      BY <1>1, <2>1, <2>3, IdleType DEF WindowAhead, ReadStillGood
  <1>5. misled' \in BOOLEAN
    BY <1>0 DEF TypeOK
  <1> QED
    BY <1>0, <1>3, <1>4, <1>5, IdleType, PassMoves

\* The occurrence that fires is later than every one that has fired.
LEMMA CreateStep ==
    ASSUME TypeOK, trouble = 0 => Clean, NEW p \in Replicas, CreateExecution(p)
    PROVE  TypeOK' /\ (trouble' = 0 => Clean')
  <1>0. /\ UNCHANGED <<lock, role, conn, trouble, now, cron, next, status, edits,
                       api, job, ran, misled, since>>
        /\ pass[p].pc = "create"
    BY DEF CreateExecution, schedVars, task
  <1>1. PICK z \in Fresh :
           /\ exec' = [exec EXCEPT ![z] = "running"]
           /\ occ' = [occ EXCEPT ![z] = pass[p].next]
           /\ pass' = [pass EXCEPT ![p].pc = "enqueue", ![p].id = z]
    BY DEF CreateExecution
  <1>2. z \in Execs /\ exec[z] = "none" /\ pass[p].next \in Nat
    BY PassFields DEF Fresh
  <1> DEFINE x == [pass[p] EXCEPT !.pc = "enqueue", !.id = z]
  <1>3. /\ x \in PassState /\ x.pc = "enqueue" /\ x.id = z
        /\ x.cron = pass[p].cron /\ x.at = pass[p].at
        /\ pass' = [pass EXCEPT ![p] = x]
    BY <1>1, <1>2 DEF TypeOK, PassState
  <1> HIDE DEF x
  <1>4. /\ pass' \in [Replicas -> PassState] /\ pass'[p] = x
        /\ \A q \in Replicas \ {p} : pass'[q] = pass[q]
    BY <1>3, PassWritten
  <1>5. /\ exec' \in [Execs -> {"none", "running", "closed"}]
        /\ occ' \in [Execs -> Nat]
        /\ exec'[z] = "running" /\ occ'[z] = pass[p].next
        /\ \A y \in Execs \ {z} : exec'[y] = exec[y] /\ occ'[y] = occ[y]
    BY <1>1, <1>2 DEF TypeOK
  <1>6. TypeOK'
    BY <1>0, <1>2, <1>3, <1>4, <1>5 DEF TypeOK, SchedTypeOK
  <1>7. ASSUME trouble = 0 PROVE Clean'
    <2>1. Clean /\ role[p] = "leader"
      BY <1>0, <1>7 DEF Clean, WorksUnderLock
    <2>2. \A q \in Replicas \ {p} : pass[q].pc = "idle"
      BY <2>1, Alone
    <2>3. /\ pass[p].next # 0 /\ pass[p].next <= pass[p].at /\ pass[p].at <= now
          /\ \A y \in Execs : occ[y] < pass[p].next /\ occ[y] <= pass[p].at
      BY <1>0, <2>1 DEF Clean, ReadStillGood
    <2>4. pass[p].at \in Nat /\ now \in Nat /\ \A y \in Execs : occ[y] \in Nat
      BY PassFields, TaskAssumption DEF TypeOK
    <2>5. job[z].pc = "none" /\ RunOnce(z) /\ \A y \in Execs : RunOnce(y)
      BY <1>2, <2>1 DEF Clean, RunOnce
    <2>6. \A q \in Replicas : WorksUnderLock(q)'
      BY <1>0, <1>4, <2>1 DEF Clean, WorksUnderLock
    <2>7. \A q \in Replicas : ReadStillGood(q)'
      BY <1>0, <1>3, <1>4, <1>5, <2>2, <2>3 DEF ReadStillGood
    <2>8. api.pc = "enqueue" => /\ api.id \in Execs /\ exec[api.id] # "none"
                                /\ job[api.id].pc = "none"
      BY <2>1 DEF Clean, OwnManual, TypeOK
    <2>9. \A q \in Replicas : OwnExecution(q)'
      <3> SUFFICES ASSUME NEW q \in Replicas PROVE OwnExecution(q)'
        OBVIOUS
      <3>1. CASE q = p
        BY <1>0, <1>2, <1>3, <1>4, <1>5, <2>5, <2>8, <3>1 DEF OwnExecution
      <3>2. CASE q # p
        BY <1>0, <1>2, <1>4, <1>5, <2>2, <2>8, <3>2 DEF OwnExecution
      <3> QED
        BY <3>1, <3>2
    <2>10. WindowAhead' /\ OwnManual'
      BY <1>0, <1>2, <1>3, <1>4, <1>5, <2>8 DEF WindowAhead, OwnManual
    <2>11. \A y \in Execs : RunOnce(y)'
      <3>1. occ'[z] <= now
        BY <1>2, <1>5, <2>3, <2>4
      <3> QED
        BY <1>0, <1>2, <1>5, <2>5, <3>1 DEF RunOnce
    <2>12. FiredOnce'
      <3>1. \A y \in Execs \ {z} : occ'[y] # occ'[z]
        BY <1>2, <1>5, <2>3, <2>4
      <3>2. \A y, w \in Execs \ {z} : occ'[y] = occ'[w] /\ occ'[y] # 0 => y = w
        BY <1>5, <1>7, <2>1 DEF Clean, FiredOnce
      <3>3. \A y \in Execs : ran'[y] <= 1
        BY <1>0, <1>7, <2>1 DEF Clean, FiredOnce
      <3> QED
        BY <3>1, <3>2, <3>3 DEF FiredOnce
    <2> QED
      BY <2>6, <2>7, <2>9, <2>10, <2>11, <2>12 DEF Clean
  <1> QED
    BY <1>0, <1>6, <1>7

\* An execution is queued by the one who opened it, for the first time.
LEMMA QueueJob ==
    ASSUME TypeOK, NEW z \in Execs, job' = [job EXCEPT ![z].pc = "waiting"]
    PROVE  /\ job' \in [Execs -> JobState] /\ job'[z].pc = "waiting"
           /\ \A y \in Execs \ {z} : job'[y] = job[y]
  <1> DEFINE j == [job[z] EXCEPT !.pc = "waiting"]
  <1>1. j \in JobState /\ j.pc = "waiting" /\ job' = [job EXCEPT ![z] = j]
    BY DEF TypeOK, JobState
  <1> HIDE DEF j
  <1> QED
    BY <1>1, JobWritten

LEMMA EnqueueStep ==
    ASSUME TypeOK, trouble = 0 => Clean, NEW p \in Replicas, EnqueueExecution(p)
    PROVE  TypeOK' /\ (trouble' = 0 => Clean')
  <1> DEFINE z == pass[p].id
             x == [pass[p] EXCEPT !.pc = "advance", !.next = 0, !.id = 0]
  <1>0. /\ UNCHANGED <<lock, role, conn, trouble, now, cron, next, status, edits,
                       api, exec, occ, ran, misled, since>>
        /\ pass[p].pc = "enqueue" /\ job' = [job EXCEPT ![z].pc = "waiting"]
    BY DEF EnqueueExecution, schedVars, task, history
  <1>1. /\ z \in Execs
        /\ job' \in [Execs -> JobState] /\ job'[z].pc = "waiting"
        /\ \A y \in Execs \ {z} : job'[y] = job[y]
    BY <1>0, QueueJob DEF TypeOK
  <1>2. /\ x \in PassState /\ x.pc = "advance" /\ x.cron = pass[p].cron
        /\ x.at = pass[p].at /\ pass' = [pass EXCEPT ![p] = x]
    BY DEF EnqueueExecution, Advance, TypeOK, PassState
  <1> HIDE DEF x, z
  <1>3. /\ pass' \in [Replicas -> PassState] /\ pass'[p] = x
        /\ \A q \in Replicas \ {p} : pass'[q] = pass[q]
    BY <1>2, PassWritten
  <1>4. TypeOK'
    BY <1>0, <1>1, <1>2, <1>3 DEF TypeOK, SchedTypeOK
  <1>5. ASSUME trouble = 0 PROVE Clean'
    <2>1. Clean /\ role[p] = "leader"
      BY <1>0, <1>5 DEF Clean, WorksUnderLock
    <2>2. \A q \in Replicas \ {p} : pass[q].pc = "idle"
      BY <2>1, Alone
    <2>3. z \in Execs /\ exec[z] # "none" /\ job[z].pc = "none"
      BY <1>0, <1>1, <2>1 DEF Clean, OwnExecution, z
    <2>4. api.pc = "enqueue" => /\ api.id \in Execs /\ exec[api.id] # "none"
                                /\ job[api.id].pc = "none" /\ api.id # z
      BY <1>0, <2>1 DEF Clean, OwnExecution, OwnManual, TypeOK, z
    <2>5. \A q \in Replicas : /\ WorksUnderLock(q)' /\ ReadStillGood(q)'
                              /\ OwnExecution(q)'
      BY <1>0, <1>1, <1>2, <1>3, <2>1, <2>2, <2>4
         DEF Clean, WorksUnderLock, ReadStillGood, OwnExecution
    <2>6. WindowAhead' /\ OwnManual'
      BY <1>0, <1>1, <1>2, <1>3, <2>4 DEF WindowAhead, OwnManual
    <2>7. \A y \in Execs : RunOnce(y)'
      BY <1>0, <1>1, <2>1, <2>3 DEF Clean, RunOnce
    <2>8. FiredOnce'
      BY <1>0, <2>1 DEF Clean, FiredOnce
    <2> QED
      BY <2>5, <2>6, <2>7, <2>8 DEF Clean
  <1> QED
    BY <1>0, <1>4, <1>5

\* A pass that fails has met trouble; so has a process that dies.
LEMMA PassFailsStep ==
    ASSUME TypeOK, NEW p \in Replicas, PassFails(p)
    PROVE  TypeOK' /\ trouble' # 0
  <1>1. /\ pass' \in [Replicas -> PassState] /\ pass'[p] = Idle
        /\ \A q \in Replicas \ {p} : pass'[q] = pass[q]
    BY IdleType, PassWritten DEF PassFails
  <1>2. SchedTypeOK' /\ trouble' # 0
    BY FailTypes DEF PassFails
  <1>3. UNCHANGED <<now, cron, next, status, edits, api, exec, job, occ, ran,
                    misled, since>>
    BY DEF PassFails, task, history
  <1> QED
    BY <1>1, <1>2, <1>3, IdleType DEF TypeOK

\* While nothing goes wrong, the only step of the election is that a follower
\* takes a lock that nobody holds.
LEMMA ElectionCore ==
    ASSUME TypeOK, trouble = 0 => Clean, NEW p \in Replicas, ElectionStep(p)
    PROVE  TypeOK' /\ (trouble' = 0 => Clean')
  <1>0. UNCHANGED <<now, cron, next, status, edits, api, exec, job, occ, ran,
                    misled, since>>
    BY DEF ElectionStep, task, history
  <1>1. /\ pass' \in [Replicas -> PassState]
        /\ \A q \in Replicas : pass'[q] \in {pass[q], Idle}
    BY IdleType DEF ElectionStep, TypeOK
  <1>2. SchedTypeOK'
    BY SchedTypes DEF ElectionStep
  <1>3. TypeOK'
    BY <1>0, <1>1, <1>2, IdleType DEF TypeOK
  <1>4. ASSUME trouble' = 0 PROVE Clean'
    <2>1. /\ trouble \in Nat /\ ~Trouble
      BY <1>4, SchedulerAssumption DEF TypeOK, SchedTypeOK, Trouble
    <2>2. UNCHANGED pass /\ trouble = 0
      BY <1>4, <2>1
         DEF ElectionStep, Elect, LoseSession, NoticeClosed, Restart, StepDown, Crash
    <2>3. Clean
      BY <2>2
    <2>4. \A q \in Replicas : WorksUnderLock(q)'
      <3>1. CASE Elect(p)
        <4>1. \A q \in Replicas : role[q] # "leader"
          BY <2>3, <3>1, SchedulerAssumption DEF Elect, Clean, WorksUnderLock
        <4> QED
          BY <2>2, <2>3, <3>1, <4>1
             DEF Elect, Clean, WorksUnderLock, TypeOK, SchedTypeOK
      <3>2. CASE NoticeClosed(p)
        BY <2>2, <2>3, <3>2
           DEF NoticeClosed, Clean, WorksUnderLock, TypeOK, SchedTypeOK
      <3>3. CASE Restart(p)
        BY <2>2, <2>3, <3>3 DEF Restart, Clean, WorksUnderLock, TypeOK, SchedTypeOK
      <3>4. CASE StepDown(p)
        BY <2>2, <2>3, <3>4 DEF StepDown, Clean, WorksUnderLock
      <3> QED
        BY <2>1, <3>1, <3>2, <3>3, <3>4 DEF ElectionStep, LoseSession, Crash
    <2>5. \A q \in Replicas : ReadStillGood(q)' /\ OwnExecution(q)'
      BY <1>0, <2>2, <2>3 DEF Clean, ReadStillGood, OwnExecution
    <2>6. /\ WindowAhead' /\ OwnManual' /\ FiredOnce'
          /\ \A x \in Execs : RunOnce(x)'
      BY <1>0, <2>2, <2>3 DEF Clean, WindowAhead, OwnManual, FiredOnce, RunOnce
    <2> QED
      BY <2>4, <2>5, <2>6 DEF Clean
  <1> QED
    BY <1>3, <1>4

-----------------------------------------------------------------------------
(* The manual run.                                                         *)

LEMMA ApiFields ==
    TypeOK => /\ api \in ApiState /\ api.id \in Execs \cup {0}
              /\ api.pc \in {"idle", "create", "enqueue", "over"}
  BY DEF TypeOK, ApiState

\* The check, and a run that fails.
LEMMA ManualOnly ==
    ASSUME TypeOK, trouble = 0 => Clean, ManualCheck \/ ManualFails
    PROVE  TypeOK' /\ (trouble' = 0 => Clean')
  <1>0. UNCHANGED <<now, cron, next, status, edits, pass, exec, job, occ, ran,
                    misled, since>>
    BY DEF ManualCheck, ManualFails, task, history
  <1>1. api' \in ApiState /\ api'.pc # "enqueue"
    <2>1. api' \in {[api EXCEPT !.pc = "create"], [Idle EXCEPT !.pc = "over"]}
      BY DEF ManualCheck, ManualFails
    <2>2. api \in ApiState
      BY DEF TypeOK
    <2>3. /\ [api EXCEPT !.pc = "create"] \in ApiState
          /\ [api EXCEPT !.pc = "create"].pc = "create"
      BY <2>2 DEF ApiState
    <2>4. /\ [Idle EXCEPT !.pc = "over"] \in ApiState
          /\ [Idle EXCEPT !.pc = "over"].pc = "over"
      BY DEF ApiState, Idle
    <2> QED
      BY <2>1, <2>3, <2>4
  <1>2. SchedTypeOK' /\ (StatementFails => trouble' # 0)
    BY FailTypes DEF ManualCheck, ManualFails
  <1>3. TypeOK'
    BY <1>0, <1>1, <1>2 DEF TypeOK
  <1>4. ASSUME trouble' = 0 PROVE Clean'
    <2>1. UNCHANGED schedVars
      BY <1>2, <1>4 DEF ManualCheck, ManualFails
    <2>2. Clean /\ UNCHANGED <<lock, role, conn, trouble>>
      BY <1>4, <2>1 DEF schedVars
    <2>3. \A q \in Replicas : /\ WorksUnderLock(q)' /\ ReadStillGood(q)'
                              /\ OwnExecution(q)'
      BY <1>0, <1>1, <2>2 DEF Clean, WorksUnderLock, ReadStillGood, OwnExecution
    <2>4. /\ WindowAhead' /\ OwnManual' /\ FiredOnce'
          /\ \A x \in Execs : RunOnce(x)'
      BY <1>0, <1>1, <2>2 DEF Clean, WindowAhead, OwnManual, FiredOnce, RunOnce
    <2> QED
      BY <2>3, <2>4 DEF Clean
  <1> QED
    BY <1>3, <1>4

\* The manual run opens a row of its own, for no occurrence.
LEMMA ManualCreateStep ==
    ASSUME TypeOK, trouble = 0 => Clean, ManualCreate
    PROVE  TypeOK' /\ (trouble' = 0 => Clean')
  <1>0. UNCHANGED <<lock, role, conn, trouble, now, cron, next, status, edits,
                    pass, job, occ, ran, misled, since>>
    BY DEF ManualCreate, schedVars, task, history
  <1>1. PICK z \in Fresh :
           /\ exec' = [exec EXCEPT ![z] = "running"]
           /\ api' = [api EXCEPT !.pc = "enqueue", !.id = z]
    BY DEF ManualCreate
  <1>2. z \in Execs /\ exec[z] = "none"
    BY DEF Fresh
  <1>3. api' \in ApiState /\ api'.pc = "enqueue" /\ api'.id = z
    BY <1>1, <1>2 DEF TypeOK, ApiState
  <1>4. /\ exec' \in [Execs -> {"none", "running", "closed"}]
        /\ exec'[z] = "running" /\ \A y \in Execs \ {z} : exec'[y] = exec[y]
    BY <1>1, <1>2 DEF TypeOK
  <1>5. TypeOK'
    BY <1>0, <1>2, <1>3, <1>4 DEF TypeOK, SchedTypeOK
  <1>6. ASSUME trouble = 0 PROVE Clean'
    <2>1. Clean /\ job[z].pc = "none"
      BY <1>2, <1>6 DEF Clean, RunOnce
    <2>2. \A q \in Replicas : pass[q].pc = "enqueue" =>
             /\ pass[q].id \in Execs /\ exec[pass[q].id] # "none"
             /\ job[pass[q].id].pc = "none"
      BY <2>1 DEF Clean, OwnExecution, TypeOK
    <2>3. OwnManual' /\ \A q \in Replicas : OwnExecution(q)'
      BY <1>0, <1>2, <1>3, <1>4, <2>1, <2>2 DEF OwnExecution, OwnManual
    <2>4. \A q \in Replicas : WorksUnderLock(q)' /\ ReadStillGood(q)'
      BY <1>0, <2>1 DEF Clean, WorksUnderLock, ReadStillGood
    <2>5. \A x \in Execs : RunOnce(x)'
      BY <1>0, <1>4, <2>1 DEF Clean, RunOnce
    <2>6. WindowAhead' /\ FiredOnce'
      BY <1>0, <2>1 DEF Clean, WindowAhead, FiredOnce
    <2> QED
      BY <2>3, <2>4, <2>5, <2>6 DEF Clean
  <1> QED
    BY <1>0, <1>5, <1>6

LEMMA ManualEnqueueStep ==
    ASSUME TypeOK, trouble = 0 => Clean, ManualEnqueue
    PROVE  TypeOK' /\ (trouble' = 0 => Clean')
  <1> DEFINE z == api.id
  <1>0. /\ UNCHANGED <<lock, role, conn, trouble, now, cron, next, status, edits,
                       pass, exec, occ, ran, misled, since>>
        /\ api.pc = "enqueue" /\ job' = [job EXCEPT ![z].pc = "waiting"]
        /\ api' = [Idle EXCEPT !.pc = "over"]
    BY DEF ManualEnqueue, schedVars, task, history
  <1>1. /\ z \in Execs
        /\ job' \in [Execs -> JobState] /\ job'[z].pc = "waiting"
        /\ \A y \in Execs \ {z} : job'[y] = job[y]
    BY <1>0, QueueJob DEF TypeOK
  <1>2. api' \in ApiState /\ api'.pc = "over"
    BY <1>0 DEF ApiState, Idle
  <1>3. TypeOK'
    BY <1>0, <1>1, <1>2 DEF TypeOK, SchedTypeOK
  <1>4. ASSUME trouble = 0 PROVE Clean'
    <2>1. Clean
      BY <1>4
    <2>2. /\ exec[z] # "none" /\ job[z].pc = "none"
          /\ \A q \in Replicas : /\ OwnExecution(q)
                                 /\ pass[q].pc = "enqueue" => pass[q].id # z
      BY <1>0, <2>1 DEF Clean, OwnExecution, OwnManual
    <2>3. OwnManual' /\ \A q \in Replicas : OwnExecution(q)'
      BY <1>0, <1>1, <1>2, <2>2 DEF OwnExecution, OwnManual, TypeOK
    <2>4. \A q \in Replicas : WorksUnderLock(q)' /\ ReadStillGood(q)'
      BY <1>0, <2>1 DEF Clean, WorksUnderLock, ReadStillGood
    <2>5. \A x \in Execs : RunOnce(x)'
      BY <1>0, <1>1, <2>1, <2>2 DEF Clean, RunOnce
    <2>6. WindowAhead' /\ FiredOnce'
      BY <1>0, <2>1 DEF Clean, WindowAhead, FiredOnce
    <2> QED
      BY <2>3, <2>4, <2>5, <2>6 DEF Clean
  <1> QED
    BY <1>0, <1>3, <1>4

-----------------------------------------------------------------------------
(* The job.                                                                *)

\* A step of a job that is queued or runs, while nothing goes wrong.
LEMMA JobFrame ==
    ASSUME TypeOK, Clean, NEW x \in Execs,
           UNCHANGED <<lock, role, conn, trouble, now, next, pass, api, occ>>,
           \A y \in Execs \ {x} : /\ job'[y] = job[y] /\ exec'[y] = exec[y]
                                  /\ ran'[y] = ran[y],
           job[x].pc # "none", RunOnce(x)'
    PROVE  Clean'
  <1>1. \A p \in Replicas : OwnExecution(p)'
    BY DEF Clean, OwnExecution, TypeOK
  <1>2. OwnManual'
    BY DEF Clean, OwnManual, TypeOK
  <1>3. \A p \in Replicas : WorksUnderLock(p)' /\ ReadStillGood(p)'
    BY DEF Clean, WorksUnderLock, ReadStillGood
  <1>4. \A y \in Execs : RunOnce(y)'
    BY DEF Clean, RunOnce
  <1>5. WindowAhead'
    BY DEF Clean, WindowAhead
  <1>6. FiredOnce'
    BY <1>4 DEF Clean, FiredOnce, RunOnce
  <1> QED
    BY <1>1, <1>2, <1>3, <1>4, <1>5, <1>6 DEF Clean

\* Only RunCommand runs the command, on the first attempt that gets so far:
\* no attempt that has run it is tried again.
LEMMA JobCore ==
    ASSUME TypeOK, trouble = 0 => Clean, NEW x \in Execs, JobStep(x)
    PROVE  TypeOK' /\ (trouble' = 0 => Clean')
  <1>0. UNCHANGED <<lock, role, conn, trouble, now, cron, next, status, edits,
                    pass, api, occ, misled, since>>
    BY DEF JobStep, Lease, TaskVanished, AgentMissing, FinishExecution,
       RunCommand, schedVars, task, history
  <1>1. job[x] \in JobState /\ ran[x] \in 0 .. 2
    BY DEF TypeOK
  <1>2. ASSUME NEW j \in JobState, job' = [job EXCEPT ![x] = j],
               exec' \in {exec, [exec EXCEPT ![x] = "closed"]},
               job[x].pc # "none", j.pc # "none",
               \/ ran' = ran /\ (j.pc \in {"waiting", "leased"} =>
                                    job[x].pc \in {"waiting", "leased"})
               \/ /\ ran' = [ran EXCEPT ![x] = IF @ < 2 THEN @ + 1 ELSE @]
                  /\ job[x].pc = "leased" /\ j.pc = "ran"
        PROVE  TypeOK' /\ (trouble' = 0 => Clean')
    <2>1. /\ job' \in [Execs -> JobState] /\ job'[x] = j
          /\ \A y \in Execs \ {x} : job'[y] = job[y]
      BY <1>2, JobWritten
    <2>2. /\ exec' \in [Execs -> {"none", "running", "closed"}]
          /\ exec'[x] = "none" => exec[x] = "none"
          /\ \A y \in Execs \ {x} : exec'[y] = exec[y]
      BY <1>2 DEF TypeOK
    <2>3. /\ ran' \in [Execs -> 0 .. 2]
          /\ \A y \in Execs \ {x} : ran'[y] = ran[y]
      BY <1>1, <1>2 DEF TypeOK
    <2>4. TypeOK'
      BY <1>0, <2>1, <2>2, <2>3 DEF TypeOK, SchedTypeOK
    <2>5. ASSUME trouble = 0 PROVE Clean'
      <3>1. Clean /\ RunOnce(x)
        BY <2>5 DEF Clean
      <3>2. ran'[x] <= 1 /\ (j.pc \in {"waiting", "leased"} => ran'[x] = 0)
        <4>1. CASE ran' = ran
          BY <1>1, <1>2, <3>1, <4>1 DEF RunOnce
        <4>2. CASE /\ ran' = [ran EXCEPT ![x] = IF @ < 2 THEN @ + 1 ELSE @]
                   /\ job[x].pc = "leased" /\ j.pc = "ran"
          <5>1. ran[x] = 0
            BY <3>1, <4>2 DEF RunOnce
          <5>2. ran'[x] = 1
            BY <4>2, <5>1 DEF TypeOK
          <5> QED
            BY <4>2, <5>2
        <4> QED
          BY <1>2, <4>1, <4>2
      <3>3. RunOnce(x)'
        BY <1>0, <1>2, <2>1, <2>2, <3>1, <3>2 DEF RunOnce
      <3> QED
        BY <1>0, <1>2, <2>1, <2>2, <2>3, <3>1, <3>3, JobFrame
    <2> QED
      BY <1>0, <2>4, <2>5
  <1>3. CASE Lease(x)
    <2> DEFINE j == [job[x] EXCEPT !.pc = "leased"]
    <2>1. /\ j \in JobState /\ j.pc = "leased" /\ job' = [job EXCEPT ![x] = j]
          /\ job[x].pc = "waiting" /\ exec' = exec /\ ran' = ran
      BY <1>3 DEF Lease, TypeOK, JobState, history
    <2> HIDE DEF j
    <2> QED
      BY <1>2, <2>1
  <1>4. CASE TaskVanished(x) \/ AgentMissing(x)
    <2>1. /\ job' = [job EXCEPT ![x] = Retried(job[x])] /\ job[x].pc = "leased"
          /\ exec' \in {exec, [exec EXCEPT ![x] = "closed"]} /\ ran' = ran
      BY <1>4 DEF TaskVanished, AgentMissing, TypeOK, history
    <2> QED
      BY <1>1, <1>2, <2>1, JobOutcomes
  <1>5. CASE FinishExecution(x)
    <2>1. /\ job' = [job EXCEPT ![x] = Over("done")] /\ job[x].pc = "ran"
          /\ exec' = [exec EXCEPT ![x] = "closed"] /\ ran' = ran
      BY <1>5 DEF FinishExecution, history
    <2> QED
      BY <1>1, <1>2, <2>1, JobOutcomes
  <1>6. ASSUME NEW result \in {"ended", "timeout"}, RunCommand(x, result)
        PROVE  TypeOK' /\ (trouble' = 0 => Clean')
    <2> DEFINE j == [job[x] EXCEPT !.pc = "ran", !.result = result]
    <2>1. /\ j \in JobState /\ j.pc = "ran" /\ job' = [job EXCEPT ![x] = j]
      BY <1>6 DEF RunCommand, TypeOK, JobState
    <2>2. /\ job[x].pc = "leased" /\ exec' = exec
          /\ ran' = [ran EXCEPT ![x] = IF @ < 2 THEN @ + 1 ELSE @]
      BY <1>6 DEF RunCommand
    <2> HIDE DEF j
    <2> QED
      BY <1>2, <2>1, <2>2
  <1> QED
    BY <1>3, <1>4, <1>5, <1>6 DEF JobStep

\* A statement of the job fails, or its worker dies.
LEMMA JobTrouble ==
    ASSUME TypeOK, NEW x \in Execs,
           \/ LookupFails(x) \/ FinishFails(x) \/ FinishSwallowed(x)
           \/ WorkerDies(x)
    PROVE  TypeOK' /\ trouble' # 0
  <1>1. SchedTypeOK' /\ trouble' # 0
    BY FailTypes DEF LookupFails, FinishFails, FinishSwallowed, WorkerDies
  <1>2. UNCHANGED <<now, cron, next, status, edits, pass, api, exec, occ, ran,
                    misled, since>>
    BY DEF LookupFails, FinishFails, FinishSwallowed, WorkerDies, task, history
  <1>3. PICK j \in JobState : job' = [job EXCEPT ![x] = j]
    <2>1. job[x] \in JobState
      BY DEF TypeOK
    <2>2. \/ job' = [job EXCEPT ![x] = Retried(job[x])]
          \/ job' = [job EXCEPT ![x] = Resumed(job[x])]
          \/ job' = [job EXCEPT ![x] = Over("done")]
      BY DEF LookupFails, FinishFails, FinishSwallowed, WorkerDies, TypeOK
    <2> QED
      BY <2>1, <2>2, JobOutcomes
  <1> QED
    BY <1>1, <1>2, <1>3, JobWritten DEF TypeOK

-----------------------------------------------------------------------------
(* The theorems.                                                           *)

LEMMA InvInit == Init => TypeOK /\ Clean
  <1> SUFFICES ASSUME Init PROVE TypeOK /\ Clean
    OBVIOUS
  <1>1. TypeOK
    <2>1. SchedTypeOK
      BY SchedulerAssumption DEF Init, SchedInit, SchedTypeOK
    <2>2. /\ 0 \in 0 .. Horizon /\ 0 \in 0 .. MaxEdits
          /\ pass \in [Replicas -> PassState] /\ job \in [Execs -> JobState]
      BY TaskAssumption, IdleType DEF Init
    <2>3. /\ \A p \in Replicas : pass[p].pc = "idle"
          /\ api \in ApiState /\ api.pc = "idle"
      BY IdleType DEF Init
    <2>4. /\ exec \in [Execs -> {"none", "running", "closed"}]
          /\ occ \in [Execs -> Nat] /\ ran \in [Execs -> 0 .. 2]
      BY DEF Init
    <2>5. /\ now \in 0 .. Horizon /\ cron \in Periods /\ next \in Nat
          /\ status = "on" /\ edits \in 0 .. MaxEdits
          /\ misled = FALSE /\ since \in 0 .. Horizon
      BY <2>2 DEF Init
    <2> QED
      BY <2>1, <2>2, <2>3, <2>4, <2>5 DEF TypeOK
  <1>2. \A p \in Replicas : WorksUnderLock(p) /\ ReadStillGood(p) /\ OwnExecution(p)
    BY DEF Init, SchedInit, WorksUnderLock, ReadStillGood, OwnExecution, Idle
  <1>3. WindowAhead /\ OwnManual /\ FiredOnce
    BY DEF Init, WindowAhead, OwnManual, FiredOnce, Idle
  <1>4. \A x \in Execs : RunOnce(x)
    BY DEF Init, RunOnce, NoJob
  <1> QED
    BY <1>1, <1>2, <1>3, <1>4 DEF Clean

LEMMA InvStep ==
    ASSUME 0 \notin Periods, TypeOK, trouble = 0 => Clean, [Next]_vars
    PROVE  TypeOK' /\ (trouble' = 0 => Clean')
  <1>1. ASSUME NEW p \in Replicas, PassStep(p) \/ PassFails(p) \/ ElectionStep(p)
        PROVE  TypeOK' /\ (trouble' = 0 => Clean')
    BY <1>1, ListStep, DecideStep, AdvanceStep, CreateStep, EnqueueStep,
       PassFailsStep, ElectionCore DEF PassStep
  <1>2. CASE ManualCheck \/ ManualStep \/ ManualFails
    BY <1>2, ManualOnly, ManualCreateStep, ManualEnqueueStep DEF ManualStep
  <1>3. ASSUME NEW x \in Execs,
               \/ JobStep(x) \/ LookupFails(x) \/ FinishFails(x)
               \/ FinishSwallowed(x) \/ WorkerDies(x)
        PROVE  TypeOK' /\ (trouble' = 0 => Clean')
    BY <1>3, JobCore, JobTrouble
  <1>4. CASE UNCHANGED vars
    <2>1. UNCHANGED <<lock, role, conn, trouble, now, cron, next, status, edits,
                      pass, api, exec, job, occ, ran, misled, since>>
      BY <1>4 DEF vars, schedVars, task, history
    <2>2. TypeOK'
      BY <2>1 DEF TypeOK, SchedTypeOK
    <2>3. Clean => Clean'
      BY <2>1 DEF Clean, WorksUnderLock, ReadStillGood, OwnExecution, OwnManual,
         WindowAhead, RunOnce, FiredOnce
    <2> QED
      BY <2>1, <2>2, <2>3
  <1>5. CASE \/ TimePasses \/ Delete
             \/ \E c \in Periods : EditCron(c)
             \/ \E on \in BOOLEAN : SetEnabled(on)
    BY <1>5, EditStep
  <1> QED
    BY <1>1, <1>2, <1>3, <1>4, <1>5 DEF Next

\* The inductive invariant of a scheduled task whose expressions all match
\* some time.
THEOREM TasksInvariant ==
    ASSUME 0 \notin Periods
    PROVE  Spec => []TasksInv
  <1>1. TasksInv <=> TypeOK /\ (trouble = 0 => Clean)
    BY DEF Clean, TasksInv
  <1>2. Init => TasksInv
    BY <1>1, InvInit
  <1>3. TasksInv /\ [Next]_vars => TasksInv'
    <2>1. TasksInv' <=> TypeOK' /\ (trouble' = 0 => Clean')
      BY DEF Clean, TasksInv
    <2> QED
      BY <1>1, <2>1, InvStep
  <1> QED
    BY <1>2, <1>3, PTL DEF Spec

\* runDueScheduledTasks, RunScheduledTask and ScheduledTaskRun.Execute: while
\* nothing goes wrong, an occurrence opens one execution, and the command of
\* an execution is run once, however passes, manual runs, edits, deletions
\* and the attempts of jobs interleave.  It needs every expression the task
\* may be given to match some time: for one that never does, the window that a
\* pass wrote over an edit is never moved again.
THEOREM OccurrenceFiresOnce ==
    ASSUME 0 \notin Periods
    PROVE  Spec => []FiredOnce
  <1>1. TasksInv => FiredOnce
    BY DEF TasksInv, FiredOnce
  <1> QED
    BY <1>1, TasksInvariant, PTL

=============================================================================
