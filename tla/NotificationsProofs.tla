------------------------ MODULE NotificationsProofs -------------------------
(***************************************************************************)
(* The dispatcher notifies at most once and skips nothing but late events  *)
(* and, when a scope was not found, scoped rules: for any outbox, rules,   *)
(* batch size and number of replicas, through any number of crashes, lost  *)
(* locks and failed statements.                                            *)
(*                                                                         *)
(* The argument is about what a pass has in its hands.  Behind its batch   *)
(* everything owed has been heard, and an event that turns up behind it    *)
(* is late, because what was listed is visible for ever: so another leader *)
(* may move the cursor back and forth between two steps of a pass without  *)
(* anything being skipped.  And the delivery row, which is deleted only    *)
(* with its event, makes the replica that inserts it the only one to send. *)
(***************************************************************************)
EXTENDS Notifications, FiniteSetTheorems, TLAPS

\* The inductive invariant without the types.
Core ==
    /\ \A r \in Rules, e \in Events : DeliveryKept(r, e)
    /\ ListedVisible /\ MissedScoped
    /\ \A p \in Replicas : PassInOrder(p) /\ SendsFirst(p)
    /\ NotifiedAtMostOnce /\ NoneSkipped

-----------------------------------------------------------------------------
(* Types.                                                                  *)

LEMMA Constants ==
    /\ Events \subseteq Nat /\ 0 \notin Events /\ IsFiniteSet(Events)
    /\ \A k \in Events : 1 .. k \subseteq Events
    /\ \A k \in Events \cup {0} : k \in Nat
    /\ Rules \subseteq Nat /\ Digest \subseteq Rules
    /\ \A e \in Events : Listeners(e) \subseteq Rules
  <1>1. Cardinality(Events) \in Nat
    BY NotificationAssumption, FS_CardinalityType
  <1>2. Events \subseteq Nat /\ 0 \notin Events
    BY <1>1, NotificationAssumption
  <1>3. \A k \in Events : 1 .. k \subseteq Events
    BY <1>1, NotificationAssumption
  <1>4. \A k \in Events \cup {0} : k \in Nat
    BY <1>2
  <1> QED
    BY <1>2, <1>3, <1>4, NotificationAssumption DEF Listeners

\* What the fields of a pass are.
LEMMA PassFields ==
    ASSUME TypeOK, NEW p \in Replicas
    PROVE  /\ pass[p] \in PassState
           /\ pass[p].pc \in {"idle", "list", "match", "rules", "deliver",
                              "finish", "digests", "digestSend", "digestMark"}
           /\ pass[p].from \in Events \cup {0} /\ pass[p].ev \in Events \cup {0}
           /\ pass[p].batch \subseteq Events /\ pass[p].ids \subseteq Events
           /\ pass[p].todo \subseteq Rules /\ pass[p].rule \in Rules \cup {0}
           /\ pass[p].outcome \in Statuses \ {"none"}
  BY DEF TypeOK, PassState

\* A replica that writes down a pass keeps the types of all of them.
LEMMA PassWritten ==
    ASSUME TypeOK, NEW p \in Replicas, NEW x \in PassState,
           pass' = [pass EXCEPT ![p] = x]
    PROVE  /\ pass' \in [Replicas -> PassState] /\ pass'[p] = x
           /\ \A q \in Replicas \ {p} : pass'[q] = pass[q]
  BY DEF TypeOK

LEMMA IdleType == Idle \in PassState /\ Idle.pc = "idle"
  BY DEF Idle, PassState, Statuses

LEMMA DigestsFacts ==
    ASSUME NEW S \in SUBSET Rules
    PROVE  /\ Digests(S) \in PassState
           /\ Digests(S).pc \in {"idle", "digests"}
           /\ Digests(S).todo = S
  BY DEF Digests, Idle, PassState, Statuses

LEMMA GoOnFacts ==
    ASSUME NEW b \in SUBSET Events, NEW q \in GoOn(b)
    PROVE  /\ q \in PassState
           /\ \/ q.pc \in {"idle", "digests"} /\ q.todo \subseteq Digest
              \/ /\ q.pc = "match" /\ q.batch = b
                 /\ q.ev \in Firsts(b)
  <1>1. CASE b = {}
    BY <1>1, DigestsFacts, Constants DEF GoOn
  <1>2. CASE b # {}
    <2>1. PICK e \in Firsts(b) :
            q = [Idle EXCEPT !.pc = "match", !.batch = b, !.ev = e]
      BY <1>2 DEF GoOn
    <2>2. e \in Events
      BY DEF Firsts
    <2> QED
      BY <2>1, <2>2, Constants DEF Idle, PassState, Statuses
  <1> QED
    BY <1>1, <1>2

-----------------------------------------------------------------------------
(* What steps do not disturb.                                              *)

\* Rows that hear are never forgotten, and no event up to the highest one
\* listed becomes owed.
Grows ==
    /\ heard \subseteq heard' /\ missed \subseteq missed' /\ top <= top'
    /\ \A e \in Events : e <= top /\ Owed(e)' => Owed(e)

\* A pass in which nothing happens stays in order, whatever happens around it.
LEMMA InOrderFrame ==
    ASSUME TypeOK, TypeOK', Grows, NEW p \in Replicas, PassInOrder(p),
           pass'[p] = pass[p]
    PROVE  PassInOrder(p)'
  <1>1. \A e \in Events : Considered(e) => Considered(e)'
    BY DEF Considered, Grows, Listeners
  <1>2. /\ top \in Nat /\ top' \in Nat /\ top <= top' /\ pass[p].from \in Nat
        /\ pass[p].batch \subseteq Events /\ Events \subseteq Nat
        /\ pass[p].todo \subseteq Rules /\ pass[p].ev \in Nat
    <2>1. top \in Nat /\ top' \in Nat
      BY Constants DEF TypeOK
    <2>2. /\ pass[p].from \in Events \cup {0} /\ pass[p].ev \in Events \cup {0}
          /\ pass[p].batch \subseteq Events /\ pass[p].todo \subseteq Rules
      BY PassFields
    <2>3. Events \subseteq Nat /\ top <= top'
      BY Constants DEF Grows
    <2>4. pass[p].from \in Nat /\ pass[p].ev \in Nat
      BY <2>2, Constants
    <2> QED
      BY <2>1, <2>2, <2>3, <2>4, Zenon
  <1>3. ASSUME pass[p].pc = "list"
        PROVE  /\ pass[p].from <= top'
               /\ \A e \in Events : e <= pass[p].from /\ Owed(e)' => Considered(e)'
    BY <1>1, <1>2, <1>3 DEF PassInOrder, Grows
  <1>4. ASSUME pass[p].pc \in {"match", "rules", "deliver", "finish"}
        PROVE  /\ \A f \in pass[p].batch : pass[p].ev <= f /\ f <= top'
               /\ \A f \in pass[p].batch, e \in Events \ pass[p].batch :
                    e < f /\ Owed(e)' => Considered(e)'
    <2>1. ASSUME NEW f \in pass[p].batch
          PROVE  f \in Nat /\ pass[p].ev <= f /\ f <= top /\ f <= top'
      <3>1. f \in Nat
        BY <1>2
      <3>2. pass[p].ev <= f /\ f <= top
        BY <1>4 DEF PassInOrder
      <3> QED
        BY <1>2, <3>1, <3>2
    <2>2. ASSUME NEW f \in pass[p].batch, NEW e \in Events \ pass[p].batch,
                 e < f, Owed(e)'
          PROVE  Considered(e)'
      <3>1. e <= top
        BY <1>2, <2>1, <2>2
      <3>2. Owed(e)
        BY <2>2, <3>1 DEF Grows
      <3> QED
        BY <1>1, <1>4, <2>2, <3>2 DEF PassInOrder
    <2> QED
      BY <2>1, <2>2
  <1>5. ASSUME pass[p].pc \in {"rules", "deliver", "finish"}
        PROVE  \A r \in Listeners(pass[p].ev) \ pass[p].todo :
                  <<r, pass[p].ev>> \in heard' \cup missed'
    BY <1>5 DEF PassInOrder, Grows
  <1> QED
    BY <1>3, <1>4, <1>5 DEF PassInOrder, Grows, Listeners

\* If nobody starts to deliver and nothing is sent, nobody sends twice.
LEMMA SendsFrame ==
    ASSUME TypeOK, told' = told, \A q \in Replicas : SendsFirst(q),
           \A q \in Replicas : pass'[q].pc = "deliver" =>
              /\ pass[q].pc = "deliver" /\ pass'[q].rule = pass[q].rule
              /\ pass'[q].ev = pass[q].ev
    PROVE  \A q \in Replicas : SendsFirst(q)'
  BY DEF SendsFirst

\* A step of one pass that touches neither the events nor their deliveries.
LEMMA QuietStep ==
    ASSUME TypeOK, TypeOK', Core, NEW p \in Replicas,
           UNCHANGED <<row, late, del, heard, missed, told>>,
           \A q \in Replicas \ {p} : pass'[q] = pass[q],
           pass'[p].pc # "deliver", PassInOrder(p)',
           \/ UNCHANGED <<cursor, top>>
           \/ top <= top' /\ ListedVisible' /\ NoneSkipped'
    PROVE  Core'
  <1>1. Grows
    BY Constants DEF Grows, Owed, Visible, TypeOK
  <1>2. \A q \in Replicas : PassInOrder(q)'
    BY <1>1, InOrderFrame DEF Core
  <1>3. \A q \in Replicas : SendsFirst(q)'
    BY SendsFrame DEF Core
  <1>4. /\ \A r \in Rules, e \in Events : DeliveryKept(r, e)'
        /\ NotifiedAtMostOnce'
    BY DEF Core, DeliveryKept, NotifiedAtMostOnce
  <1>5. ListedVisible' /\ NoneSkipped' /\ MissedScoped'
    BY DEF Core, ListedVisible, NoneSkipped, MissedScoped, Owed, Visible,
           Considered, Listeners
  <1> QED
    BY <1>2, <1>3, <1>4, <1>5 DEF Core

\* The election, and a statement that fails, keep the scheduler's types.
LEMMA SchedTypes ==
    ASSUME TypeOK, NEW p \in Replicas,
           \/ Elect(p) \/ LoseSession(p) \/ NoticeClosed(p) \/ Restart(p)
           \/ StepDown(p) \/ Crash(p) \/ StatementFails \/ UNCHANGED schedVars
    PROVE  SchedTypeOK'
  <1>1. Trouble => trouble' \in 0 .. MaxTrouble
    BY SchedulerAssumption DEF TypeOK, SchedTypeOK, Trouble
  <1>2. SchedTypeOK
    BY DEF TypeOK
  <1>3. CASE Elect(p)
    BY <1>2, <1>3 DEF Elect, SchedTypeOK
  <1>4. CASE LoseSession(p)
    BY <1>1, <1>2, <1>4 DEF LoseSession, SchedTypeOK
  <1>5. CASE NoticeClosed(p)
    BY <1>2, <1>5 DEF NoticeClosed, SchedTypeOK
  <1>6. CASE Restart(p)
    BY <1>2, <1>6 DEF Restart, SchedTypeOK
  <1>7. CASE StepDown(p)
    BY <1>2, <1>7 DEF StepDown, SchedTypeOK
  <1>8. CASE Crash(p)
    BY <1>1, <1>2, <1>8 DEF Crash, SchedTypeOK
  <1>9. CASE StatementFails
    BY <1>1, <1>2, <1>9 DEF StatementFails, SchedTypeOK
  <1>10. CASE UNCHANGED schedVars
    BY <1>2, <1>10 DEF schedVars, SchedTypeOK
  <1> QED
    BY <1>3, <1>4, <1>5, <1>6, <1>7, <1>8, <1>9, <1>10

-----------------------------------------------------------------------------
(* The outbox.                                                             *)

\* A transaction inserts, commits or rolls back.  An event that commits
\* behind the highest one listed is late, so nothing becomes owed there.
LEMMA OutboxCore ==
    ASSUME TypeOK, Core, NEW e \in Events,
           Insert(e) \/ Commit(e) \/ Rollback(e)
    PROVE  TypeOK' /\ Core'
  <1>0. /\ UNCHANGED <<cursor, del, pass, heard, missed, told, top>>
        /\ UNCHANGED schedVars
    BY DEF Insert, Commit, Rollback
  <1>1. /\ row[e] \in {"none", "open"}
        /\ row'[e] \in {"open", "committed", "aborted"}
        /\ \A f \in Events \ {e} : row'[f] = row[f]
        /\ row'[e] = "committed" => late' = IF e < top THEN late \cup {e} ELSE late
        /\ row'[e] # "committed" => late' = late
    BY DEF Insert, Commit, Rollback, TypeOK
  <1>2. TypeOK'
    <2>1. SchedTypeOK'
      BY <1>0 DEF TypeOK, SchedTypeOK, schedVars
    <2>2. /\ row' \in [Events -> {"none", "open", "committed", "aborted", "purged"}]
          /\ late' \subseteq Events
      BY DEF Insert, Commit, Rollback, TypeOK
    <2> QED
      BY <1>0, <2>1, <2>2 DEF TypeOK
  <1>3. top \in Nat /\ Events \subseteq Nat /\ cursor \in Nat /\ cursor <= top
    BY Constants DEF TypeOK, Core, ListedVisible
  <1>4. e # top
    BY <1>1, Constants DEF Core, ListedVisible, Visible
  <1>5. \A f \in Events : f <= top /\ Owed(f)' => Owed(f)
    <2> SUFFICES ASSUME NEW f \in Events, f <= top, Owed(f)' PROVE Owed(f)
      OBVIOUS
    <2>1. CASE f = e
      <3>1. row'[e] = "committed" /\ e \notin late'
        BY <1>1, <2>1 DEF Owed, Visible
      <3>2. e < top
        BY <1>3, <1>4, <2>1
      <3> QED
        BY <1>1, <3>1, <3>2
    <2>2. CASE f # e
      BY <1>1, <2>2 DEF Owed, Visible
    <2> QED
      BY <2>1, <2>2
  <1>6. Grows
    BY <1>0, <1>3, <1>5 DEF Grows
  <1>7. \A q \in Replicas : PassInOrder(q)' /\ SendsFirst(q)'
    BY <1>0, <1>2, <1>6, InOrderFrame, SendsFrame DEF Core
  <1>8. ASSUME NEW r \in Rules, NEW f \in Events
        PROVE  DeliveryKept(r, f)'
    <2>1. DeliveryKept(r, f)
      BY DEF Core
    <2>2. f = e => <<r, f>> \notin heard
      BY <1>1, <2>1 DEF DeliveryKept
    <2> QED
      BY <1>0, <1>1, <2>1, <2>2 DEF DeliveryKept
  <1>9. ListedVisible'
    <2>1. top # 0 => Visible(top)'
      BY <1>0, <1>1, <1>4 DEF Core, ListedVisible, Visible, TypeOK
    <2>2. \A f \in Events : row'[f] = "purged" /\ f \notin late' =>
              row[f] = "purged" /\ f \notin late
      BY <1>1
    <2> QED
      BY <1>0, <2>1, <2>2 DEF Core, ListedVisible, Considered, Listeners
  <1>10. NoneSkipped'
    <2> SUFFICES ASSUME NEW f \in Events, f <= cursor, Owed(f)'
                 PROVE  Considered(f)
      BY <1>0 DEF NoneSkipped, Considered, Listeners
    <2>1. f <= top
      BY <1>3
    <2>2. Owed(f)
      BY <1>5, <2>1
    <2> QED
      BY <2>2 DEF Core, NoneSkipped
  <1>11. NotifiedAtMostOnce' /\ MissedScoped'
    BY <1>0 DEF Core, NotifiedAtMostOnce, MissedScoped, Listeners
  <1> QED
    BY <1>2, <1>7, <1>8, <1>9, <1>10, <1>11, <1>0 DEF Core

\* The purge takes events behind the cursor, all of which have been heard.
LEMMA PurgeCore ==
    ASSUME TypeOK, Core, NEW p \in Replicas, NEW k \in Events, Purge(p, k)
    PROVE  TypeOK' /\ Core'
  <1> DEFINE gone == {e \in 1 .. k : row[e] = "committed"}
  <1>0. /\ UNCHANGED <<cursor, pass, heard, missed, told, top, late>>
        /\ UNCHANGED schedVars /\ k <= cursor
    BY DEF Purge
  <1>1. /\ row' = [e \in Events |-> IF e \in gone THEN "purged" ELSE row[e]]
        /\ del' = [r \in Rules |-> [e \in Events |-> IF e \in gone THEN "none"
                                                     ELSE del[r][e]]]
    BY DEF Purge
  <1>2. \A e \in gone : e \in Events /\ row[e] = "committed" /\ e <= cursor
    <2> SUFFICES ASSUME NEW e \in gone
                 PROVE  e \in Events /\ row[e] = "committed" /\ e <= cursor
      OBVIOUS
    <2>1. e \in 1 .. k /\ row[e] = "committed" /\ k \in Nat /\ cursor \in Nat
      BY Constants DEF TypeOK
    <2> QED
      BY <1>0, <2>1, Constants
  <1> HIDE DEF gone
  <1>3. TypeOK'
    <2>1. SchedTypeOK'
      BY <1>0 DEF TypeOK, SchedTypeOK, schedVars
    <2>2. row' \in [Events -> {"none", "open", "committed", "aborted", "purged"}]
      BY <1>1 DEF TypeOK
    <2>3. del' \in [Rules -> [Events -> Statuses]]
      BY <1>1 DEF TypeOK, Statuses
    <2> QED
      BY <1>0, <2>1, <2>2, <2>3 DEF TypeOK
  <1>4. \A e \in Events : Visible(e)' <=> Visible(e)
    BY <1>1, <1>2 DEF Visible
  <1>5. Grows
    BY <1>0, <1>4, Constants DEF Grows, Owed, TypeOK
  <1>6. \A q \in Replicas : PassInOrder(q)' /\ SendsFirst(q)'
    BY <1>0, <1>3, <1>5, InOrderFrame, SendsFrame DEF Core
  <1>7. ASSUME NEW r \in Rules, NEW e \in Events
        PROVE  DeliveryKept(r, e)'
    <2>1. DeliveryKept(r, e)
      BY DEF Core
    <2>2. CASE e \in gone
      BY <1>0, <1>1, <2>1, <2>2 DEF DeliveryKept
    <2>3. CASE e \notin gone
      BY <1>0, <1>1, <2>1, <2>3 DEF DeliveryKept
    <2> QED
      BY <2>2, <2>3
  <1>8. ListedVisible'
    <2>1. top # 0 => Visible(top)'
      BY <1>0, <1>4 DEF Core, ListedVisible, TypeOK
    <2>2. ASSUME NEW e \in Events, row'[e] = "purged", e \notin late
          PROVE  Considered(e)'
      <3>1. CASE e \in gone
        BY <1>0, <1>2, <2>2, <3>1
           DEF Core, NoneSkipped, Owed, Visible, Considered, Listeners
      <3>2. CASE e \notin gone
        BY <1>0, <1>1, <2>2, <3>2 DEF Core, ListedVisible, Considered, Listeners
      <3> QED
        BY <3>1, <3>2
    <2> QED
      BY <1>0, <2>1, <2>2 DEF Core, ListedVisible
  <1>9. NoneSkipped' /\ NotifiedAtMostOnce' /\ MissedScoped'
    BY <1>0, <1>4 DEF Core, NoneSkipped, NotifiedAtMostOnce, MissedScoped, Owed,
                      Considered, Listeners
  <1> QED
    BY <1>3, <1>6, <1>7, <1>8, <1>9 DEF Core

-----------------------------------------------------------------------------
(* A pass of the dispatcher.                                               *)

\* The pass starts from a cursor behind which everything was heard.
LEMMA ReadCursorCore ==
    ASSUME TypeOK, Core, NEW p \in Replicas, ReadCursor(p)
    PROVE  TypeOK' /\ Core'
  <1> DEFINE x == [Idle EXCEPT !.pc = "list", !.from = cursor]
  <1>0. /\ UNCHANGED <<schedVars, row, top, late, cursor, del, heard, missed, told>>
        /\ pass' = [pass EXCEPT ![p] = x]
    BY DEF ReadCursor, outbox
  <1>1. x \in PassState /\ x.pc = "list" /\ x.from = cursor
    BY DEF Idle, PassState, Statuses, TypeOK
  <1> HIDE DEF x
  <1>2. /\ pass' \in [Replicas -> PassState] /\ pass'[p] = x
        /\ \A q \in Replicas \ {p} : pass'[q] = pass[q]
    BY <1>0, <1>1, PassWritten
  <1>3. TypeOK'
    BY <1>0, <1>2 DEF TypeOK, SchedTypeOK, schedVars
  <1>4. PassInOrder(p)'
    BY <1>0, <1>1, <1>2
       DEF PassInOrder, Core, ListedVisible, NoneSkipped, Owed, Considered,
           Visible, Listeners
  <1> QED
    BY <1>0, <1>1, <1>2, <1>3, <1>4, QuietStep

\* The batch is cut after its BatchSize first events: what is visible and not
\* in it lies beyond it.
LEMMA BatchIsPrefix ==
    ASSUME NEW V \in SUBSET Events, NEW f \in V, NEW e \in V, e < f,
           Cardinality({g \in V : g < f}) < BatchSize
    PROVE  Cardinality({g \in V : g < e}) < BatchSize
  <1> DEFINE F == {g \in V : g < f}
             E == {g \in V : g < e}
  <1>1. IsFiniteSet(F)
    BY Constants, FS_Subset
  <1>2. E \in SUBSET F
    <2> SUFFICES ASSUME NEW g \in V, g < e PROVE g < f
      OBVIOUS
    <2>1. g \in Nat /\ e \in Nat /\ f \in Nat
      BY Constants
    <2> QED
      BY <2>1
  <1>3. /\ IsFiniteSet(E) /\ Cardinality(E) <= Cardinality(F)
        /\ Cardinality(E) \in Nat /\ Cardinality(F) \in Nat
    BY <1>1, <1>2, FS_Subset, FS_CardinalityType
  <1>4. BatchSize \in Nat /\ Cardinality(F) < BatchSize
    BY NotificationAssumption
  <1> HIDE DEF E, F
  <1>5. Cardinality(E) < BatchSize
    BY <1>3, <1>4
  <1> QED
    BY <1>5 DEF E

\* What is listed becomes the batch of the pass; what it leaves out behind
\* itself was heard before, was late or is invisible.
LEMMA ListCore ==
    ASSUME TypeOK, Core, NEW p \in Replicas, List(p)
    PROVE  TypeOK' /\ Core'
  <1> DEFINE V == {e \in Events : row[e] = "committed" /\ e > pass[p].from}
             B == {e \in V : Cardinality({f \in V : f < e}) < BatchSize}
  <1>0. /\ UNCHANGED <<schedVars, row, late, cursor, del, heard, missed, told>>
        /\ pass[p].pc = "list"
        /\ \E q \in GoOn(B) : pass' = [pass EXCEPT ![p] = q]
        /\ top' \in B \cup {top} /\ \A e \in B \cup {top} : e <= top'
    BY DEF List
  <1>1. B \subseteq V /\ V \subseteq Events /\ \A e \in B : row[e] = "committed"
    OBVIOUS
  <1>2. \A e \in V, f \in B : e < f => e \in B
    BY BatchIsPrefix
  <1>3. \A e \in Events : row[e] = "committed" /\ e > pass[p].from => e \in V
    OBVIOUS
  <1> HIDE DEF V, B
  <1>4. PICK q \in GoOn(B) : pass' = [pass EXCEPT ![p] = q]
    BY <1>0
  <1>5. /\ q \in PassState
        /\ \/ q.pc \in {"idle", "digests"} /\ q.todo \subseteq Digest
           \/ /\ q.pc = "match" /\ q.batch = B
              /\ q.ev \in Firsts(B)
    BY <1>1, <1>4, GoOnFacts
  <1>6. /\ pass' \in [Replicas -> PassState] /\ pass'[p] = q
        /\ \A z \in Replicas \ {p} : pass'[z] = pass[z]
    BY <1>4, <1>5, PassWritten
  <1>7. /\ top' \in Events \cup {0} /\ top <= top' /\ cursor <= top'
        /\ top' # 0 => row'[top'] \in {"committed", "purged"}
    <2>1. top' \in Events \cup {0}
      BY <1>0, <1>1 DEF TypeOK
    <2>2. top \in Nat /\ top' \in Nat /\ cursor \in Nat
      BY <2>1, Constants DEF TypeOK
    <2>3. cursor <= top /\ (top # 0 => Visible(top))
      BY DEF Core, ListedVisible
    <2>4. top <= top'
      BY <1>0
    <2>5. top' # 0 => row'[top'] \in {"committed", "purged"}
      BY <1>0, <1>1, <2>3 DEF Visible
    <2> QED
      BY <2>1, <2>2, <2>3, <2>4, <2>5
  <1>8. TypeOK'
    BY <1>0, <1>6, <1>7 DEF TypeOK, SchedTypeOK, schedVars
  <1>9. ListedVisible' /\ NoneSkipped'
    BY <1>0, <1>7
       DEF Core, ListedVisible, NoneSkipped, Owed, Considered, Visible, Listeners
  <1>10. ASSUME NEW f \in B, NEW e \in Events \ B, e < f, Owed(e)
         PROVE  Considered(e)
    <2>1. CASE row[e] = "purged"
      BY <1>10, <2>1 DEF Core, ListedVisible, Owed
    <2>2. CASE row[e] = "committed" /\ e > pass[p].from
      BY <1>2, <1>3, <1>10, <2>2
    <2>3. CASE row[e] = "committed" /\ ~(e > pass[p].from)
      <3>1. e \in Nat /\ pass[p].from \in Nat
        BY PassFields, Constants
      <3>2. e <= pass[p].from
        BY <2>3, <3>1
      <3> QED
        BY <1>0, <1>10, <3>2 DEF Core, PassInOrder
    <2> QED
      BY <1>10, <2>1, <2>2, <2>3 DEF Owed, Visible
  <1>11. PassInOrder(p)'
    <2>1. CASE q.pc \in {"idle", "digests"} /\ q.todo \subseteq Digest
      BY <1>6, <2>1 DEF PassInOrder
    <2>2. CASE /\ q.pc = "match" /\ q.batch = B
               /\ q.ev \in Firsts(B)
      <3>1. q.ev \in B /\ \A f \in B : q.ev <= f /\ f <= top'
        BY <1>0, <2>2 DEF Firsts
      <3>2. \A f \in B, e \in Events \ B : e < f /\ Owed(e)' => Considered(e)'
        BY <1>0, <1>10 DEF Owed, Considered, Visible, Listeners
      <3> QED
        BY <1>6, <2>2, <3>1, <3>2 DEF PassInOrder, Listeners
    <2> QED
      BY <1>5, <2>1, <2>2
  <1>12. pass'[p].pc # "deliver"
    BY <1>5, <1>6
  <1> QED
    BY <1>0, <1>6, <1>7, <1>8, <1>9, <1>11, <1>12, QuietStep

\* The match puts the rules of the event in the hands of the pass, and those
\* it leaves out for want of a scope are written down as missed.
LEMMA MatchCore ==
    ASSUME TypeOK, Core, NEW p \in Replicas, Match(p) \/ MatchUnscoped(p)
    PROVE  TypeOK' /\ Core'
  <1> DEFINE ev == pass[p].ev
  <1>0. /\ UNCHANGED <<row, top, late, cursor, del, heard, told>>
        /\ UNCHANGED schedVars /\ pass[p].pc = "match"
    BY DEF Match, MatchUnscoped, outbox
  <1>1. PICK out \in SUBSET (Listeners(ev) \cap Scoped) :
           /\ missed' = missed \cup (out \X {ev})
           /\ pass' = [pass EXCEPT ![p].pc = "rules",
                                   ![p].todo = Listeners(ev) \ out]
    <2>1. CASE Match(p)
      <3>1. {} \in SUBSET (Listeners(ev) \cap Scoped) /\ Listeners(ev) \ {} = Listeners(ev)
        OBVIOUS
      <3>2. missed' = missed \cup ({} \X {ev})
        BY <2>1 DEF Match
      <3> QED
        BY <2>1, <3>1, <3>2 DEF Match
    <2>2. CASE MatchUnscoped(p)
      BY <2>2 DEF MatchUnscoped
    <2> QED
      BY <2>1, <2>2
  <1>2. ev \in Events /\ Listeners(ev) \subseteq Rules
    BY <1>0, PassFields, Constants DEF Core, PassInOrder
  <1> DEFINE x == [pass[p] EXCEPT !.pc = "rules", !.todo = Listeners(ev) \ out]
  <1>3. /\ x \in PassState /\ x.pc = "rules" /\ x.batch = pass[p].batch
        /\ x.ev = ev /\ x.todo = Listeners(ev) \ out
        /\ pass' = [pass EXCEPT ![p] = x]
    BY <1>1, <1>2 DEF TypeOK, PassState
  <1> HIDE DEF x
  <1>4. /\ pass' \in [Replicas -> PassState] /\ pass'[p] = x
        /\ \A q \in Replicas \ {p} : pass'[q] = pass[q]
    BY <1>3, PassWritten
  <1>5. /\ missed \subseteq missed' /\ missed' \subseteq Rules \X Events
        /\ \A r \in out : <<r, ev>> \in missed'
    BY <1>1, <1>2 DEF TypeOK
  <1>6. TypeOK'
    BY <1>0, <1>4, <1>5 DEF TypeOK, SchedTypeOK, schedVars
  <1>7. MissedScoped'
    BY <1>1 DEF Core, MissedScoped, Listeners
  <1>8. PassInOrder(p)'
    <2>1. /\ ev \in pass[p].batch
          /\ \A f \in pass[p].batch : ev <= f /\ f <= top
          /\ \A f \in pass[p].batch, e \in Events \ pass[p].batch :
                e < f /\ Owed(e) => Considered(e)
      BY <1>0 DEF Core, PassInOrder
    <2>2. \A e \in Events : /\ Owed(e)' <=> Owed(e)
                            /\ Considered(e) => Considered(e)'
      BY <1>0, <1>5 DEF Owed, Visible, Considered, Listeners
    <2>3. pass[p].batch \subseteq Events
      BY PassFields
    <2>4. \A f \in x.batch, e \in Events \ x.batch :
             e < f /\ Owed(e)' => Considered(e)'
      BY <1>3, <2>1, <2>2
    <2> QED
      BY <1>0, <1>3, <1>4, <1>5, <2>1, <2>4 DEF PassInOrder, Listeners
  <1>9. \A q \in Replicas : SendsFirst(q)'
    BY <1>0, <1>3, <1>4, SendsFrame DEF Core
  <1>10. /\ \A r \in Rules, e \in Events : DeliveryKept(r, e)'
         /\ NotifiedAtMostOnce'
    BY <1>0 DEF Core, DeliveryKept, NotifiedAtMostOnce
  <1>11. ListedVisible' /\ NoneSkipped'
    BY <1>0, <1>5
       DEF Core, ListedVisible, NoneSkipped, Owed, Visible, Considered, Listeners
  <1>12. TypeOK' /\ \A q \in Replicas : PassInOrder(q)'
    <2>1. Grows
      BY <1>0, <1>5, Constants DEF Grows, Owed, Visible, TypeOK
    <2> QED
      BY <1>4, <1>6, <1>8, <2>1, InOrderFrame DEF Core
  <1> QED
    BY <1>7, <1>9, <1>10, <1>11, <1>12 DEF Core

\* The cursor moves to the first event of the batch, that has no rule left;
\* everything below it is behind the batch.
LEMMA AdvanceCore ==
    ASSUME TypeOK, Core, NEW p \in Replicas, AdvanceCursor(p)
    PROVE  TypeOK' /\ Core'
  <1> DEFINE B == pass[p].batch
             ev == pass[p].ev
  <1>0. /\ UNCHANGED <<schedVars, row, top, late, del, heard, missed, told>>
        /\ pass[p].pc = "rules" /\ pass[p].todo = {} /\ cursor' = ev
        /\ \E q \in GoOn(B \ {ev}) : pass' = [pass EXCEPT ![p] = q]
    BY DEF AdvanceCursor, outbox
  <1>1. /\ B \subseteq Events /\ ev \in B
        /\ \A f \in B : ev <= f /\ f <= top
        /\ \A f \in B, e \in Events \ B : e < f /\ Owed(e) => Considered(e)
        /\ Considered(ev)
    BY <1>0, PassFields DEF Core, PassInOrder, Considered
  <1> HIDE DEF B, ev
  <1>2. PICK q \in GoOn(B \ {ev}) : pass' = [pass EXCEPT ![p] = q]
    BY <1>0
  <1>3. /\ q \in PassState
        /\ \/ q.pc \in {"idle", "digests"} /\ q.todo \subseteq Digest
           \/ /\ q.pc = "match" /\ q.batch = B \ {ev}
              /\ q.ev \in Firsts(B \ {ev})
    BY <1>1, <1>2, GoOnFacts
  <1>4. /\ pass' \in [Replicas -> PassState] /\ pass'[p] = q
        /\ \A z \in Replicas \ {p} : pass'[z] = pass[z]
    BY <1>2, <1>3, PassWritten
  <1>5. TypeOK'
    BY <1>0, <1>1, <1>4 DEF TypeOK, SchedTypeOK, schedVars
  <1>6. ListedVisible'
    BY <1>0, <1>1 DEF Core, ListedVisible, Considered, Visible, Listeners
  <1>7. ASSUME NEW e \in Events, e <= ev, Owed(e) PROVE Considered(e)
    <2>1. CASE e = ev
      BY <1>1, <2>1
    <2>2. CASE e # ev
      <3>1. e \in Nat /\ ev \in Nat
        BY <1>1, Constants
      <3>2. e < ev
        BY <1>7, <2>2, <3>1
      <3>3. e \notin B
        BY <1>1, <3>1, <3>2
      <3> QED
        BY <1>1, <1>7, <3>2, <3>3
    <2> QED
      BY <2>1, <2>2
  <1>8. NoneSkipped'
    BY <1>0, <1>7 DEF NoneSkipped, Owed, Visible, Considered, Listeners
  <1>9. PassInOrder(p)'
    <2>1. CASE q.pc \in {"idle", "digests"} /\ q.todo \subseteq Digest
      BY <1>4, <2>1 DEF PassInOrder
    <2>2. CASE /\ q.pc = "match" /\ q.batch = B \ {ev}
               /\ q.ev \in Firsts(B \ {ev})
      <3>1. q.ev \in q.batch /\ \A f \in q.batch : q.ev <= f /\ f <= top'
        BY <1>0, <1>1, <2>2 DEF Firsts
      <3>2. \A f \in q.batch, e \in Events \ q.batch :
               e < f /\ Owed(e)' => Considered(e)'
        BY <1>0, <1>1, <2>2 DEF Owed, Considered, Visible, Listeners
      <3> QED
        BY <1>4, <2>2, <3>1, <3>2 DEF PassInOrder, Listeners
    <2> QED
      BY <1>3, <2>1, <2>2
  <1>10. pass'[p].pc # "deliver" /\ top <= top'
    BY <1>0, <1>3, <1>4, Constants DEF TypeOK
  <1> QED
    BY <1>0, <1>4, <1>5, <1>6, <1>8, <1>9, <1>10, QuietStep

\* A pass that goes on with the event in its hands stays in order: it leaves
\* behind only rules that have heard.
LEMMA SameEventStep ==
    ASSUME TypeOK, Core, NEW p \in Replicas, UNCHANGED <<row, late, top, missed>>,
           heard \subseteq heard',
           pass[p].pc \in {"rules", "deliver", "finish"},
           pass'[p].pc \in {"rules", "deliver", "finish"},
           pass'[p].batch = pass[p].batch, pass'[p].ev = pass[p].ev,
           pass'[p].todo \subseteq pass[p].todo,
           \A r \in pass[p].todo \ pass'[p].todo : <<r, pass[p].ev>> \in heard',
           pass'[p].pc # "rules" => /\ pass'[p].rule \in pass'[p].todo
                                    /\ <<pass'[p].rule, pass[p].ev>> \in heard'
    PROVE  PassInOrder(p)'
  <1>1. /\ pass[p].ev \in pass[p].batch
        /\ pass[p].todo \subseteq Listeners(pass[p].ev)
        /\ \A f \in pass[p].batch : pass[p].ev <= f /\ f <= top
        /\ \A f \in pass[p].batch, e \in Events \ pass[p].batch :
              e < f /\ Owed(e) => Considered(e)
        /\ \A r \in Listeners(pass[p].ev) \ pass[p].todo :
              <<r, pass[p].ev>> \in heard \cup missed
    BY DEF Core, PassInOrder
  <1>2. \A e \in Events : /\ Owed(e)' <=> Owed(e)
                          /\ Considered(e) => Considered(e)'
    BY DEF Owed, Visible, Considered, Listeners
  <1>3. \A f \in pass'[p].batch, e \in Events \ pass'[p].batch :
           e < f /\ Owed(e)' => Considered(e)'
    BY <1>1, <1>2
  <1>4. \A r \in Listeners(pass[p].ev) \ pass'[p].todo :
           <<r, pass[p].ev>> \in heard' \cup missed'
    BY <1>1
  <1> QED
    BY <1>1, <1>3, <1>4 DEF PassInOrder, Listeners

\* The steps of a pass that change the pass alone: a rule that saw the event
\* already is skipped, and an outcome other than a message is settled on.
LEMMA PassOnlyCore ==
    ASSUME TypeOK, Core, NEW p \in Replicas,
           SkipSeen(p) \/ Suppress(p) \/ Defer(p) \/ SendFails(p)
    PROVE  TypeOK' /\ Core'
  <1>0. /\ UNCHANGED <<row, top, late, cursor, del, heard, missed, told>>
        /\ UNCHANGED schedVars
    BY DEF SkipSeen, Suppress, Defer, SendFails, outbox
  <1>1. ASSUME NEW x \in PassState, pass' = [pass EXCEPT ![p] = x],
               pass[p].pc \in {"rules", "deliver"},
               x.pc \in {"rules", "finish"}, x.batch = pass[p].batch,
               x.ev = pass[p].ev, x.todo \subseteq pass[p].todo,
               \A r \in pass[p].todo \ x.todo : <<r, pass[p].ev>> \in heard,
               x.pc # "rules" => x.rule \in x.todo /\ <<x.rule, x.ev>> \in heard
        PROVE  TypeOK' /\ Core'
    <2>1. /\ pass' \in [Replicas -> PassState] /\ pass'[p] = x
          /\ \A q \in Replicas \ {p} : pass'[q] = pass[q]
      BY <1>1, PassWritten
    <2>2. TypeOK'
      BY <1>0, <2>1 DEF TypeOK, SchedTypeOK, schedVars
    <2>3. PassInOrder(p)'
      BY <1>0, <1>1, <2>1, SameEventStep
    <2> QED
      BY <1>0, <1>1, <2>1, <2>2, <2>3, QuietStep
  <1>2. /\ pass[p].pc \in {"rules", "deliver"} => pass[p].ev \in Events
        /\ pass[p].pc = "deliver" => /\ pass[p].rule \in pass[p].todo
                                     /\ <<pass[p].rule, pass[p].ev>> \in heard
    BY PassFields DEF Core, PassInOrder
  <1>3. CASE SkipSeen(p)
    <2>1. PICK r \in Firsts(pass[p].todo) :
            /\ pass[p].pc = "rules" /\ del[r][pass[p].ev] # "none"
            /\ pass' = [pass EXCEPT ![p].todo = @ \ {r}]
      BY <1>3 DEF SkipSeen
    <2> DEFINE x == [pass[p] EXCEPT !.todo = @ \ {r}]
    <2>2. /\ x \in PassState /\ x.pc = "rules" /\ x.batch = pass[p].batch
          /\ x.ev = pass[p].ev /\ x.todo = pass[p].todo \ {r}
          /\ pass' = [pass EXCEPT ![p] = x]
      BY <2>1 DEF TypeOK, PassState
    <2>3. <<r, pass[p].ev>> \in heard
      BY <1>2, <2>1, PassFields DEF Core, DeliveryKept, Firsts
    <2> HIDE DEF x
    <2> QED
      BY <1>1, <2>1, <2>2, <2>3
  <1>4. CASE Suppress(p) \/ SendFails(p)
    <2>1. PICK o \in {"suppressed", "failed"} : pass' = Outcome(p, o)
      BY <1>4 DEF Suppress, SendFails
    <2>2. pass[p].pc = "deliver"
      BY <1>4 DEF Suppress, SendFails
    <2> DEFINE x == [pass[p] EXCEPT !.pc = "finish", !.outcome = o]
    <2>3. /\ x \in PassState /\ x.pc = "finish" /\ x.batch = pass[p].batch
          /\ x.ev = pass[p].ev /\ x.todo = pass[p].todo /\ x.rule = pass[p].rule
          /\ pass' = [pass EXCEPT ![p] = x]
      BY <2>1, <2>2 DEF TypeOK, PassState, Outcome, Statuses
    <2> HIDE DEF x
    <2> QED
      BY <1>1, <1>2, <2>2, <2>3
  <1>5. CASE Defer(p)
    <2>1. pass[p].pc = "deliver" /\ NextRule(p)
      BY <1>5 DEF Defer
    <2> DEFINE x == [pass[p] EXCEPT !.pc = "rules", !.rule = 0,
                                    !.outcome = "pending",
                                    !.todo = @ \ {pass[p].rule}]
    <2>3. /\ x \in PassState /\ x.pc = "rules" /\ x.batch = pass[p].batch
          /\ x.ev = pass[p].ev /\ x.todo = pass[p].todo \ {pass[p].rule}
          /\ pass' = [pass EXCEPT ![p] = x]
      BY <2>1 DEF TypeOK, PassState, NextRule, Statuses
    <2> HIDE DEF x
    <2> QED
      BY <1>1, <1>2, <2>1, <2>3
  <1> QED
    BY <1>3, <1>4, <1>5

\* A pass that is over, or goes over to the digests, has nothing in its hands.
LEMMA PassEnds ==
    ASSUME TypeOK, Core, NEW p \in Replicas, NEW x \in PassState,
           pass' = [pass EXCEPT ![p] = x],
           x.pc \in {"idle", "digests"}, x.pc = "digests" => x.todo \subseteq Digest,
           SchedTypeOK', UNCHANGED <<row, top, late, cursor, del, heard, missed, told>>
    PROVE  TypeOK' /\ Core'
  <1>1. /\ pass' \in [Replicas -> PassState] /\ pass'[p] = x
        /\ \A q \in Replicas \ {p} : pass'[q] = pass[q]
    BY PassWritten
  <1>2. TypeOK'
    BY <1>1 DEF TypeOK
  <1>3. PassInOrder(p)'
    BY <1>1 DEF PassInOrder
  <1> QED
    BY <1>1, <1>2, <1>3, QuietStep

\* A pass fails, a digest is passed over, an election takes a step.
LEMMA EndingCore ==
    ASSUME TypeOK, Core, NEW p \in Replicas,
           DispatchFails(p) \/ DigestSkip(p) \/ ElectionStep(p)
    PROVE  TypeOK' /\ Core'
  <1>1. CASE DispatchFails(p)
    <2>1. SchedTypeOK'
      BY <1>1, SchedTypes DEF DispatchFails
    <2>2. /\ UNCHANGED <<row, top, late, cursor, del, heard, missed, told>>
          /\ pass' = [pass EXCEPT ![p] = Digests(Digest)]
      BY <1>1 DEF DispatchFails, outbox
    <2> QED
      BY <2>1, <2>2, PassEnds, DigestsFacts, Constants
  <1>2. CASE DigestSkip(p)
    <2>1. SchedTypeOK'
      BY <1>2, SchedTypes DEF DigestSkip
    <2>2. PICK r \in Firsts(pass[p].todo) :
            pass' = [pass EXCEPT ![p] = Digests(pass[p].todo \ {r})]
      BY <1>2 DEF DigestSkip
    <2>3. pass[p].todo \subseteq Digest
      BY <1>2 DEF Core, PassInOrder, DigestSkip
    <2>4. /\ pass[p].todo \ {r} \in SUBSET Rules /\ pass[p].todo \ {r} \subseteq Digest
          /\ UNCHANGED <<row, top, late, cursor, del, heard, missed, told>>
      BY <1>2, <2>3, Constants DEF DigestSkip, outbox
    <2> QED
      BY <2>1, <2>2, <2>4, PassEnds, DigestsFacts
  <1>3. CASE ElectionStep(p)
    <2>1. SchedTypeOK'
      BY <1>3, SchedTypes DEF ElectionStep
    <2>2. UNCHANGED <<row, top, late, cursor, del, heard, missed, told>>
      BY <1>3 DEF ElectionStep, outbox
    <2>3. CASE UNCHANGED pass
      <3>1. TypeOK'
        BY <2>1, <2>2, <2>3 DEF TypeOK
      <3> QED
        BY <2>2, <2>3, <3>1
           DEF Core, DeliveryKept, ListedVisible, PassInOrder, SendsFirst,
               NotifiedAtMostOnce, NoneSkipped, MissedScoped, Owed, Considered, Visible, Listeners
    <2>4. CASE pass' = [pass EXCEPT ![p] = Idle]
      BY <2>1, <2>2, <2>4, PassEnds, IdleType
    <2> QED
      BY <1>3, <2>3, <2>4 DEF ElectionStep
  <1> QED
    BY <1>1, <1>2, <1>3

-----------------------------------------------------------------------------
(* Deliveries.                                                             *)

\* The parts of Core that a step on the deliveries of one rule may disturb.
LEMMA DeliveryStep ==
    ASSUME TypeOK, TypeOK', Core, NEW p \in Replicas,
           UNCHANGED <<row, top, late, cursor, missed>>, heard \subseteq heard',
           \A q \in Replicas \ {p} : pass'[q] = pass[q],
           PassInOrder(p)',
           \A r \in Rules, e \in Events : DeliveryKept(r, e)',
           \A q \in Replicas : SendsFirst(q)',
           NotifiedAtMostOnce'
    PROVE  Core'
  <1>1. Grows
    BY Constants DEF Grows, Owed, Visible, TypeOK
  <1>2. \A q \in Replicas : PassInOrder(q)'
    BY <1>1, InOrderFrame DEF Core
  <1>3. ListedVisible' /\ NoneSkipped' /\ MissedScoped'
    BY DEF Core, ListedVisible, NoneSkipped, MissedScoped, Owed, Visible,
           Considered, Listeners
  <1> QED
    BY <1>2, <1>3 DEF Core

\* The row is new, so nobody has heard of the event for this rule: no message
\* was sent and no replica is about to send one.
LEMMA CreateCore ==
    ASSUME TypeOK, Core, NEW p \in Replicas, CreateDelivery(p)
    PROVE  TypeOK' /\ Core'
  <1> DEFINE ev == pass[p].ev
  <1>0. PICK r \in Firsts(pass[p].todo) :
           /\ del[r][ev] = "none"
           /\ del' = [del EXCEPT ![r][ev] = "pending"]
           /\ heard' = heard \cup {<<r, ev>>}
           /\ pass' = [pass EXCEPT ![p].pc = "deliver", ![p].rule = r]
    BY DEF CreateDelivery
  <1>1. /\ UNCHANGED <<row, top, late, cursor, missed, told>> /\ UNCHANGED schedVars
        /\ pass[p].pc = "rules" /\ row[ev] = "committed"
    BY DEF CreateDelivery, outbox
  <1>2. r \in pass[p].todo /\ r \in Rules /\ ev \in Events
    BY <1>1, PassFields DEF Core, PassInOrder, Firsts
  <1> DEFINE x == [pass[p] EXCEPT !.pc = "deliver", !.rule = r]
  <1>3. /\ x \in PassState /\ x.pc = "deliver" /\ x.batch = pass[p].batch
        /\ x.ev = ev /\ x.todo = pass[p].todo /\ x.rule = r
        /\ pass' = [pass EXCEPT ![p] = x]
    BY <1>0, <1>2 DEF TypeOK, PassState
  <1> HIDE DEF x
  <1>4. /\ pass' \in [Replicas -> PassState] /\ pass'[p] = x
        /\ \A q \in Replicas \ {p} : pass'[q] = pass[q]
    BY <1>3, PassWritten
  <1>5. /\ del' \in [Rules -> [Events -> Statuses]] /\ del'[r][ev] = "pending"
        /\ \A s \in Rules, e \in Events : s # r \/ e # ev => del'[s][e] = del[s][e]
    BY <1>0, <1>2 DEF TypeOK, Statuses
  <1>6. TypeOK'
    BY <1>0, <1>1, <1>2, <1>4, <1>5 DEF TypeOK, SchedTypeOK, schedVars
  <1>7. <<r, ev>> \notin heard
    BY <1>0, <1>1, <1>2 DEF Core, DeliveryKept
  <1>8. told[r][ev] = 0
    BY <1>2, <1>7 DEF Core, DeliveryKept, TypeOK
  <1>9. \A q \in Replicas : pass[q].pc = "deliver" =>
           ~(pass[q].rule = r /\ pass[q].ev = ev)
    BY <1>7 DEF Core, PassInOrder
  <1>10. \A q \in Replicas : SendsFirst(q)'
    BY <1>1, <1>3, <1>4, <1>8, <1>9 DEF Core, SendsFirst
  <1>11. \A s \in Rules, e \in Events : DeliveryKept(s, e)'
    BY <1>0, <1>1, <1>2, <1>5 DEF Core, DeliveryKept
  <1>12. PassInOrder(p)'
    BY <1>0, <1>1, <1>2, <1>3, <1>4, SameEventStep
  <1>13. NotifiedAtMostOnce' /\ heard \subseteq heard'
    BY <1>0, <1>1 DEF Core, NotifiedAtMostOnce
  <1> QED
    BY <1>1, <1>4, <1>6, <1>10, <1>11, <1>12, <1>13, DeliveryStep

\* The message is the first one: the replica was the only one to have it.
LEMMA SendOKCore ==
    ASSUME TypeOK, Core, NEW p \in Replicas, SendOK(p)
    PROVE  TypeOK' /\ Core'
  <1> DEFINE ev == pass[p].ev
             r == pass[p].rule
  <1>1. /\ UNCHANGED <<row, top, late, cursor, del, heard, missed>> /\ UNCHANGED schedVars
        /\ pass[p].pc = "deliver"
        /\ told' = [told EXCEPT ![r][ev] = Count(@)]
        /\ pass' = Outcome(p, "sent")
    BY DEF SendOK, outbox
  <1>2. /\ r \in pass[p].todo /\ r \in Rules /\ ev \in Events
        /\ <<r, ev>> \in heard
    BY <1>1, PassFields DEF Core, PassInOrder
  <1> DEFINE x == [pass[p] EXCEPT !.pc = "finish", !.outcome = "sent"]
  <1>3. /\ x \in PassState /\ x.pc = "finish" /\ x.batch = pass[p].batch
        /\ x.ev = ev /\ x.todo = pass[p].todo /\ x.rule = r
        /\ pass' = [pass EXCEPT ![p] = x]
    BY <1>1 DEF TypeOK, PassState, Outcome, Statuses
  <1> HIDE DEF x
  <1>4. /\ pass' \in [Replicas -> PassState] /\ pass'[p] = x
        /\ \A q \in Replicas \ {p} : pass'[q] = pass[q]
    BY <1>3, PassWritten
  <1>5. /\ told[r][ev] \in 0 .. 2 /\ Count(told[r][ev]) \in 0 .. 2
        /\ told[r][ev] = 0 => Count(told[r][ev]) = 1
    BY <1>2 DEF TypeOK, Count
  <1>6. /\ told' \in [Rules -> [Events -> 0 .. 2]]
        /\ told'[r][ev] = Count(told[r][ev])
        /\ \A s \in Rules, e \in Events : s # r \/ e # ev => told'[s][e] = told[s][e]
    BY <1>1, <1>2, <1>5 DEF TypeOK
  <1>7. TypeOK'
    BY <1>1, <1>4, <1>6 DEF TypeOK, SchedTypeOK, schedVars
  <1>8. \A q \in Replicas \ {p} : pass[q].pc = "deliver" /\ pass[q].rule \notin Digest
           => ~(pass[q].rule = r /\ pass[q].ev = ev)
    BY <1>1 DEF Core, SendsFirst
  <1>9. \A q \in Replicas : SendsFirst(q)'
    <2> SUFFICES ASSUME NEW q \in Replicas, pass'[q].pc = "deliver",
                        pass'[q].rule \notin Digest
                 PROVE  SendsFirst(q)'
      BY DEF SendsFirst
    <2>1. q # p /\ pass'[q] = pass[q]
      BY <1>3, <1>4
    <2>2. pass[q].rule \in Rules /\ pass[q].ev \in Events
      BY <2>1, PassFields DEF Core, PassInOrder
    <2>3. told'[pass[q].rule][pass[q].ev] = told[pass[q].rule][pass[q].ev]
      BY <1>6, <1>8, <2>1, <2>2
    <2> QED
      BY <1>3, <1>4, <2>1, <2>3 DEF Core, SendsFirst
  <1>10. \A s \in Rules, e \in Events : DeliveryKept(s, e)'
    BY <1>1, <1>2, <1>6 DEF Core, DeliveryKept
  <1>11. PassInOrder(p)'
    BY <1>1, <1>2, <1>3, <1>4, SameEventStep
  <1>12. NotifiedAtMostOnce'
    <2> SUFFICES ASSUME NEW s \in Rules \ Digest, NEW e \in Events
                 PROVE  told'[s][e] <= 1
      BY DEF NotifiedAtMostOnce
    <2>1. CASE s = r /\ e = ev
      <3>1. told[r][ev] = 0
        BY <1>1, <2>1 DEF Core, SendsFirst
      <3> QED
        BY <1>5, <1>6, <2>1, <3>1
    <2>2. CASE ~(s = r /\ e = ev)
      BY <1>6, <2>2 DEF Core, NotifiedAtMostOnce
    <2> QED
      BY <2>1, <2>2
  <1> QED
    BY <1>1, <1>4, <1>7, <1>9, <1>10, <1>11, <1>12, DeliveryStep

\* The outcome is recorded, or is not, or the row is gone with its event.
LEMMA FinishCore ==
    ASSUME TypeOK, Core, NEW p \in Replicas, Finish(p)
    PROVE  TypeOK' /\ Core'
  <1> DEFINE ev == pass[p].ev
             r == pass[p].rule
             d == IF del[r][ev] = "none" THEN del
                  ELSE [del EXCEPT ![r][ev] = pass[p].outcome]
  <1>1. /\ UNCHANGED <<row, top, late, cursor, heard, missed, told>>
        /\ pass[p].pc = "finish" /\ NextRule(p)
        /\ \/ del' = d /\ UNCHANGED schedVars
           \/ StatementFails /\ del' = del
    BY DEF Finish, outbox
  <1>2. /\ r \in pass[p].todo /\ r \in Rules /\ ev \in Events
        /\ <<r, ev>> \in heard /\ pass[p].outcome \in Statuses \ {"none"}
    BY <1>1, PassFields DEF Core, PassInOrder
  <1>3. /\ d \in [Rules -> [Events -> Statuses]]
        /\ \A s \in Rules, e \in Events : d[s][e] = "none" <=> del[s][e] = "none"
    BY <1>2 DEF TypeOK
  <1> HIDE DEF d
  <1>4. /\ del' \in [Rules -> [Events -> Statuses]]
        /\ \A s \in Rules, e \in Events : del'[s][e] = "none" <=> del[s][e] = "none"
    BY <1>1, <1>3 DEF TypeOK
  <1> DEFINE x == [pass[p] EXCEPT !.pc = "rules", !.rule = 0,
                                  !.outcome = "pending",
                                  !.todo = @ \ {r}]
  <1>5. /\ x \in PassState /\ x.pc = "rules" /\ x.batch = pass[p].batch
        /\ x.ev = ev /\ x.todo = pass[p].todo \ {r}
        /\ pass' = [pass EXCEPT ![p] = x]
    BY <1>1 DEF TypeOK, PassState, NextRule, Statuses
  <1> HIDE DEF x
  <1>6. /\ pass' \in [Replicas -> PassState] /\ pass'[p] = x
        /\ \A q \in Replicas \ {p} : pass'[q] = pass[q]
    BY <1>5, PassWritten
  <1>7. SchedTypeOK'
    BY <1>1, SchedTypes
  <1>8. TypeOK'
    BY <1>1, <1>4, <1>6, <1>7 DEF TypeOK
  <1>9. PassInOrder(p)'
    BY <1>1, <1>2, <1>5, <1>6, SameEventStep
  <1>10. \A q \in Replicas : SendsFirst(q)'
    BY <1>1, <1>5, <1>6, SendsFrame DEF Core
  <1>11. /\ \A s \in Rules, e \in Events : DeliveryKept(s, e)'
         /\ NotifiedAtMostOnce'
    BY <1>1, <1>4 DEF Core, DeliveryKept, NotifiedAtMostOnce
  <1> QED
    BY <1>1, <1>6, <1>8, <1>9, <1>10, <1>11, DeliveryStep

-----------------------------------------------------------------------------
(* Digests.                                                                *)

\* The pending rows of a digest have been heard.
LEMMA DigestReadCore ==
    ASSUME TypeOK, Core, NEW p \in Replicas, DigestRead(p)
    PROVE  TypeOK' /\ Core'
  <1>0. PICK r \in Firsts(pass[p].todo) :
           pass' = [pass EXCEPT ![p].pc = "digestSend", ![p].rule = r,
                                ![p].ids = {e \in Events : del[r][e] = "pending"}]
    BY DEF DigestRead
  <1>1. /\ UNCHANGED <<row, top, late, cursor, del, heard, missed, told>>
        /\ UNCHANGED schedVars /\ pass[p].pc = "digests"
    BY DEF DigestRead, outbox
  <1>2. pass[p].todo \subseteq Digest /\ r \in Digest /\ r \in Rules
    BY <1>1, Constants DEF Core, PassInOrder, Firsts
  <1> DEFINE ids == {e \in Events : del[r][e] = "pending"}
             x == [pass[p] EXCEPT !.pc = "digestSend", !.rule = r, !.ids = ids]
  <1>3. /\ x \in PassState /\ x.pc = "digestSend" /\ x.todo = pass[p].todo
        /\ x.rule = r /\ x.ids = ids /\ pass' = [pass EXCEPT ![p] = x]
    BY <1>0, <1>2 DEF TypeOK, PassState
  <1>4. \A e \in ids : <<r, e>> \in heard
    BY <1>2 DEF Core, DeliveryKept
  <1> HIDE DEF x, ids
  <1>5. /\ pass' \in [Replicas -> PassState] /\ pass'[p] = x
        /\ \A q \in Replicas \ {p} : pass'[q] = pass[q]
    BY <1>3, PassWritten
  <1>6. TypeOK'
    BY <1>1, <1>5 DEF TypeOK, SchedTypeOK, schedVars
  <1>7. PassInOrder(p)'
    BY <1>1, <1>2, <1>3, <1>4, <1>5 DEF PassInOrder
  <1> QED
    BY <1>1, <1>3, <1>5, <1>6, <1>7, QuietStep

\* A digest is sent for a digest rule, and says only what was heard.
LEMMA DigestSendCore ==
    ASSUME TypeOK, Core, NEW p \in Replicas,
           DigestSendOK(p) \/ DigestSendFails(p)
    PROVE  TypeOK' /\ Core'
  <1> DEFINE r == pass[p].rule
             t == [told EXCEPT ![r] = [e \in Events |->
                     IF e \in pass[p].ids THEN Count(@[e]) ELSE @[e]]]
  <1>1. /\ UNCHANGED <<row, top, late, cursor, del, heard, missed>> /\ UNCHANGED schedVars
        /\ pass[p].pc = "digestSend" /\ told' \in {told, t}
    BY DEF DigestSendOK, DigestSendFails, outbox
  <1>2. /\ r \in Digest /\ r \in Rules /\ pass[p].todo \subseteq Digest
        /\ \A e \in pass[p].ids : <<r, e>> \in heard
    BY <1>1, Constants DEF Core, PassInOrder
  <1>3. PICK o \in {"sent", "failed"} :
           pass' = [pass EXCEPT ![p].pc = "digestMark", ![p].outcome = o]
    BY DEF DigestSendOK, DigestSendFails
  <1> DEFINE x == [pass[p] EXCEPT !.pc = "digestMark", !.outcome = o]
  <1>4. /\ x \in PassState /\ x.pc = "digestMark" /\ x.todo = pass[p].todo
        /\ x.rule = r /\ x.ids = pass[p].ids /\ pass' = [pass EXCEPT ![p] = x]
    BY <1>3 DEF TypeOK, PassState, Statuses
  <1> HIDE DEF x
  <1>5. /\ pass' \in [Replicas -> PassState] /\ pass'[p] = x
        /\ \A q \in Replicas \ {p} : pass'[q] = pass[q]
    BY <1>4, PassWritten
  <1>6. \A n \in 0 .. 2 : Count(n) \in 0 .. 2
    BY DEF Count
  <1>7. /\ t \in [Rules -> [Events -> 0 .. 2]]
        /\ \A s \in Rules \ {r} : t[s] = told[s]
        /\ \A e \in Events \ pass[p].ids : t[r][e] = told[r][e]
    BY <1>2, <1>6 DEF TypeOK
  <1> HIDE DEF t
  <1>8. /\ told' \in [Rules -> [Events -> 0 .. 2]]
        /\ \A s \in Rules \ {r} : told'[s] = told[s]
        /\ \A e \in Events \ pass[p].ids : told'[r][e] = told[r][e]
    BY <1>1, <1>7 DEF TypeOK
  <1>9. TypeOK'
    BY <1>1, <1>5, <1>8 DEF TypeOK, SchedTypeOK, schedVars
  <1>10. PassInOrder(p)'
    BY <1>1, <1>2, <1>4, <1>5 DEF PassInOrder
  <1>11. \A q \in Replicas : SendsFirst(q)'
    <2> SUFFICES ASSUME NEW q \in Replicas, pass'[q].pc = "deliver",
                        pass'[q].rule \notin Digest
                 PROVE  SendsFirst(q)'
      BY DEF SendsFirst
    <2>1. q # p /\ pass'[q] = pass[q]
      BY <1>4, <1>5
    <2>2. pass[q].rule \in Rules \ {r}
      BY <1>2, <2>1, PassFields DEF Core, PassInOrder
    <2> QED
      BY <1>4, <1>5, <1>8, <2>1, <2>2 DEF Core, SendsFirst
  <1>12. \A s \in Rules, e \in Events : DeliveryKept(s, e)'
    BY <1>1, <1>2, <1>8 DEF Core, DeliveryKept
  <1>13. NotifiedAtMostOnce'
    BY <1>2, <1>8 DEF Core, NotifiedAtMostOnce
  <1> QED
    BY <1>1, <1>5, <1>9, <1>10, <1>11, <1>12, <1>13, DeliveryStep

\* Marking a digest deletes no row and creates none.
LEMMA DigestMarkCore ==
    ASSUME TypeOK, Core, NEW p \in Replicas, DigestMark(p)
    PROVE  TypeOK' /\ Core'
  <1> DEFINE r == pass[p].rule
             marked == {e \in pass[p].ids : del[r][e] # "none"}
             d == [del EXCEPT ![r] = [e \in Events |->
                     IF e \in marked THEN pass[p].outcome ELSE @[e]]]
             x == Digests(pass[p].todo \ {r})
  <1>1. /\ UNCHANGED <<row, top, late, cursor, heard, missed, told>>
        /\ pass[p].pc = "digestMark" /\ pass' = [pass EXCEPT ![p] = x]
        /\ \/ del' = d /\ UNCHANGED schedVars
           \/ StatementFails /\ del' = del
    BY DEF DigestMark, outbox
  <1>2. /\ r \in Rules /\ pass[p].todo \subseteq Digest
        /\ pass[p].outcome \in Statuses \ {"none"}
    BY <1>1, Constants, PassFields DEF Core, PassInOrder
  <1>3. /\ d \in [Rules -> [Events -> Statuses]]
        /\ \A s \in Rules, e \in Events : d[s][e] = "none" <=> del[s][e] = "none"
    BY <1>2 DEF TypeOK
  <1> HIDE DEF d
  <1>4. /\ del' \in [Rules -> [Events -> Statuses]]
        /\ \A s \in Rules, e \in Events : del'[s][e] = "none" <=> del[s][e] = "none"
    BY <1>1, <1>3 DEF TypeOK
  <1>5. pass[p].todo \ {r} \in SUBSET Rules /\ pass[p].todo \ {r} \subseteq Digest
    BY <1>2, Constants
  <1>6. x \in PassState /\ x.pc \in {"idle", "digests"} /\ x.todo \subseteq Digest
    BY <1>5, DigestsFacts
  <1> HIDE DEF x
  <1>7. /\ pass' \in [Replicas -> PassState] /\ pass'[p] = x
        /\ \A q \in Replicas \ {p} : pass'[q] = pass[q]
    BY <1>1, <1>6, PassWritten
  <1>8. SchedTypeOK'
    BY <1>1, SchedTypes
  <1>9. TypeOK'
    BY <1>1, <1>4, <1>7, <1>8 DEF TypeOK
  <1>10. PassInOrder(p)'
    BY <1>6, <1>7 DEF PassInOrder
  <1>11. \A q \in Replicas : SendsFirst(q)'
    BY <1>1, <1>6, <1>7, SendsFrame DEF Core
  <1>12. /\ \A s \in Rules, e \in Events : DeliveryKept(s, e)'
         /\ NotifiedAtMostOnce'
    BY <1>1, <1>4 DEF Core, DeliveryKept, NotifiedAtMostOnce
  <1> QED
    BY <1>1, <1>7, <1>9, <1>10, <1>11, <1>12, DeliveryStep

-----------------------------------------------------------------------------
(* The theorems.                                                           *)

LEMMA InvInit == Init => TypeOK /\ Core
  <1> SUFFICES ASSUME Init PROVE TypeOK /\ Core
    OBVIOUS
  <1>1. TypeOK
    BY IdleType, SchedulerAssumption
       DEF Init, SchedInit, TypeOK, SchedTypeOK, Statuses
  <1>2. \A r \in Rules, e \in Events : DeliveryKept(r, e)
    BY DEF Init, DeliveryKept
  <1>3. \A p \in Replicas : PassInOrder(p) /\ SendsFirst(p)
    BY DEF Init, PassInOrder, SendsFirst, Idle
  <1>4. ListedVisible /\ NotifiedAtMostOnce /\ NoneSkipped /\ MissedScoped
    BY DEF Init, ListedVisible, NotifiedAtMostOnce, NoneSkipped, MissedScoped,
           Owed, Visible
  <1> QED
    BY <1>1, <1>2, <1>3, <1>4 DEF Core

LEMMA InvStep ==
    ASSUME TypeOK, Core, [Next]_vars
    PROVE  TypeOK' /\ Core'
  <1>1. ASSUME NEW e \in Events, Insert(e) \/ Commit(e) \/ Rollback(e)
        PROVE  TypeOK' /\ Core'
    BY <1>1, OutboxCore
  <1>2. ASSUME NEW p \in Replicas, DispatchStep(p)
        PROVE  TypeOK' /\ Core'
    BY <1>2, ReadCursorCore, ListCore, MatchCore, AdvanceCore, PassOnlyCore,
       CreateCore, SendOKCore, FinishCore DEF DispatchStep
  <1>3. ASSUME NEW p \in Replicas,
               DispatchFails(p) \/ DigestStep(p) \/ ElectionStep(p)
        PROVE  TypeOK' /\ Core'
    BY <1>3, EndingCore, DigestReadCore, DigestSendCore, DigestMarkCore
       DEF DigestStep
  <1>4. ASSUME NEW p \in Replicas, NEW k \in Events, Purge(p, k)
        PROVE  TypeOK' /\ Core'
    BY <1>4, PurgeCore
  <1>5. CASE UNCHANGED vars
    <2>1. /\ UNCHANGED schedVars
          /\ UNCHANGED <<row, cursor, del, pass, heard, missed, told, top, late>>
      BY <1>5 DEF vars
    <2>2. TypeOK'
      BY <2>1 DEF TypeOK, SchedTypeOK, schedVars
    <2> QED
      BY <2>1, <2>2
         DEF Core, DeliveryKept, ListedVisible, PassInOrder, SendsFirst,
             NotifiedAtMostOnce, NoneSkipped, MissedScoped, Owed, Considered, Visible, Listeners
  <1> QED
    BY <1>1, <1>2, <1>3, <1>4, <1>5 DEF Next

\* The inductive invariant of the dispatcher.
THEOREM DispatchInvariant == Spec => []DispatchInv
  <1>1. TypeOK /\ Core => DispatchInv
    BY DEF Core, DispatchInv
  <1> QED
    BY <1>1, InvInit, InvStep, PTL DEF Spec

\* dispatcher.go: re-reading an event never notifies twice.  A rule that is
\* not digested is told of an event at most once, whatever crashes, however
\* many replicas believe they lead and wherever they set the cursor.
THEOREM AtMostOnce == Spec => []NotifiedAtMostOnce
  BY DispatchInvariant, PTL DEF DispatchInv

\* The cursor passes, and PurgePublishedOutboxEvents removes, no event that a
\* rule hears before the rule has a delivery row for it.  The two exceptions
\* are those the code makes: an event committed after a higher one had been
\* listed, and a scoped rule when dispatchOne did not find the event's scope.
THEOREM NothingSkipped == Spec => []NoneSkipped
  BY DispatchInvariant, PTL DEF DispatchInv

=============================================================================
