--------------------------- MODULE Notifications ----------------------------
(***************************************************************************)
(* The outbox and its notification dispatcher (internal/notify/            *)
(* dispatcher.go, db/queries/notifications.sql, audit.sql), run by the     *)
(* leaders of Scheduler.  An outbox row takes its id when it is inserted   *)
(* and becomes visible when its transaction commits, in any order; the     *)
(* dispatcher follows the ids with one cursor.                             *)
(*                                                                         *)
(* A pass reads the cursor, lists the events beyond it, matches each event *)
(* with the rules, creates a delivery row for every rule that matched,     *)
(* sends, records the outcome and advances the cursor; then it flushes the *)
(* digests.  A lookup of the event's project and environment that fails is *)
(* swallowed: the match goes on without the rules that are scoped to one.  *)
(***************************************************************************)
EXTENDS Scheduler

CONSTANTS
    Events,      \* 1 .. n: the ids of outbox_events
    Rules,       \* ids of notification_rules
    Hears,       \* <<rule, event>>: type, team, scope and severity match
    Scoped,      \* rules with a project_id or an environment_id
    Critical,    \* events of critical severity
    Digest,      \* rules with digest_enabled
    Debounced,   \* rules with debounce_seconds > 0
    QuietHours,  \* rules with a quiet window
    BatchSize    \* dispatcher.go: batchSize

ASSUME NotificationAssumption ==
    /\ IsFiniteSet(Events) /\ Events = 1 .. Cardinality(Events)
    /\ Rules \subseteq Nat
    /\ Hears \subseteq Rules \X Events
    /\ Scoped \subseteq Rules
    /\ Critical \subseteq Events
    /\ Digest \subseteq Rules
    /\ Debounced \subseteq Rules /\ QuietHours \subseteq Rules
    /\ BatchSize \in Nat \ {0}

VARIABLES
    row,     \* outbox_events
    cursor,  \* notification_cursor
    del,     \* notification_deliveries, by rule and event
    pass,    \* what each replica is doing
    \* History.
    heard,   \* <<rule, event>> that ever had a delivery row
    missed,  \* <<rule, event>> left out of a match for want of a scope
    told,    \* messages sent about an event for a rule, counted up to 2
    top,     \* the highest id ever listed
    late     \* events committed after an event with a higher id was listed

vars == <<schedVars, row, cursor, del, pass, heard, missed, told, top, late>>
outbox == <<row, top, late>>

Idle == [pc |-> "idle", from |-> 0, batch |-> {}, ev |-> 0, todo |-> {},
         rule |-> 0, ids |-> {}, outcome |-> "pending"]

Init ==
    /\ SchedInit
    /\ row = [e \in Events |-> "none"]
    /\ cursor = 0
    /\ del = [r \in Rules |-> [e \in Events |-> "none"]]
    /\ pass = [p \in Replicas |-> Idle]
    /\ heard = {} /\ missed = {}
    /\ told = [r \in Rules |-> [e \in Events |-> 0]]
    /\ top = 0
    /\ late = {}

Firsts(S) == {x \in S : \A y \in S : x <= y}
Listeners(e) == {r \in Rules : <<r, e>> \in Hears}
Count(n) == IF n < 2 THEN n + 1 ELSE n

-----------------------------------------------------------------------------
(* The outbox.                                                             *)

\* Recorder.Outbox: the row is inserted and has the next id.
Insert(e) ==
    /\ row[e] = "none" /\ \A f \in Events : f < e => row[f] # "none"
    /\ row' = [row EXCEPT ![e] = "open"]
    /\ UNCHANGED <<schedVars, cursor, del, pass, heard, missed, told, top, late>>

Commit(e) ==
    /\ row[e] = "open"
    /\ row' = [row EXCEPT ![e] = "committed"]
    /\ late' = IF e < top THEN late \cup {e} ELSE late
    /\ UNCHANGED <<schedVars, cursor, del, pass, heard, missed, told, top>>

Rollback(e) ==
    /\ row[e] = "open"
    /\ row' = [row EXCEPT ![e] = "aborted"]
    /\ UNCHANGED <<schedVars, cursor, del, pass, heard, missed, told, top, late>>

\* Faulty variant of Purge: the cursor is not looked at.
PurgePastCursor(p, k) ==
    LET gone == {e \in 1 .. k : row[e] = "committed"} IN
    /\ MayMaintain(p) /\ pass[p].pc = "idle" /\ gone # {}
    /\ row' = [e \in Events |-> IF e \in gone THEN "purged" ELSE row[e]]
    /\ del' = [r \in Rules |-> [e \in Events |-> IF e \in gone THEN "none"
                                                 ELSE del[r][e]]]
    /\ UNCHANGED <<schedVars, cursor, pass, heard, missed, told, top, late>>

\* PurgePublishedOutboxEvents, of runTasks: published rows of a certain age,
\* never past the cursor; their deliveries are deleted with them.
Purge(p, k) ==
    LET gone == {e \in 1 .. k : row[e] = "committed"} IN
    /\ MayMaintain(p) /\ pass[p].pc = "idle"
    /\ k <= cursor /\ gone # {}
    /\ row' = [e \in Events |-> IF e \in gone THEN "purged" ELSE row[e]]
    /\ del' = [r \in Rules |-> [e \in Events |-> IF e \in gone THEN "none"
                                                 ELSE del[r][e]]]
    /\ UNCHANGED <<schedVars, cursor, pass, heard, missed, told, top, late>>

-----------------------------------------------------------------------------
(* Dispatch.                                                               *)

StatementFails == Trouble /\ UNCHANGED <<lock, role, conn>>

\* FlushDigests comes after Dispatch, with the digest rules still to look at.
Digests(todo) ==
    IF todo = {} THEN Idle ELSE [Idle EXCEPT !.pc = "digests", !.todo = todo]

\* The passes that go on with the events of batch, in the order of their ids.
GoOn(batch) ==
    IF batch = {} THEN {Digests(Digest)}
    ELSE {[Idle EXCEPT !.pc = "match", !.batch = batch, !.ev = e] :
            e \in Firsts(batch)}

ReadCursor(p) ==
    /\ MayCron(p) /\ pass[p].pc = "idle"
    /\ pass' = [pass EXCEPT ![p] = [Idle EXCEPT !.pc = "list",
                                                !.from = cursor]]
    /\ UNCHANGED <<schedVars, outbox, cursor, del, heard, missed, told>>

\* ListOutboxEventsAfter.
List(p) ==
    LET visible == {e \in Events : row[e] = "committed" /\ e > pass[p].from}
        batch == {e \in visible :
                    Cardinality({f \in visible : f < e}) < BatchSize}
    IN  /\ pass[p].pc = "list"
        /\ \E q \in GoOn(batch) : pass' = [pass EXCEPT ![p] = q]
        /\ \E t \in batch \cup {top} : /\ \A e \in batch \cup {top} : e <= t
                                      /\ top' = t
        /\ UNCHANGED <<schedVars, row, late, cursor, del, heard, missed, told>>

\* MatchNotificationRules, with the project and the environment of the event.
Match(p) ==
    /\ pass[p].pc = "match"
    /\ pass' = [pass EXCEPT ![p].pc = "rules",
                            ![p].todo = Listeners(pass[p].ev)]
    /\ UNCHANGED <<schedVars, outbox, cursor, del, heard, missed, told>>

\* ResolveProjectEnvironmentOfResource fails, because the resource is gone or
\* the statement fails: no scoped rule matches, and the pass goes on.
MatchUnscoped(p) ==
    LET out == Listeners(pass[p].ev) \cap Scoped IN
    /\ pass[p].pc = "match" /\ out # {}
    /\ pass' = [pass EXCEPT ![p].pc = "rules",
                            ![p].todo = Listeners(pass[p].ev) \ out]
    /\ missed' = missed \cup (out \X {pass[p].ev})
    /\ UNCHANGED <<schedVars, outbox, cursor, del, heard, told>>

\* The next rule of dispatchOne.
NextRule(p) ==
    pass' = [pass EXCEPT ![p].pc = "rules", ![p].rule = 0,
                         ![p].outcome = "pending",
                         ![p].todo = @ \ {pass[p].rule}]

\* Faulty variant of CreateDelivery: the conflict updates the row.
CreateDeliveryAgain(p) ==
    /\ pass[p].pc = "rules" /\ row[pass[p].ev] = "committed"
    /\ \E r \in Firsts(pass[p].todo) :
          /\ del' = [del EXCEPT ![r][pass[p].ev] = "pending"]
          /\ heard' = heard \cup {<<r, pass[p].ev>>}
          /\ pass' = [pass EXCEPT ![p].pc = "deliver", ![p].rule = r]
    /\ UNCHANGED <<schedVars, outbox, cursor, missed, told>>

\* CreateNotificationDelivery inserts the row.
CreateDelivery(p) ==
    /\ pass[p].pc = "rules" /\ row[pass[p].ev] = "committed"
    /\ \E r \in Firsts(pass[p].todo) :
          /\ del[r][pass[p].ev] = "none"
          /\ del' = [del EXCEPT ![r][pass[p].ev] = "pending"]
          /\ heard' = heard \cup {<<r, pass[p].ev>>}
          /\ pass' = [pass EXCEPT ![p].pc = "deliver", ![p].rule = r]
    /\ UNCHANGED <<schedVars, outbox, cursor, missed, told>>

\* ON CONFLICT DO NOTHING: this rule already saw this event.
SkipSeen(p) ==
    /\ pass[p].pc = "rules"
    /\ \E r \in Firsts(pass[p].todo) :
          /\ del[r][pass[p].ev] # "none"
          /\ pass' = [pass EXCEPT ![p].todo = @ \ {r}]
    /\ UNCHANGED <<schedVars, outbox, cursor, del, heard, missed, told>>

\* An error ends the pass before the cursor has moved: a statement failed, or
\* the event was purged and has no row to refer to.
DispatchFails(p) ==
    /\ \/ pass[p].pc \in {"list", "match", "rules"} /\ StatementFails
       \/ /\ pass[p].pc = "rules" /\ pass[p].todo # {}
          /\ row[pass[p].ev] = "purged"
          /\ UNCHANGED schedVars
    /\ pass' = [pass EXCEPT ![p] = Digests(Digest)]
    /\ UNCHANGED <<outbox, cursor, del, heard, missed, told>>

\* Faulty variant of AdvanceCursor: not every rule has been considered.
AdvanceEarly(p) ==
    /\ pass[p].pc = "rules"
    /\ cursor' = pass[p].ev
    /\ \E q \in GoOn(pass[p].batch \ {pass[p].ev}) :
          pass' = [pass EXCEPT ![p] = q]
    /\ UNCHANGED <<schedVars, outbox, del, heard, missed, told>>

\* SetNotificationCursor, whatever the cursor has become in the meantime.
AdvanceCursor(p) ==
    /\ pass[p].pc = "rules" /\ pass[p].todo = {}
    /\ cursor' = pass[p].ev
    /\ \E q \in GoOn(pass[p].batch \ {pass[p].ev}) :
          pass' = [pass EXCEPT ![p] = q]
    /\ UNCHANGED <<schedVars, outbox, del, heard, missed, told>>

-----------------------------------------------------------------------------
(* deliver.                                                                *)

Outcome(p, o) == [pass EXCEPT ![p].pc = "finish", ![p].outcome = o]

\* suppressionReason: debounced, or quiet hours; never a critical event.
Suppress(p) ==
    LET r == pass[p].rule IN
    /\ pass[p].pc = "deliver" /\ pass[p].ev \notin Critical
    /\ \/ r \in Debounced /\ \E e \in Events : del[r][e] = "sent"
       \/ r \in QuietHours
    /\ pass' = Outcome(p, "suppressed")
    /\ UNCHANGED <<schedVars, outbox, cursor, del, heard, missed, told>>

Deferred(p) == pass[p].rule \in Digest /\ pass[p].ev \notin Critical

\* The pending row is the queue of the digest.
Defer(p) ==
    /\ pass[p].pc = "deliver" /\ Deferred(p)
    /\ NextRule(p)
    /\ UNCHANGED <<schedVars, outbox, cursor, del, heard, missed, told>>

SendOK(p) ==
    /\ pass[p].pc = "deliver" /\ ~Deferred(p)
    /\ told' = [told EXCEPT ![pass[p].rule][pass[p].ev] = Count(@)]
    /\ pass' = Outcome(p, "sent")
    /\ UNCHANGED <<schedVars, outbox, cursor, del, heard, missed>>

\* The channel is gone, its configuration unreadable, or Send fails.
SendFails(p) ==
    /\ pass[p].pc = "deliver" /\ ~Deferred(p)
    /\ pass' = Outcome(p, "failed")
    /\ UNCHANGED <<schedVars, outbox, cursor, del, heard, missed, told>>

\* FinishNotificationDelivery, whose error is ignored.
Finish(p) ==
    LET r == pass[p].rule
        e == pass[p].ev
    IN  /\ pass[p].pc = "finish"
        /\ \/ /\ del' = IF del[r][e] = "none" THEN del
                        ELSE [del EXCEPT ![r][e] = pass[p].outcome]
              /\ UNCHANGED schedVars
           \/ StatementFails /\ UNCHANGED del
        /\ NextRule(p)
        /\ UNCHANGED <<outbox, cursor, heard, missed, told>>

-----------------------------------------------------------------------------
(* FlushDigests.                                                           *)

\* Nothing to say, the window has not elapsed, or a read fails.
DigestSkip(p) ==
    /\ pass[p].pc = "digests"
    /\ \E r \in Firsts(pass[p].todo) :
          pass' = [pass EXCEPT ![p] = Digests(pass[p].todo \ {r})]
    /\ UNCHANGED <<schedVars, outbox, cursor, del, heard, missed, told>>

\* ListPendingDigestDeliveries: every pending row of the rule.
DigestRead(p) ==
    /\ pass[p].pc = "digests"
    /\ \E r \in Firsts(pass[p].todo) :
        LET ids == {e \in Events : del[r][e] = "pending"} IN
        /\ ids # {}
        /\ pass' = [pass EXCEPT ![p].pc = "digestSend", ![p].rule = r,
                                ![p].ids = ids]
    /\ UNCHANGED <<schedVars, outbox, cursor, del, heard, missed, told>>

DigestSendOK(p) ==
    LET r == pass[p].rule IN
    /\ pass[p].pc = "digestSend"
    /\ told' = [told EXCEPT ![r] = [e \in Events |->
                  IF e \in pass[p].ids THEN Count(@[e]) ELSE @[e]]]
    /\ pass' = [pass EXCEPT ![p].pc = "digestMark", ![p].outcome = "sent"]
    /\ UNCHANGED <<schedVars, outbox, cursor, del, heard, missed>>

DigestSendFails(p) ==
    /\ pass[p].pc = "digestSend"
    /\ pass' = [pass EXCEPT ![p].pc = "digestMark", ![p].outcome = "failed"]
    /\ UNCHANGED <<schedVars, outbox, cursor, del, heard, missed, told>>

\* Faulty variant of DigestMark: a digest that failed is not recorded.
DigestMarkSent(p) ==
    LET r == pass[p].rule
        marked == {e \in pass[p].ids : del[r][e] # "none"}
    IN  /\ pass[p].pc = "digestMark"
        /\ del' = IF pass[p].outcome = "failed" THEN del
                  ELSE [del EXCEPT ![r] = [e \in Events |->
                          IF e \in marked THEN "sent" ELSE @[e]]]
        /\ pass' = [pass EXCEPT ![p] = Digests(pass[p].todo \ {r})]
        /\ UNCHANGED <<schedVars, outbox, cursor, heard, missed, told>>

\* MarkDigestDeliveriesSent or Failed, by id; on an error the rows stay
\* pending and the next digest repeats them.
DigestMark(p) ==
    LET r == pass[p].rule
        marked == {e \in pass[p].ids : del[r][e] # "none"}
    IN  /\ pass[p].pc = "digestMark"
        /\ \/ /\ del' = [del EXCEPT ![r] = [e \in Events |->
                            IF e \in marked THEN pass[p].outcome ELSE @[e]]]
              /\ UNCHANGED schedVars
           \/ StatementFails /\ UNCHANGED del
        /\ pass' = [pass EXCEPT ![p] = Digests(pass[p].todo \ {r})]
        /\ UNCHANGED <<outbox, cursor, heard, missed, told>>

-----------------------------------------------------------------------------
DispatchStep(p) ==
    \/ ReadCursor(p) \/ List(p) \/ Match(p) \/ MatchUnscoped(p)
    \/ CreateDelivery(p) \/ SkipSeen(p) \/ AdvanceCursor(p)
    \/ Suppress(p) \/ Defer(p) \/ SendOK(p) \/ SendFails(p) \/ Finish(p)

DigestStep(p) ==
    \/ DigestSkip(p) \/ DigestRead(p) \/ DigestSendOK(p)
    \/ DigestSendFails(p) \/ DigestMark(p)

\* A step of the election.  A leader looks at its connection between passes;
\* a process that dies forgets its pass.
ElectionStep(p) ==
    /\ \/ (Elect(p) \/ LoseSession(p) \/ NoticeClosed(p) \/ Restart(p))
             /\ UNCHANGED pass
       \/ StepDown(p) /\ pass[p].pc = "idle" /\ UNCHANGED pass
       \/ Crash(p) /\ pass' = [pass EXCEPT ![p] = Idle]
    /\ UNCHANGED <<outbox, cursor, del, heard, missed, told>>

Next ==
    \/ \E e \in Events : Insert(e) \/ Commit(e) \/ Rollback(e)
    \/ \E p \in Replicas :
          \/ DispatchStep(p) \/ DispatchFails(p) \/ DigestStep(p)
          \/ ElectionStep(p)
          \/ \E k \in Events : Purge(p, k)

Spec == Init /\ [][Next]_vars

\* Followers keep trying the lock, a process that died is restarted, and a
\* leader works its passes.  A digest window elapses, its rule stays enabled and
\* its channel readable: a rule with a pending row is not passed over for ever.
\* Nothing is assumed of the driver noticing a lost connection, of
\* transactions, of purges, or of the lookups of scopes.
Fairness ==
    \A p \in Replicas :
        /\ WF_vars(ElectionStep(p) /\ (Elect(p) \/ Restart(p)))
        /\ WF_vars(DispatchStep(p) \/ DispatchFails(p) \/ DigestStep(p))
        /\ SF_vars(DigestRead(p))

FairSpec == Spec /\ Fairness

-----------------------------------------------------------------------------
(* Properties.                                                             *)

Statuses == {"none", "pending", "sent", "failed", "suppressed"}

PassState == [pc : {"idle", "list", "match", "rules", "deliver", "finish", "digests",
                    "digestSend", "digestMark"},
              from : Events \cup {0}, batch : SUBSET Events,
              ev : Events \cup {0}, todo : SUBSET Rules, rule : Rules \cup {0},
              ids : SUBSET Events,
              outcome : Statuses \ {"none"}]

TypeOK ==
    /\ SchedTypeOK
    /\ row \in [Events -> {"none", "open", "committed", "aborted", "purged"}]
    /\ cursor \in Events \cup {0}
    /\ del \in [Rules -> [Events -> Statuses]]
    /\ pass \in [Replicas -> PassState]
    /\ heard \subseteq Rules \X Events
    /\ missed \subseteq Rules \X Events
    /\ told \in [Rules -> [Events -> 0 .. 2]]
    /\ top \in Events \cup {0}
    /\ late \subseteq Events

\* dispatcher.go: re-reading an event never notifies twice, whichever leaders
\* read it, crash over it or lose their lock over it.
NotifiedAtMostOnce ==
    \A r \in Rules \ Digest : \A e \in Events : told[r][e] <= 1

Visible(e) == row[e] \in {"committed", "purged"}

\* An event the dispatcher answers for, and one that every rule that hears it
\* has a delivery row for, or missed because the event's scope was not found.
Owed(e) == Visible(e) /\ e \notin late
Considered(e) == \A r \in Listeners(e) : <<r, e>> \in heard \cup missed

\* dispatcher.go: the cursor only advances over events that were fully
\* considered.  It never passes, and the purge never removes, an event that a
\* rule hears and that has had no delivery row; only a scoped rule whose match
\* went without the scope, and an event committed after a higher one had been
\* listed, are left behind.
NoneSkipped ==
    \A e \in Events : e <= cursor /\ Owed(e) => Considered(e)

\* Only a scoped rule that hears an event can miss it.
MissedScoped ==
    \A r \in Rules, e \in Events :
        <<r, e>> \in missed => r \in Scoped \cap Listeners(e)

\* A delivery row is the trace of a rule that heard the event; it goes only
\* with the event, and then nobody can insert it again.
DeliveryKept(r, e) ==
    /\ del[r][e] # "none" => <<r, e>> \in heard
    /\ <<r, e>> \in heard => \/ row[e] = "committed" /\ del[r][e] # "none"
                             \/ row[e] = "purged"
    /\ told[r][e] > 0 => <<r, e>> \in heard

\* Whatever is listed is visible, so that an event which commits behind the
\* cursor is late; a purged event was behind the cursor.
ListedVisible ==
    /\ cursor <= top
    /\ top # 0 => Visible(top)
    /\ \A e \in Events : row[e] = "purged" /\ e \notin late => Considered(e)

\* What a pass of the dispatcher has done so far: every event before those it
\* still has in its hands was heard, even if other leaders move the cursor.
PassInOrder(p) ==
    LET q == pass[p] IN
    /\ q.pc = "list" =>
          /\ q.from <= top
          /\ \A e \in Events : e <= q.from /\ Owed(e) => Considered(e)
    /\ q.pc \in {"match", "rules", "deliver", "finish"} =>
          /\ q.ev \in q.batch
          /\ \A f \in q.batch : q.ev <= f /\ f <= top
          /\ \A f \in q.batch, e \in Events \ q.batch :
                e < f /\ Owed(e) => Considered(e)
    /\ q.pc \in {"rules", "deliver", "finish"} =>
          /\ q.todo \subseteq Listeners(q.ev)
          /\ \A r \in Listeners(q.ev) \ q.todo : <<r, q.ev>> \in heard \cup missed
    /\ q.pc \in {"deliver", "finish"} =>
          q.rule \in q.todo /\ <<q.rule, q.ev>> \in heard
    /\ q.pc \in {"digests", "digestSend", "digestMark"} => q.todo \subseteq Digest
    /\ q.pc \in {"digestSend", "digestMark"} =>
          q.rule \in Digest /\ \A e \in q.ids : <<q.rule, e>> \in heard

\* One replica has a message in its hands, and it has not been sent.
SendsFirst(p) ==
    pass[p].pc = "deliver" /\ pass[p].rule \notin Digest =>
        /\ told[pass[p].rule][pass[p].ev] = 0
        /\ \A q \in Replicas \ {p} :
              ~(/\ pass[q].pc = "deliver" /\ pass[q].rule = pass[p].rule
                /\ pass[q].ev = pass[p].ev)

\* The inductive invariant: a pass reads, inserts, sends and marks in order,
\* whatever another leader does to the same rows, every delivery row names an
\* event its rule has heard, and nobody sends for a row that another inserted.
DispatchInv ==
    /\ TypeOK
    /\ \A r \in Rules, e \in Events : DeliveryKept(r, e)
    /\ ListedVisible /\ MissedScoped
    /\ \A p \in Replicas : PassInOrder(p) /\ SendsFirst(p)
    /\ NotifiedAtMostOnce /\ NoneSkipped

\* Every event that is committed in order is brought to every rule that hears
\* it, through crashes, failed statements and leaders that have lost the lock;
\* a scoped rule may miss it when the lookup of the scope fails.
EveryEventHeard ==
    \A e \in Events : row[e] = "committed" /\ e \notin late ~> Considered(e)

\* A deferred delivery is settled by a digest.
DigestsFlushed ==
    \A r \in Digest, e \in Events :
        del[r][e] = "pending" ~> del[r][e] # "pending"

\* dispatcher.go: a transient failure must not advance the cursor past an event
\* nobody was told about, and a rule scoped to a project is told like others.
ScopedToo ==
    \A e \in Events : e <= cursor /\ Owed(e) =>
        \A r \in Listeners(e) : <<r, e>> \in heard

\* dispatcher.go: an event never got to is read again next time, so that it is
\* not lost, even if its transaction commits late.
LateEventHeard ==
    \A e \in Events : row[e] = "committed" ~> Considered(e)

\* dispatcher.go: the cursor does not advance past an event nobody was told
\* about.  Behind the cursor, a delivery to be made at once that is still
\* pending has been sent, or is in the hands of a replica.
ToldBeforePassed ==
    \A r \in Rules \ Digest, e \in Events :
        e <= cursor /\ del[r][e] = "pending" /\ told[r][e] = 0 =>
            \E p \in Replicas : pass[p].rule = r /\ pass[p].ev = e

=============================================================================
