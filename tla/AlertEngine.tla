----------------------------- MODULE AlertEngine -----------------------------
(***************************************************************************)
(* The alerts table and everybody who writes it: the REST handlers of      *)
(* AlertService and the handlers that AlertEvaluationConsumer runs, one    *)
(* per message of alert-evaluation-queue.  The consumer sets no prefetch,  *)
(* so every delivered message has a handler of its own and they interleave *)
(* at each await.  An action below is the code between two awaits; a save  *)
(* takes effect later than the decision that asked for it.                 *)
(*                                                                         *)
(* TypeORM's save of an entity that has an id writes all its columns, from *)
(* a row read earlier.  version, fires, raced and revived are history: the *)
(* code has no such columns, the properties are stated with them.          *)
(***************************************************************************)
EXTENDS AlertDomain, FiniteSets

CONSTANTS
    AlertIds,   \* alert ids the database may hand out
    Rules,      \* the rules that requests configure
    Messages,   \* the market events that are published
    Patches,    \* the bodies of PATCH /alerts/:id and /alerts/:id/status
    Deliveries, \* messages of alert-evaluation-queue, each with its handler
    Requests,   \* REST requests, each with its handler
    MaxActive,  \* MAX_ACTIVE_ALERTS, 20 in the code
    MaxTime,    \* bound: the clock stops here
    MaxCrashes  \* bound: restarts of the backend process

Source == {"QUOTE", "DOLLAR", "RISK"}

\* A market event.  value is metadata.closePrice, .currentPrice or .value, and
\* Null when it is absent or not a number; scope is assetId or dollarType.
Message == [source: Source, scope: Scopes \cup {Null},
            value: Thresholds \cup {Null}, changePct: Thresholds]

\* The fields of a Partial<Alert>: Null leaves the existing value.
Patch == [rule: Rule \cup {Null}, recurring: BOOLEAN \cup {Null},
          status: AlertStatus \cup {Null}]

\* A row a handler read, the version it read, and later what it will save.
Snapshot == [id: AlertIds, row: Alert, read: Nat]

ASSUME EngineAssumption ==
    /\ Rules \subseteq Rule
    /\ Messages \subseteq Message
    /\ Patches \subseteq Patch
    /\ Null \notin AlertIds \cup Rule \cup BOOLEAN \cup AlertStatus \cup Thresholds
    /\ Null \notin Alert \cup Snapshot
    /\ MaxActive \in Nat \ {0}
    /\ MaxTime \in Nat
    /\ MaxCrashes \in Nat
    /\ IsFiniteSet(AlertIds)

VARIABLES
    now,        \* Date.now(), in ticks
    db,         \* the alerts table: id -> row, Null where there is no row
    version,    \* id -> how many times the row was written
    msg,        \* delivery -> its market event
    task,       \* delivery -> the state of its handler
    req,        \* request -> the state of its handler
    fires,      \* the triggers that were persisted
    published,  \* those whose alert.* event the exchange took
    skipped,    \* those that have no event
    lost,       \* those whose handler ended before publishing them
    raced,      \* users who had two creates past the limit check at once
    revived,    \* users who had an inactive alert written back to ACTIVE
    crashes

queueVars == <<msg, task>>
rowVars == <<db, version, revived>>
fireVars == <<fires, published, skipped, lost>>
vars == <<now, db, version, msg, task, req, fires, published, skipped, lost,
          raced, revived, crashes>>

\* A persisted trigger: the row version the decision read, the one it wrote.
Fire == [alert: AlertIds, rule: Rule, recurring: BOOLEAN, at: Nat,
         read: Nat, wrote: Nat, by: Deliveries]

Task == [pc: {"none", "queued", "evaluating", "saving", "acked", "dead"},
         todo: SUBSET Snapshot, write: Snapshot \cup {Null}, pending: SUBSET Fire]

Job == [pc: {"idle", "creating", "updating", "deleting", "done"},
        id: AlertIds \cup {Null}, row: Alert \cup {Null}, read: Nat]

TaskAt(pc) == [pc |-> pc, todo |-> {}, write |-> Null, pending |-> {}]
Finished == [pc |-> "done", id |-> Null, row |-> Null, read |-> 0]
NewAlert(u, rule, recurring) ==
    [owner |-> u, rule |-> rule, recurring |-> recurring, status |-> "ACTIVE",
     last |-> Never, deleted |-> FALSE]

-----------------------------------------------------------------------------
(* The repository. *)

Stored(a) == db[a] # Null
Visible(a) == Stored(a) /\ ~db[a].deleted

\* countActiveByUserId counts these.
ActiveOf(u) == {a \in AlertIds : Visible(a) /\ db[a].owner = u /\ db[a].status = "ACTIVE"}

\* findActiveByAssetId, findActiveByType and the dollar-type filter.  A quote
\* reaches every alert on its asset, whatever the alert's type.
InScope(row, m) ==
    /\ row.status = "ACTIVE"
    /\ \/ m.source = "QUOTE" /\ m.scope # Null /\ row.rule.asset = m.scope
       \/ m.source = "DOLLAR" /\ row.rule.type = "DOLLAR" /\ row.rule.period \in {Null, m.scope}
       \/ m.source = "RISK" /\ row.rule.type = "RISK"

\* Writes every column but deletedAt, which the mapper leaves alone.
Write(a, row) ==
    /\ db' = [db EXCEPT ![a] = [row EXCEPT !.deleted = db[a].deleted]]
    /\ version' = [version EXCEPT ![a] = @ + 1]
    /\ revived' = IF Visible(a) /\ db[a].status # "ACTIVE" /\ row.status = "ACTIVE"
                  THEN revived \cup {row.owner} ELSE revived

-----------------------------------------------------------------------------
(* The evaluation handlers. *)

\* MarketDataService publishes a market event and the exchange routes it.
MarketEvent(d) ==
    /\ task[d].pc = "none"
    /\ \E m \in Messages : msg' = [msg EXCEPT ![d] = m]
    /\ task' = [task EXCEPT ![d] = TaskAt("queued")]
    /\ UNCHANGED <<now, req, raced, crashes, rowVars, fireVars>>

\* The message is delivered and its handler loads the alerts in scope.  An
\* event without a number evaluates nothing.
Load(d) ==
    /\ task[d].pc = "queued"
    /\ task' = [task EXCEPT ![d].pc = "evaluating",
                            ![d].todo = IF msg[d].value = Null THEN {}
                                        ELSE {[id |-> a, row |-> db[a], read |-> version[a]] :
                                                a \in {b \in AlertIds : Visible(b) /\ InScope(db[b], msg[d])}}]
    /\ UNCHANGED <<now, msg, req, raced, crashes, rowVars, fireVars>>

Fires(d, s) == CanTrigger(s.row, now) /\ Evaluate(s.row.rule, msg[d].value)

\* One iteration of evaluateAndPersist that ends in continue.
PassOver(d) ==
    /\ task[d].pc = "evaluating"
    /\ \E s \in task[d].todo :
          /\ ~Fires(d, s)
          /\ task' = [task EXCEPT ![d].todo = @ \ {s}]
    /\ UNCHANGED <<now, msg, req, raced, crashes, rowVars, fireVars>>

\* One iteration that triggers the alert it holds in memory and asks for a save.
Trigger(d) ==
    /\ task[d].pc = "evaluating"
    /\ \E s \in task[d].todo :
          /\ Fires(d, s)
          /\ task' = [task EXCEPT ![d].pc = "saving", ![d].todo = @ \ {s},
                                  ![d].write = [s EXCEPT !.row = Triggered(@, now)]]
    /\ UNCHANGED <<now, msg, req, raced, crashes, rowVars, fireVars>>

\* The trigger that the save of handler d persists.
FireOf(d) ==
    LET w == task[d].write
    IN  [alert |-> w.id, rule |-> w.row.rule, recurring |-> w.row.recurring,
         at |-> w.row.last, read |-> w.read, wrote |-> version[w.id] + 1, by |-> d]

\* The save lands and the alert joins the triggered list.
SaveTriggered(d) ==
    /\ task[d].pc = "saving"
    /\ Write(task[d].write.id, task[d].write.row)
    /\ fires' = fires \cup {FireOf(d)}
    /\ task' = [task EXCEPT ![d].pc = "evaluating", ![d].write = Null,
                            ![d].pending = @ \cup {FireOf(d)}]
    /\ UNCHANGED <<now, msg, req, raced, crashes, published, skipped, lost>>

\* Everything is evaluated before anything is published.
Publishing(d) == task[d].pc = "evaluating" /\ task[d].todo = {}

\* publishEvent is confirmed by the broker, or there is no event to publish.
Publish(d) ==
    /\ Publishing(d)
    /\ \E f \in task[d].pending :
          /\ task' = [task EXCEPT ![d].pending = @ \ {f}]
          /\ \/ EventOf(f.rule) # Unsupported /\ published' = published \cup {f} /\ UNCHANGED skipped
             \/ EventOf(f.rule) = Unsupported /\ skipped' = skipped \cup {f} /\ UNCHANGED published
    /\ UNCHANGED <<now, msg, req, raced, crashes, rowVars, fires, lost>>

\* Mutant of Ack: only a handler that announced something acknowledges.
Ack_OnlyIfAnnounced(d) ==
    /\ Publishing(d)
    /\ task[d].pending = {}
    /\ \E f \in published : f.by = d
    /\ task' = [task EXCEPT ![d] = TaskAt("acked")]
    /\ UNCHANGED <<now, msg, req, raced, crashes, rowVars, fireVars>>

Ack(d) ==
    /\ Publishing(d)
    /\ task[d].pending = {}
    /\ task' = [task EXCEPT ![d] = TaskAt("acked")]
    /\ UNCHANGED <<now, msg, req, raced, crashes, rowVars, fireVars>>

\* Mutant of DeadLetter: nack with requeue.
DeadLetter_Requeues(d) == task' = [task EXCEPT ![d] = TaskAt("queued")]

\* The catch block: nack without requeue, to the dead-letter queue.
DeadLetter(d) == task' = [task EXCEPT ![d] = TaskAt("dead")]

LoadFails(d) ==
    /\ task[d].pc = "queued"
    /\ msg[d].value # Null
    /\ DeadLetter(d)
    /\ UNCHANGED <<now, msg, req, raced, crashes, rowVars, fireVars>>

\* The save is refused, or it commits and the answer is lost: the handler
\* cannot tell.  Alerts saved before are abandoned with it.
SaveFails(d) ==
    /\ task[d].pc = "saving"
    /\ DeadLetter(d)
    /\ \/ lost' = lost \cup task[d].pending /\ UNCHANGED <<rowVars, fires>>
       \/ /\ Write(task[d].write.id, task[d].write.row)
          /\ fires' = fires \cup {FireOf(d)}
          /\ lost' = lost \cup task[d].pending \cup {FireOf(d)}
    /\ UNCHANGED <<now, msg, req, raced, crashes, published, skipped>>

\* Mutant of PublishFails: the error is caught around each publication.
PublishFails_Swallowed(d) ==
    /\ Publishing(d)
    /\ \E f \in task[d].pending :
          /\ EventOf(f.rule) # Unsupported
          /\ task' = [task EXCEPT ![d].pending = @ \ {f}]
    /\ UNCHANGED <<now, msg, req, raced, crashes, rowVars, fireVars>>

\* publishEvent throws, with the event in the broker or not.
PublishFails(d) ==
    /\ Publishing(d)
    /\ \E f \in task[d].pending :
          /\ EventOf(f.rule) # Unsupported
          /\ \/ lost' = lost \cup task[d].pending /\ UNCHANGED published
             \/ lost' = lost \cup (task[d].pending \ {f}) /\ published' = published \cup {f}
    /\ DeadLetter(d)
    /\ UNCHANGED <<now, msg, req, raced, crashes, rowVars, fires, skipped>>

-----------------------------------------------------------------------------
(* The REST handlers of AlertService. *)

\* Mutant of BelowLimit: off by one.
BelowLimit_Inclusive(u) == Cardinality(ActiveOf(u)) <= MaxActive

\* createAlert goes on only while the user has fewer active alerts than this.
BelowLimit(u) == Cardinality(ActiveOf(u)) < MaxActive

\* createAlert up to the limit check.  A refused request changes nothing.
CreateCheck(t) ==
    /\ req[t].pc = "idle"
    /\ \E u \in Users, rule \in Rules, recurring \in BOOLEAN :
          /\ BelowLimit(u)
          /\ req' = [req EXCEPT ![t] = [pc |-> "creating", id |-> Null,
                                        row |-> NewAlert(u, rule, recurring), read |-> 0]]
          /\ raced' = IF \E o \in Requests : req[o].pc = "creating" /\ req[o].row.owner = u
                      THEN raced \cup {u} ELSE raced
    /\ UNCHANGED <<now, crashes, queueVars, rowVars, fireVars>>

\* createAlert's save, after the asset was found to exist.
CreateSave(t) ==
    /\ req[t].pc = "creating"
    /\ \E a \in AlertIds :
          /\ ~Stored(a)
          /\ db' = [db EXCEPT ![a] = req[t].row]
          /\ version' = [version EXCEPT ![a] = @ + 1]
    /\ req' = [req EXCEPT ![t] = Finished]
    /\ UNCHANGED <<now, raced, revived, crashes, queueVars, fireVars>>

Coalesce(x, y) == IF x = Null THEN y ELSE x

\* Mutant of Merged: fields missing from the body are written as undefined.
Merged_NoCoalesce(row, patch) ==
    [row EXCEPT !.rule = patch.rule, !.recurring = patch.recurring, !.status = patch.status]

\* Mutant of Merged: lastTriggeredAt falls back to null, not to the existing one.
Merged_ForgetsLast(row, patch) ==
    [row EXCEPT !.rule = Coalesce(patch.rule, @),
                !.recurring = Coalesce(patch.recurring, @),
                !.status = Coalesce(patch.status, @),
                !.last = Never]

\* updateAlert's merge: patch ?? existing, field by field.
Merged(row, patch) ==
    [row EXCEPT !.rule = Coalesce(patch.rule, @),
                !.recurring = Coalesce(patch.recurring, @),
                !.status = Coalesce(patch.status, @)]

\* updateAlert and changeStatus up to the merge.
UpdateFind(t) ==
    /\ req[t].pc = "idle"
    /\ \E a \in AlertIds, patch \in Patches :
          /\ Visible(a)
          /\ req' = [req EXCEPT ![t] = [pc |-> "updating", id |-> a,
                                        row |-> Merged(db[a], patch), read |-> version[a]]]
    /\ UNCHANGED <<now, raced, crashes, queueVars, rowVars, fireVars>>

UpdateSave(t) ==
    /\ req[t].pc = "updating"
    /\ Write(req[t].id, req[t].row)
    /\ req' = [req EXCEPT ![t] = Finished]
    /\ UNCHANGED <<now, raced, crashes, queueVars, fireVars>>

DeleteFind(t) ==
    /\ req[t].pc = "idle"
    /\ \E a \in AlertIds :
          /\ Visible(a)
          /\ req' = [req EXCEPT ![t] = [pc |-> "deleting", id |-> a, row |-> Null, read |-> version[a]]]
    /\ UNCHANGED <<now, raced, crashes, queueVars, rowVars, fireVars>>

\* softDelete: only deletedAt is set.
DeleteSave(t) ==
    /\ req[t].pc = "deleting"
    /\ db' = [db EXCEPT ![req[t].id].deleted = TRUE]
    /\ version' = [version EXCEPT ![req[t].id] = @ + 1]
    /\ req' = [req EXCEPT ![t] = Finished]
    /\ UNCHANGED <<now, raced, revived, crashes, queueVars, fireVars>>

\* The asset does not exist, or the database refuses: the request ends.
RequestFails(t) ==
    /\ req[t].pc \in {"creating", "updating", "deleting"}
    /\ req' = [req EXCEPT ![t] = Finished]
    /\ UNCHANGED <<now, raced, crashes, queueVars, rowVars, fireVars>>

-----------------------------------------------------------------------------
(* The environment. *)

Tick ==
    /\ now < MaxTime
    /\ now' = now + 1
    /\ UNCHANGED <<req, raced, crashes, queueVars, rowVars, fireVars>>

\* The process restarts: handlers lose their memory, the broker gives their
\* unacknowledged messages out again, clients see their requests fail.
Crash ==
    /\ crashes < MaxCrashes
    /\ crashes' = crashes + 1
    /\ task' = [d \in Deliveries |-> IF task[d].pc \in {"evaluating", "saving"}
                                     THEN TaskAt("queued") ELSE task[d]]
    /\ lost' = lost \cup UNION {task[d].pending : d \in Deliveries}
    /\ req' = [t \in Requests |-> IF req[t].pc = "idle" THEN req[t] ELSE Finished]
    /\ UNCHANGED <<now, msg, raced, rowVars, fires, published, skipped>>

\* The table at the start holds alerts that were created and never fired.
Init ==
    /\ now = 0
    /\ db \in [AlertIds -> {Null} \cup {NewAlert(u, r, b) : u \in Users, r \in Rules, b \in BOOLEAN}]
    /\ \A u \in Users : Cardinality(ActiveOf(u)) <= MaxActive
    /\ version = [a \in AlertIds |-> 0]
    /\ msg = [d \in Deliveries |-> Null]
    /\ task = [d \in Deliveries |-> TaskAt("none")]
    /\ req = [t \in Requests |-> [pc |-> "idle", id |-> Null, row |-> Null, read |-> 0]]
    /\ fires = {} /\ published = {} /\ skipped = {} /\ lost = {}
    /\ raced = {} /\ revived = {}
    /\ crashes = 0

Handle(d) ==
    \/ Load(d) \/ PassOver(d) \/ Trigger(d) \/ SaveTriggered(d) \/ Publish(d) \/ Ack(d)
    \/ LoadFails(d) \/ SaveFails(d) \/ PublishFails(d)

Serve(t) ==
    \/ CreateCheck(t) \/ CreateSave(t)
    \/ UpdateFind(t) \/ UpdateSave(t)
    \/ DeleteFind(t) \/ DeleteSave(t)
    \/ RequestFails(t)

Next ==
    \/ \E d \in Deliveries : MarketEvent(d) \/ Handle(d)
    \/ \E t \in Requests : Serve(t)
    \/ Tick \/ Crash

Spec == Init /\ [][Next]_vars

\* The event loop runs every callback it holds: a handler that can continue
\* does.  Nothing is assumed of users, of the market or of the clock.
FairSpec == Spec /\ \A d \in Deliveries : WF_vars(Handle(d))

-----------------------------------------------------------------------------
(* Properties. *)

\* The type invariant.
TypeOK ==
    /\ now \in Nat
    /\ db \in [AlertIds -> Alert \cup {Null}]
    /\ version \in [AlertIds -> Nat]
    /\ msg \in [Deliveries -> Messages \cup {Null}]
    /\ task \in [Deliveries -> Task]
    /\ req \in [Requests -> Job]
    /\ fires \in SUBSET Fire
    /\ published \in SUBSET Fire
    /\ skipped \in SUBSET Fire
    /\ lost \in SUBSET Fire
    /\ raced \in SUBSET Users
    /\ revived \in SUBSET Users
    /\ crashes \in Nat

PendingFires == UNION {task[d].pending : d \in Deliveries}

\* Every trigger written to the table is in exactly one place: announced by an
\* alert event, known to have no event, still in its handler's list, or lost;
\* nothing is announced that was not written.  A trigger is lost only by a
\* restart or with a message in the dead-letter queue.
\* (AlertEvaluationConsumer.evaluateAndPublish: evaluate all, then publish all.)
FiresAccounted ==
    /\ fires = published \cup skipped \cup lost \cup PendingFires
    /\ published \cap (skipped \cup lost \cup PendingFires) = {}
    /\ skipped \cap (lost \cup PendingFires) = {}
    /\ lost \cap PendingFires = {}
    /\ \A f \in lost : crashes > 0 \/ task[f.by].pc = "dead"

\* Cooldown and one-shot, across handlers: if the handler that fired g read the
\* very row that fire f left, f was recurring and the cooldown had passed.  So
\* a one-shot that fires twice, or an alert that fires twice in a cooldown,
\* takes a decision made on a stale row: two handlers, or a handler and an edit,
\* overlapped.  (Alert.canTrigger and trigger, around the awaits of
\* evaluateAndPersist.)
RepeatNeedsStaleRead ==
    \A f, g \in fires :
        f.alert = g.alert /\ g.read = f.wrote =>
            f.recurring /\ g.at - f.at >= Cooldown

\* The save of handler d, of a row read at its present version.
EngineSaveComposes(d) ==
    LET w == task[d].write IN
    task[d].pc = "saving" /\ version' # version /\ task'[d].pc # "saving" /\ w.read = version[w.id] =>
        /\ db'[w.id].rule = db[w.id].rule
        /\ db'[w.id].recurring = db[w.id].recurring
        /\ db'[w.id].deleted = db[w.id].deleted
        /\ db[w.id].status = "ACTIVE"
        /\ db'[w.id].last >= db[w.id].last

\* The save of request t, of a row read at its present version.
OwnerSaveComposes(t) ==
    LET j == req[t] IN
    j.pc = "updating" /\ version' # version /\ req'[t].pc = "done" /\ j.read = version[j.id] =>
        /\ db'[j.id].last = db[j.id].last
        /\ db'[j.id].deleted = db[j.id].deleted

\* A save whose row was read at its present version disturbs nobody else's
\* columns: the engine's keeps the rule and an owner's PAUSED, a PATCH keeps
\* the engine's lastTriggeredAt.  (Both write the whole row.)
FreshSavesCompose ==
    [][/\ \A d \in Deliveries : EngineSaveComposes(d)
       /\ \A t \in Requests : OwnerSaveComposes(t)]_vars

\* MAX_ACTIVE_ALERTS holds for every user who never had two creates past the
\* check at once and never had an inactive alert written back to ACTIVE (by
\* changeStatus, which does not check, or by a stale save).
LimitHoldsUnlessRaced ==
    \A u \in Users \ (raced \cup revived) : Cardinality(ActiveOf(u)) <= MaxActive

\* A message the queue holds ends acknowledged or in the dead-letter queue.
EveryMessageSettles ==
    \A d \in Deliveries : (task[d].pc = "queued") ~> (task[d].pc \in {"acked", "dead"})

\* The queue sees a handler that has not finished as a message it holds.
QueueState ==
    [d \in Deliveries |-> IF task[d].pc \in {"none", "acked", "dead"} THEN task[d].pc ELSE "held"]

FiresOf(d, a) == {f \in fires : f.by = d /\ f.alert = a}

FireCounts == [d \in Deliveries |-> [a \in AlertIds |-> Cardinality(FiresOf(d, a))]]

Contract == INSTANCE AtLeastOnce
    WITH Units <- AlertIds, state <- QueueState, done <- FireCounts, restarts <- crashes

\* The evaluation consumer implements the at-least-once contract: it settles a
\* message once, and a market event triggers an alert at most once, and once
\* more for every restart.
ImplementsAtLeastOnce == Contract!Spec

\* What the error message and requirement C-004 say of every user.
ActiveLimit == \A u \in Users : Cardinality(ActiveOf(u)) <= MaxActive

\* What the templates of alert.pct.up and alert.pct.down say: the percentage
\* change of the quote is what met the threshold.
PercentAlertsMeetPercent ==
    \A f \in published :
        EventOf(f.rule) \in {"alert.pct.up", "alert.pct.down"} =>
            Evaluate(f.rule, msg[f.by].changePct)
=============================================================================
