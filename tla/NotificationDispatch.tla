------------------------- MODULE NotificationDispatch -------------------------
(***************************************************************************)
(* From notification-events-queue to the user: EventConsumer runs          *)
(* DispatcherService.dispatchEvent once per delivered message, all of them *)
(* interleaved, while the owner reads and deletes notifications over REST. *)
(* An action is the code between two awaits.                               *)
(***************************************************************************)
EXTENDS UserPreference, FiniteSets

CONSTANTS
    Users,
    Events,            \* the events that are published
    PreferenceChoices, \* the preferences that users store
    Deliveries,        \* messages of notification-events-queue, with their handlers
    Requests,          \* REST requests on the inbox, with their handlers
    MaxAttempts,       \* EmailChannelAdapter.maxAttempts, 3 in the code
    MaxCrashes,        \* bound: restarts of the backend process
    MaxChanges         \* bound: preference updates

\* Two events may be equal but for their id, and two messages may carry the
\* same event: a publisher retries, or the exchange has two routes.
Event == [id: STRING, to: Users, type: EventTypes]

ASSUME DispatchAssumption ==
    /\ Events \subseteq Event
    /\ PreferenceChoices \subseteq Preference
    /\ Null \notin Preference \cup Events
    /\ MaxAttempts \in Nat \ {0}
    /\ MaxCrashes \in Nat
    /\ MaxChanges \in Nat

\* Room for more rows than the at-least-once contract allows.
Ids == Deliveries \X (0 .. MaxCrashes + 1)

VARIABLES
    clock,     \* minute of the day
    prefs,     \* user -> stored preference, Null where there is none
    templates, \* event types that have a template
    msg,       \* delivery -> its event
    task,      \* delivery -> the state of dispatchEvent
    mail,      \* delivery -> the state of EmailChannelAdapter.send
    push,      \* delivery -> the state of InAppChannelAdapter.send
    inbox,     \* the notifications table: id -> row, Null where there is none
    mails,     \* delivery -> how many emails the provider took
    badge,     \* user -> the last unread count emitted to the user's room
    unsure,    \* history: users whose inbox changed after the last count was taken
    req,
    crashes, changes

queueVars == <<msg, task, mail, push>>
sentVars == <<mails, badge>>
settingVars == <<clock, prefs, templates, changes>>
vars == <<clock, prefs, templates, msg, task, mail, push, inbox, mails, badge, unsure,
          req, crashes, changes>>

Row == [user: Users, event: Events, isRead: BOOLEAN, deleted: BOOLEAN]

ASSUME RowAssumption == Null \notin Row

Task == [pc: {"none", "queued", "compiling", "saving", "sending", "acked", "dead"},
         pref: Preference \cup {Null}, discarded: BOOLEAN]
MailLeg == [pc: {"idle", "trying", "sent", "failed"}, attempt: 0 .. MaxAttempts]
PushLeg == [pc: {"idle", "counting", "counted", "emitted", "failed"}, count: Nat]
Job == [pc: {"idle", "reading", "deleting", "done"}, id: Ids \cup {Null}]

TaskAt(pc) == [pc |-> pc, pref |-> Null, discarded |-> FALSE]
MailIdle == [pc |-> "idle", attempt |-> 0]
PushIdle == [pc |-> "idle", count |-> 0]
Finished == [pc |-> "done", id |-> Null]

-----------------------------------------------------------------------------
(* The repository. *)

Stored(i) == inbox[i] # Null
UnreadOf(u) == {i \in Ids : Stored(i) /\ inbox[i].user = u /\ ~inbox[i].isRead /\ ~inbox[i].deleted}

\* Mutant of CountUnread: the isRead column is not in the query.
CountUnread_AnyRow(u) ==
    Cardinality({i \in Ids : Stored(i) /\ inbox[i].user = u /\ ~inbox[i].deleted})

\* countUnread.
CountUnread(u) == Cardinality(UnreadOf(u))

\* The users whose unread notifications this step changes.
Disturbed == {u \in Users : UnreadOf(u)' # UnreadOf(u)}

-----------------------------------------------------------------------------
(* dispatchEvent. *)

\* The broker routes an alert.* event to the queue.
Arrive(d) ==
    /\ task[d].pc = "none"
    /\ \E e \in Events : msg' = [msg EXCEPT ![d] = e]
    /\ task' = [task EXCEPT ![d] = TaskAt("queued")]
    /\ UNCHANGED <<mail, push, inbox, unsure, req, crashes, sentVars, settingVars>>

\* getPreferences.  A user without preferences is told nothing.
ReadPreferences(d) ==
    /\ task[d].pc = "queued"
    /\ LET p == prefs[msg[d].to] IN
       task' = [task EXCEPT ![d] = IF p = Null THEN [TaskAt("acked") EXCEPT !.discarded = TRUE]
                                   ELSE [TaskAt("compiling") EXCEPT !.pref = p]]
    /\ UNCHANGED <<msg, mail, push, inbox, unsure, req, crashes, sentVars, settingVars>>

\* compileTemplate finds the template of the event type.
Compile(d) ==
    /\ task[d].pc = "compiling"
    /\ msg[d].type \in templates
    /\ task' = [task EXCEPT ![d].pc = "saving"]
    /\ UNCHANGED <<msg, mail, push, inbox, unsure, req, crashes, sentVars, settingVars>>

NewRow(d) == [user |-> msg[d].to, event |-> msg[d], isRead |-> FALSE, deleted |-> FALSE]

RowsOf(d) == {i \in Ids : i[1] = d /\ Stored(i)}
NewId(d) == <<d, Cardinality(RowsOf(d))>>

Allowed(d, channel) == CanReceiveEventVia(task[d].pref, msg[d].type, channel, clock)

\* createNotification's save lands, and before the next await every allowed
\* channel is started; with none the message is acknowledged.
Persist(d) ==
    /\ task[d].pc = "saving"
    /\ inbox' = [inbox EXCEPT ![NewId(d)] = NewRow(d)]
    /\ unsure' = unsure \cup {msg[d].to}
    /\ task' = [task EXCEPT ![d].pc =
                   IF \E c \in Channels : Allowed(d, c) THEN "sending" ELSE "acked"]
    /\ mail' = [mail EXCEPT ![d] = IF Allowed(d, "EMAIL") THEN [pc |-> "trying", attempt |-> 1] ELSE @]
    /\ push' = [push EXCEPT ![d] = IF Allowed(d, "IN_APP") THEN [pc |-> "counting", count |-> 0] ELSE @]
    /\ UNCHANGED <<msg, req, crashes, sentVars, settingVars>>

\* Mutant of DeadLetter: nack with requeue.
DeadLetter_Requeues(d) == task' = [task EXCEPT ![d] = TaskAt("queued")]

\* The catch block of EventConsumer: nack without requeue.
DeadLetter(d) == task' = [task EXCEPT ![d] = TaskAt("dead")]

\* A query is refused, or there is no template.
DispatchFails(d) ==
    /\ task[d].pc \in {"queued", "compiling", "saving"}
    /\ DeadLetter(d)
    /\ UNCHANGED <<msg, mail, push, inbox, unsure, req, crashes, sentVars, settingVars>>

\* Mutant of AnswerLost: the error of the save counts as done.
AnswerLost_Acked(d) ==
    /\ task[d].pc = "saving"
    /\ task' = [task EXCEPT ![d] = TaskAt("acked")]
    /\ UNCHANGED <<msg, mail, push, inbox, unsure, req, crashes, sentVars, settingVars>>

\* The insert commits and its answer is lost.
AnswerLost(d) ==
    /\ task[d].pc = "saving"
    /\ inbox' = [inbox EXCEPT ![NewId(d)] = NewRow(d)]
    /\ unsure' = unsure \cup {msg[d].to}
    /\ DeadLetter(d)
    /\ UNCHANGED <<msg, mail, push, req, crashes, sentVars, settingVars>>

\* The provider takes the email.
MailSent(d) ==
    /\ mail[d].pc = "trying"
    /\ mail' = [mail EXCEPT ![d].pc = "sent"]
    /\ mails' = [mails EXCEPT ![d] = @ + 1]
    /\ UNCHANGED <<msg, task, push, inbox, unsure, badge, req, crashes, settingVars>>

\* Mutant of MailFails: attempt <= maxAttempts where the code has <.
MailFails_OneMore(d) ==
    /\ mail[d].pc = "trying"
    /\ mail' = IF mail[d].attempt <= MaxAttempts THEN [mail EXCEPT ![d].attempt = @ + 1]
               ELSE [mail EXCEPT ![d].pc = "failed"]
    /\ mails' \in {mails, [mails EXCEPT ![d] = @ + 1]}
    /\ UNCHANGED <<msg, task, push, inbox, unsure, badge, req, crashes, settingVars>>

\* Mutant of MailFails: the attempts start over after the last one.
MailFails_StartsOver(d) ==
    /\ mail[d].pc = "trying"
    /\ mail' = [mail EXCEPT ![d].attempt = (@ % MaxAttempts) + 1]
    /\ UNCHANGED <<msg, task, push, inbox, unsure, mails, badge, req, crashes, settingVars>>

\* An attempt throws, with the email taken or not; the adapter waits and tries
\* again, or gives up.
MailFails(d) ==
    /\ mail[d].pc = "trying"
    /\ mail' = IF mail[d].attempt < MaxAttempts THEN [mail EXCEPT ![d].attempt = @ + 1]
               ELSE [mail EXCEPT ![d].pc = "failed"]
    /\ mails' \in {mails, [mails EXCEPT ![d] = @ + 1]}
    /\ UNCHANGED <<msg, task, push, inbox, unsure, badge, req, crashes, settingVars>>

\* getUnreadCount answers.  The count is the last word on the inbox unless one
\* that was taken earlier is still to be emitted.
CountUnreadAnswers(d) ==
    /\ push[d].pc = "counting"
    /\ push' = [push EXCEPT ![d] = [pc |-> "counted", count |-> CountUnread(msg[d].to)]]
    /\ unsure' = IF \E o \in Deliveries : push[o].pc = "counted" /\ msg[o].to = msg[d].to
                 THEN unsure ELSE unsure \ {msg[d].to}
    /\ UNCHANGED <<msg, task, mail, inbox, req, crashes, sentVars, settingVars>>

EmitCount(d) ==
    /\ push[d].pc = "counted"
    /\ push' = [push EXCEPT ![d].pc = "emitted"]
    /\ badge' = [badge EXCEPT ![msg[d].to] = push[d].count]
    /\ UNCHANGED <<msg, task, mail, inbox, unsure, mails, req, crashes, settingVars>>

CountFails(d) ==
    /\ push[d].pc = "counting"
    /\ push' = [push EXCEPT ![d].pc = "failed"]
    /\ UNCHANGED <<msg, task, mail, inbox, unsure, req, crashes, sentVars, settingVars>>

\* Promise.all resolves when every channel did.
Acknowledge(d) ==
    /\ task[d].pc = "sending"
    /\ mail[d].pc \in {"idle", "sent"}
    /\ push[d].pc \in {"idle", "emitted"}
    /\ task' = [task EXCEPT ![d] = TaskAt("acked")]
    /\ UNCHANGED <<msg, mail, push, inbox, unsure, req, crashes, sentVars, settingVars>>

\* Promise.all rejects with the first channel that does; the other one goes on.
Reject(d) ==
    /\ task[d].pc = "sending"
    /\ mail[d].pc = "failed" \/ push[d].pc = "failed"
    /\ DeadLetter(d)
    /\ UNCHANGED <<msg, mail, push, inbox, unsure, req, crashes, sentVars, settingVars>>

-----------------------------------------------------------------------------
(* The REST handlers of NotificationService. *)

\* markAsRead and deleteNotification up to their write.
Find(t) ==
    /\ req[t].pc = "idle"
    /\ \E i \in Ids, pc \in {"reading", "deleting"} :
          /\ Stored(i) /\ ~inbox[i].deleted
          /\ req' = [req EXCEPT ![t] = [pc |-> pc, id |-> i]]
    /\ UNCHANGED <<inbox, unsure, crashes, queueVars, sentVars, settingVars>>

\* Mutant of SaveRead: the mapper writes deletedAt as well.
SaveRead_Undeletes(t) ==
    /\ req[t].pc = "reading"
    /\ inbox' = [inbox EXCEPT ![req[t].id].isRead = TRUE, ![req[t].id].deleted = FALSE]
    /\ unsure' = unsure \cup Disturbed
    /\ req' = [req EXCEPT ![t] = Finished]
    /\ UNCHANGED <<crashes, queueVars, sentVars, settingVars>>

\* save writes the row markAsRead found: only isRead can differ, no other
\* column ever changes but deletedAt, which the mapper leaves alone.
SaveRead(t) ==
    /\ req[t].pc = "reading"
    /\ inbox' = [inbox EXCEPT ![req[t].id].isRead = TRUE]
    /\ unsure' = unsure \cup Disturbed
    /\ req' = [req EXCEPT ![t] = Finished]
    /\ UNCHANGED <<crashes, queueVars, sentVars, settingVars>>

\* softDelete.
SaveDeleted(t) ==
    /\ req[t].pc = "deleting"
    /\ inbox' = [inbox EXCEPT ![req[t].id].deleted = TRUE]
    /\ unsure' = unsure \cup Disturbed
    /\ req' = [req EXCEPT ![t] = Finished]
    /\ UNCHANGED <<crashes, queueVars, sentVars, settingVars>>

\* One UPDATE, which reaches deleted rows too.
MarkAllAsRead(t) ==
    /\ req[t].pc = "idle"
    /\ \E u \in Users :
          inbox' = [i \in Ids |-> IF Stored(i) /\ inbox[i].user = u
                                  THEN [inbox[i] EXCEPT !.isRead = TRUE] ELSE inbox[i]]
    /\ unsure' = unsure \cup Disturbed
    /\ req' = [req EXCEPT ![t] = Finished]
    /\ UNCHANGED <<crashes, queueVars, sentVars, settingVars>>

-----------------------------------------------------------------------------
(* The environment. *)

\* PUT /preferences.
ChangePreferences(u) ==
    /\ changes < MaxChanges
    /\ changes' = changes + 1
    /\ \E p \in PreferenceChoices : prefs' = [prefs EXCEPT ![u] = p]
    /\ UNCHANGED <<clock, templates, inbox, unsure, req, crashes, queueVars, sentVars>>

Tick ==
    /\ clock' = (clock + 1) % MinutesPerDay
    /\ UNCHANGED <<prefs, templates, changes, inbox, unsure, req, crashes, queueVars, sentVars>>

\* The process restarts: what is unacknowledged comes again, what ran is gone.
Crash ==
    /\ crashes < MaxCrashes
    /\ crashes' = crashes + 1
    /\ task' = [d \in Deliveries |-> IF task[d].pc \in {"compiling", "saving", "sending"}
                                     THEN TaskAt("queued") ELSE task[d]]
    /\ mail' = [d \in Deliveries |-> MailIdle]
    /\ push' = [d \in Deliveries |-> PushIdle]
    /\ unsure' = unsure \cup {msg[d].to : d \in {o \in Deliveries : push[o].pc = "counted"}}
    /\ req' = [t \in Requests |-> IF req[t].pc = "idle" THEN req[t] ELSE Finished]
    /\ UNCHANGED <<msg, inbox, sentVars, settingVars>>

Init ==
    /\ clock = 0
    /\ prefs \in [Users -> PreferenceChoices \cup {Null}]
    /\ templates \in SUBSET EventTypes
    /\ msg = [d \in Deliveries |-> Null]
    /\ task = [d \in Deliveries |-> TaskAt("none")]
    /\ mail = [d \in Deliveries |-> MailIdle]
    /\ push = [d \in Deliveries |-> PushIdle]
    /\ inbox = [i \in Ids |-> Null]
    /\ mails = [d \in Deliveries |-> 0]
    /\ badge = [u \in Users |-> 0]
    /\ unsure = {}
    /\ req = [t \in Requests |-> [pc |-> "idle", id |-> Null]]
    /\ crashes = 0 /\ changes = 0

Handle(d) ==
    \/ ReadPreferences(d) \/ Compile(d) \/ Persist(d) \/ DispatchFails(d) \/ AnswerLost(d)
    \/ MailSent(d) \/ MailFails(d)
    \/ CountUnreadAnswers(d) \/ EmitCount(d) \/ CountFails(d)
    \/ Acknowledge(d) \/ Reject(d)

Serve(t) == Find(t) \/ SaveRead(t) \/ SaveDeleted(t) \/ MarkAllAsRead(t)

Next ==
    \/ \E d \in Deliveries : Arrive(d) \/ Handle(d)
    \/ \E t \in Requests : Serve(t)
    \/ \E u \in Users : ChangePreferences(u)
    \/ Tick \/ Crash

Spec == Init /\ [][Next]_vars

\* A handler that can go on does, and so does each channel it started: timers
\* expire and queries answer or fail.
FairSpec == Spec /\ \A d \in Deliveries : WF_vars(Handle(d))

-----------------------------------------------------------------------------
(* Properties. *)

\* The type invariant.
TypeOK ==
    /\ clock \in Minute
    /\ prefs \in [Users -> Preference \cup {Null}]
    /\ templates \in SUBSET EventTypes
    /\ msg \in [Deliveries -> Events \cup {Null}]
    /\ task \in [Deliveries -> Task]
    /\ mail \in [Deliveries -> MailLeg]
    /\ push \in [Deliveries -> PushLeg]
    /\ inbox \in [Ids -> Row \cup {Null}]
    /\ mails \in [Deliveries -> Nat]
    /\ badge \in [Users -> Nat]
    /\ unsure \in SUBSET Users
    /\ req \in [Requests -> Job]
    /\ crashes \in Nat /\ changes \in Nat

\* An acknowledged message was discarded for want of preferences or is in the
\* inbox of the user it names, and no email went out without the row it tells of.
\* (DispatcherService.dispatchEvent: persist first, then the channels.)
AckMeansRecorded ==
    \A d \in Deliveries :
        /\ task[d].pc = "acked" /\ ~task[d].discarded => RowsOf(d) # {}
        /\ mails[d] > 0 => RowsOf(d) # {}
        /\ \A i \in RowsOf(d) : inbox[i].event = msg[d] /\ inbox[i].user = msg[d].to

\* One message sends at most maxAttempts emails, and again as many for every
\* restart that caught it unacknowledged; never more, though the email channel
\* goes on after the other one made Promise.all reject.
RepeatsNeedRestart ==
    \A d \in Deliveries : mails[d] <= MaxAttempts * (1 + crashes)

\* The unread count a user sees last is the true one, unless the inbox changed
\* after it was taken or an older count overtook it.  (InAppChannelAdapter.send:
\* the count is read, and emitted after the await.)
BadgeTrueUnlessOvertaken ==
    \A u \in Users :
        u \notin unsure /\ (\A d \in Deliveries : push[d].pc = "counted" => msg[d].to # u)
            => badge[u] = Cardinality(UnreadOf(u))

\* Whoever saves, reads or deletes in whichever order, a deleted notification
\* does not come back and a read one does not become unread.
InboxNeverReverts ==
    [][\A i \in Ids : Stored(i) =>
          /\ inbox'[i] # Null
          /\ inbox[i].deleted => inbox'[i].deleted
          /\ inbox[i].isRead => inbox'[i].isRead]_vars

\* A message the queue holds ends acknowledged or in the dead-letter queue.
EveryMessageSettles ==
    \A d \in Deliveries : (task[d].pc = "queued") ~> (task[d].pc \in {"acked", "dead"})

\* The queue sees a handler that has not finished as a message it holds.
QueueState ==
    [d \in Deliveries |-> IF task[d].pc \in {"none", "acked", "dead"} THEN task[d].pc ELSE "held"]

RowCounts == [d \in Deliveries |-> [u \in {"row"} |-> Cardinality(RowsOf(d))]]

Contract == INSTANCE AtLeastOnce
    WITH Units <- {"row"}, state <- QueueState, done <- RowCounts, restarts <- crashes

\* The notification consumer implements the at-least-once contract: it settles a
\* message once, and a message makes one row, and one more for every restart.
ImplementsAtLeastOnce == Contract!Spec

\* What the integration rules ask: receiving the same message twice is safe, so
\* an event has one notification.
OneNotificationPerEvent ==
    \A i, j \in Ids : Stored(i) /\ Stored(j) /\ inbox[i].event = inbox[j].event => i = j
=============================================================================
