----------------------- MODULE NotificationDispatch_proofs -----------------------
(***************************************************************************)
(* What holds of the notifications table, the two channels and the unread  *)
(* count for every number of users, events, messages, requests, attempts   *)
(* and restarts, and every length of the day.                              *)
(***************************************************************************)
EXTENDS NotificationDispatch, FiniteSetTheorems, TLAPS

-----------------------------------------------------------------------------
(* Types. *)

\* The states of dispatchEvent before it has stored anything for this hand-out.
Early == {"none", "queued", "compiling", "saving"}

\* A message that was routed has an event.
Routed == \A d \in Deliveries : task[d].pc # "none" => msg[d] \in Events

\* No channel is started before the row is stored.
ChannelsRest == \A d \in Deliveries : task[d].pc \in Early => mail[d].pc = "idle" /\ push[d].pc = "idle"

\* What a REST handler found is in the table, for no row is ever removed.
FoundStored == \A t \in Requests : req[t].pc \in {"reading", "deleting"} => req[t].id \in Ids /\ Stored(req[t].id)

StoredIds == {i \in Ids : Stored(i)}

TypeInv ==
    /\ TypeOK
    /\ Routed /\ ChannelsRest /\ FoundStored
    /\ IsFiniteSet(StoredIds)

USE DispatchAssumption, RowAssumption, PreferenceAssumption

LEMMA TaskAtType ==
  ASSUME NEW pc \in {"none", "queued", "compiling", "saving", "sending", "acked", "dead"}
  PROVE  TaskAt(pc) \in Task /\ TaskAt(pc).pc = pc
  BY DEF TaskAt, Task

LEMMA IdleTypes == MailIdle \in MailLeg /\ PushIdle \in PushLeg /\ Finished \in Job
  BY DEF MailIdle, MailLeg, PushIdle, PushLeg, Finished, Job

LEMMA EventUsers == \A e \in Events : e.to \in Users
  BY DEF Event

LEMMA NewRowType ==
  ASSUME NEW d \in Deliveries, msg[d] \in Events
  PROVE  NewRow(d) \in Row /\ NewRow(d) # Null
<1>1. msg[d].to \in Users
  BY EventUsers
<1>2. NewRow(d) \in Row
  BY <1>1 DEF NewRow, Row
<1> QED
  BY <1>2

LEMMA UnreadFinite ==
  ASSUME IsFiniteSet(StoredIds), NEW u
  PROVE  Cardinality(UnreadOf(u)) \in Nat
<1>1. UnreadOf(u) \in SUBSET StoredIds
  BY DEF UnreadOf, StoredIds
<1> QED
  BY <1>1, FS_Subset, FS_CardinalityType

LEMMA TypeInvInit == Init => TypeInv
<1> SUFFICES ASSUME Init PROVE TypeInv
  OBVIOUS
<1>1. TypeOK
  <2>1. clock \in Minute /\ prefs \in [Users -> Preference \cup {Null}]
    BY DEF Init, Minute
  <2>2. \A d \in Deliveries : TaskAt("none") \in Task /\ MailIdle \in MailLeg /\ PushIdle \in PushLeg
    BY TaskAtType, IdleTypes
  <2>3. [pc |-> "idle", id |-> Null] \in Job
    BY DEF Job
  <2> QED
    BY <2>1, <2>2, <2>3 DEF Init, TypeOK
<1>2. StoredIds = {}
  BY DEF Init, StoredIds, Stored
<1>3. Routed /\ ChannelsRest /\ FoundStored
  BY TaskAtType DEF Init, Routed, ChannelsRest, FoundStored, MailIdle, PushIdle
<1> QED
  BY <1>1, <1>2, <1>3, FS_EmptySet DEF TypeInv

\* dispatchEvent moves on without the table or the channels.
LEMMA TaskMove ==
  ASSUME TypeInv, NEW d \in Deliveries, NEW k \in Task, task' = [task EXCEPT ![d] = k],
         UNCHANGED <<clock, prefs, templates, msg, mail, push, inbox, mails, badge, unsure, req, crashes, changes>>,
         task[d].pc # "none",
         k.pc \in Early => task[d].pc \in Early
  PROVE  TypeInv'
<1> USE DEF TypeInv
<1>1. \A e \in Deliveries : task'[e] = IF e = d THEN k ELSE task[e]
  BY DEF TypeOK
<1>2. TypeOK'
  BY DEF TypeOK
<1>3. Routed' /\ ChannelsRest'
  BY <1>1 DEF Routed, ChannelsRest
<1>4. FoundStored' /\ StoredIds' = StoredIds
  BY DEF FoundStored, StoredIds, Stored
<1> QED
  BY <1>2, <1>3, <1>4

\* The table gets a row.
InsertFor(d) == inbox' = [inbox EXCEPT ![NewId(d)] = NewRow(d)]

LEMMA InsertType ==
  ASSUME TypeInv, NEW d \in Deliveries, msg[d] \in Events, InsertFor(d), UNCHANGED req
  PROVE  /\ inbox' \in [Ids -> Row \cup {Null}]
         /\ FoundStored'
         /\ IsFiniteSet(StoredIds')
<1> USE DEF TypeInv
<1>1. NewRow(d) \in Row /\ NewRow(d) # Null
  BY NewRowType
<1>2. inbox' \in [Ids -> Row \cup {Null}]
  BY <1>1 DEF TypeOK, InsertFor
<1>3. \A i \in Ids : Stored(i) => Stored(i)'
  BY <1>1 DEF TypeOK, InsertFor, Stored
<1>4. StoredIds' \in SUBSET (StoredIds \cup {NewId(d)})
  BY <1>1 DEF TypeOK, InsertFor, Stored, StoredIds
<1>5. IsFiniteSet(StoredIds')
  BY <1>4, FS_AddElement, FS_Subset
<1> QED
  BY <1>2, <1>3, <1>5 DEF FoundStored

\* A channel moves on.
LEMMA MailMove ==
  ASSUME TypeInv, NEW d \in Deliveries, NEW k \in MailLeg, mail[d].pc # "idle",
         mail' = [mail EXCEPT ![d] = k], mails' \in [Deliveries -> Nat],
         UNCHANGED <<clock, prefs, templates, msg, task, push, inbox, badge, unsure, req, crashes, changes>>
  PROVE  TypeInv'
<1> USE DEF TypeInv
<1>1. \A e \in Deliveries : mail'[e] = IF e = d THEN k ELSE mail[e]
  BY DEF TypeOK
<1>2. TypeOK'
  BY DEF TypeOK
<1>3. Routed' /\ ChannelsRest'
  BY <1>1 DEF Routed, ChannelsRest
<1>4. FoundStored' /\ StoredIds' = StoredIds
  BY DEF FoundStored, StoredIds, Stored
<1> QED
  BY <1>2, <1>3, <1>4

\* What a failed attempt leaves behind.
Retried(leg, next) ==
    \/ next.pc = "trying" /\ next.attempt = leg.attempt + 1
    \/ next.pc = "failed" /\ next.attempt = leg.attempt /\ leg.attempt = MaxAttempts

LEMMA MailFailed ==
  ASSUME TypeOK, NEW d \in Deliveries, MailFails(d)
  PROVE  \E k \in MailLeg : mail' = [mail EXCEPT ![d] = k] /\ Retried(mail[d], k)
<1>1. mail[d] \in MailLeg /\ mail[d].pc = "trying"
  BY DEF TypeOK, MailFails
<1>2. CASE mail[d].attempt < MaxAttempts
  <2> DEFINE k == [mail[d] EXCEPT !.attempt = mail[d].attempt + 1]
  <2>1. k \in MailLeg /\ Retried(mail[d], k)
    BY <1>1, <1>2, DispatchAssumption DEF MailLeg, Retried
  <2>2. mail' = [mail EXCEPT ![d] = k]
    BY <1>2 DEF MailFails
  <2> QED
    BY <2>1, <2>2
<1>3. CASE ~(mail[d].attempt < MaxAttempts)
  <2> DEFINE k == [mail[d] EXCEPT !.pc = "failed"]
  <2>1. k \in MailLeg /\ Retried(mail[d], k)
    BY <1>1, <1>3, DispatchAssumption DEF MailLeg, Retried
  <2>2. mail' = [mail EXCEPT ![d] = k]
    BY <1>3 DEF MailFails
  <2> QED
    BY <2>1, <2>2
<1> QED
  BY <1>2, <1>3

LEMMA PushMove ==
  ASSUME TypeInv, NEW d \in Deliveries, NEW k \in PushLeg, push[d].pc # "idle",
         push' = [push EXCEPT ![d] = k], badge' \in [Users -> Nat], unsure' \in SUBSET Users,
         UNCHANGED <<clock, prefs, templates, msg, task, mail, inbox, mails, req, crashes, changes>>
  PROVE  TypeInv'
<1> USE DEF TypeInv
<1>1. \A e \in Deliveries : push'[e] = IF e = d THEN k ELSE push[e]
  BY DEF TypeOK
<1>2. TypeOK'
  BY DEF TypeOK
<1>3. Routed' /\ ChannelsRest'
  BY <1>1 DEF Routed, ChannelsRest
<1>4. FoundStored' /\ StoredIds' = StoredIds
  BY DEF FoundStored, StoredIds, Stored
<1> QED
  BY <1>2, <1>3, <1>4

\* A request rewrites rows that the table has; they keep their user and event, and what was
\* read or deleted stays so.
Rewritten ==
    /\ inbox' \in [Ids -> Row \cup {Null}]
    /\ \A i \in Ids : /\ Stored(i)' <=> Stored(i)
                      /\ Stored(i) => /\ inbox'[i].user = inbox[i].user /\ inbox'[i].event = inbox[i].event
                                      /\ inbox[i].deleted => inbox'[i].deleted
                                      /\ inbox[i].isRead => inbox'[i].isRead

LEMMA ServeRewrites ==
  ASSUME TypeInv, NEW t \in Requests, Serve(t)
  PROVE  /\ Rewritten
         /\ req' \in [Requests -> Job] /\ FoundStored'
         /\ UNCHANGED <<clock, prefs, templates, msg, task, mail, push, mails, badge, crashes, changes>>
<1> USE DEF TypeInv
<1>0. /\ inbox \in [Ids -> Row \cup {Null}] /\ req \in [Requests -> Job] /\ FoundStored
      /\ Finished \in Job /\ Finished.pc = "done"
  BY IdleTypes DEF TypeOK, Finished
<1>1. CASE Find(t)
  <2>1. PICK i \in Ids, pc \in {"reading", "deleting"} : Stored(i) /\ req' = [req EXCEPT ![t] = [pc |-> pc, id |-> i]]
    BY <1>1 DEF Find
  <2>2. Rewritten
    BY <1>0, <1>1 DEF Find, Rewritten, Stored
  <2>3. req' \in [Requests -> Job] /\ FoundStored'
    BY <1>0, <1>1, <2>1 DEF Find, Job, FoundStored, Stored
  <2> QED
    BY <1>1, <2>2, <2>3 DEF Find, queueVars, sentVars, settingVars
<1>2. ASSUME Rewritten, req' = [req EXCEPT ![t] = Finished]
      PROVE  req' \in [Requests -> Job] /\ FoundStored'
  BY <1>0, <1>2 DEF Rewritten, FoundStored
<1>3. CASE SaveRead(t)
  <2>1. req[t].id \in Ids /\ inbox[req[t].id] \in Row
    BY <1>0, <1>3 DEF SaveRead, FoundStored, Stored
  <2>2. [inbox[req[t].id] EXCEPT !.isRead = TRUE] \in Row
    BY <2>1 DEF Row
  <2>3. Rewritten
    BY <1>0, <1>3, <2>1, <2>2 DEF SaveRead, Rewritten, Row, Stored
  <2> QED
    BY <1>2, <1>3, <2>3 DEF SaveRead, queueVars, sentVars, settingVars
<1>4. CASE SaveDeleted(t)
  <2>1. req[t].id \in Ids /\ inbox[req[t].id] \in Row
    BY <1>0, <1>4 DEF SaveDeleted, FoundStored, Stored
  <2>2. [inbox[req[t].id] EXCEPT !.deleted = TRUE] \in Row
    BY <2>1 DEF Row
  <2>3. Rewritten
    BY <1>0, <1>4, <2>1, <2>2 DEF SaveDeleted, Rewritten, Row, Stored
  <2> QED
    BY <1>2, <1>4, <2>3 DEF SaveDeleted, queueVars, sentVars, settingVars
<1>5. CASE MarkAllAsRead(t)
  <2>1. PICK u \in Users :
           inbox' = [i \in Ids |-> IF Stored(i) /\ inbox[i].user = u
                                   THEN [inbox[i] EXCEPT !.isRead = TRUE] ELSE inbox[i]]
    BY <1>5 DEF MarkAllAsRead
  <2>2. \A i \in Ids : Stored(i) => inbox[i] \in Row /\ [inbox[i] EXCEPT !.isRead = TRUE] \in Row
    BY <1>0 DEF Row, Stored
  <2>3. Rewritten
    BY <1>0, <2>1, <2>2 DEF Rewritten, Row, Stored
  <2> QED
    BY <1>2, <1>5, <2>3 DEF MarkAllAsRead, queueVars, sentVars, settingVars
<1> QED
  BY <1>1, <1>3, <1>4, <1>5 DEF Serve

LEMMA TypeInvHandle ==
  ASSUME TypeInv, NEW d \in Deliveries, Handle(d)
  PROVE  TypeInv'
<1> USE DEF TypeInv
<1> DEFINE others == <<clock, prefs, templates, msg, inbox, crashes, changes, req>>
<1>0. /\ task[d] \in Task /\ mail[d] \in MailLeg /\ push[d] \in PushLeg
      /\ task[d].pc # "none" => msg[d] \in Events /\ msg[d].to \in Users
      /\ mail[d].pc # "idle" \/ push[d].pc # "idle" => task[d].pc \notin Early
  BY EventUsers DEF TypeOK, Routed, ChannelsRest
<1>1. CASE ReadPreferences(d)
  <2> DEFINE p == prefs[msg[d].to]
             k == IF p = Null THEN [TaskAt("acked") EXCEPT !.discarded = TRUE]
                  ELSE [TaskAt("compiling") EXCEPT !.pref = p]
  <2>1. task[d].pc = "queued" /\ task' = [task EXCEPT ![d] = k]
    BY <1>1 DEF ReadPreferences
  <2>2. p \in Preference \cup {Null}
    BY <1>0, <2>1 DEF TypeOK
  <2>3. k \in Task
    BY <2>2 DEF TaskAt, Task
  <2> HIDE DEF k
  <2> QED
    BY <1>1, <2>1, <2>3, TaskMove DEF ReadPreferences, Early, sentVars, settingVars
<1>2. CASE Compile(d)
  <2> DEFINE k == [task[d] EXCEPT !.pc = "saving"]
  <2>1. task[d].pc = "compiling" /\ task' = [task EXCEPT ![d] = k]
    BY <1>2 DEF Compile
  <2>2. k \in Task
    BY <1>0 DEF Task
  <2> HIDE DEF k
  <2> QED
    BY <1>2, <2>1, <2>2, TaskMove DEF Compile, Early, sentVars, settingVars
<1>3. CASE Persist(d)
  <2>1. msg[d] \in Events /\ msg[d].to \in Users
    BY <1>0, <1>3 DEF Persist
  <2>2. inbox' \in [Ids -> Row \cup {Null}] /\ FoundStored' /\ IsFiniteSet(StoredIds')
    BY <1>3, <2>1, InsertType DEF Persist, InsertFor
  <2>3. PICK pc \in {"sending", "acked"}, m \in MailLeg, n \in PushLeg :
           /\ task' = [task EXCEPT ![d].pc = pc]
           /\ mail' = [mail EXCEPT ![d] = m]
           /\ push' = [push EXCEPT ![d] = n]
    <3> DEFINE q == IF \E c \in Channels : Allowed(d, c) THEN "sending" ELSE "acked"
               x == IF Allowed(d, "EMAIL") THEN [pc |-> "trying", attempt |-> 1] ELSE mail[d]
               y == IF Allowed(d, "IN_APP") THEN [pc |-> "counting", count |-> 0] ELSE push[d]
    <3>1. q \in {"sending", "acked"} /\ x \in MailLeg /\ y \in PushLeg
      BY <1>0, DispatchAssumption DEF MailLeg, PushLeg
    <3>2. /\ task' = [task EXCEPT ![d].pc = q]
          /\ mail' = [mail EXCEPT ![d] = x]
          /\ push' = [push EXCEPT ![d] = y]
      BY <1>3 DEF Persist
    <3> QED
      BY <3>1, <3>2
  <2>4. [task[d] EXCEPT !.pc = pc] \in Task /\ [task[d] EXCEPT !.pc = pc].pc = pc
    BY <1>0 DEF Task
  <2>5. task' \in [Deliveries -> Task] /\ mail' \in [Deliveries -> MailLeg] /\ push' \in [Deliveries -> PushLeg]
    BY <2>3, <2>4 DEF TypeOK
  <2>6. TypeOK'
    BY <1>3, <2>1, <2>2, <2>5 DEF TypeOK, Persist, sentVars, settingVars
  <2>7. \A e \in Deliveries \ {d} : UNCHANGED <<task[e], mail[e], push[e]>>
    BY <2>3 DEF TypeOK
  <2>8. task'[d].pc \notin Early
    BY <2>3, <2>4 DEF TypeOK, Early
  <2>9. Routed' /\ ChannelsRest'
    BY <1>3, <2>1, <2>7, <2>8 DEF Routed, ChannelsRest, Persist
  <2> QED
    BY <2>2, <2>6, <2>9
<1>4. CASE DispatchFails(d)
  BY <1>4, TaskAtType, TaskMove DEF DispatchFails, DeadLetter, Early, sentVars, settingVars
<1>5. CASE AnswerLost(d)
  <2>1. msg[d] \in Events /\ msg[d].to \in Users
    BY <1>0, <1>5 DEF AnswerLost
  <2>2. inbox' \in [Ids -> Row \cup {Null}] /\ FoundStored' /\ IsFiniteSet(StoredIds')
    BY <1>5, <2>1, InsertType DEF AnswerLost, InsertFor
  <2>3. task' = [task EXCEPT ![d] = TaskAt("dead")] /\ TaskAt("dead") \in Task /\ TaskAt("dead").pc = "dead"
    BY <1>5, TaskAtType DEF AnswerLost, DeadLetter
  <2>4. TypeOK'
    BY <1>5, <2>1, <2>2, <2>3 DEF TypeOK, AnswerLost, sentVars, settingVars
  <2>5. Routed' /\ ChannelsRest'
    BY <1>5, <2>1, <2>3 DEF TypeOK, Routed, ChannelsRest, AnswerLost, Early
  <2> QED
    BY <2>2, <2>4, <2>5
<1>6. CASE MailSent(d)
  <2>1. [mail[d] EXCEPT !.pc = "sent"] \in MailLeg
    BY <1>0 DEF MailLeg
  <2>2. mails' \in [Deliveries -> Nat]
    BY <1>6 DEF MailSent, TypeOK
  <2> QED
    BY <1>6, <2>1, <2>2, MailMove DEF MailSent, settingVars
<1>7. CASE MailFails(d)
  <2>1. PICK k \in MailLeg : mail' = [mail EXCEPT ![d] = k]
    BY <1>7, MailFailed
  <2>2. mails' \in [Deliveries -> Nat]
    BY <1>7 DEF MailFails, TypeOK
  <2> QED
    BY <1>7, <2>1, <2>2, MailMove DEF MailFails, settingVars
<1>8. CASE CountUnreadAnswers(d)
  <2> DEFINE k == [pc |-> "counted", count |-> CountUnread(msg[d].to)]
  <2>1. k \in PushLeg
    BY UnreadFinite DEF PushLeg, CountUnread
  <2>2. push' = [push EXCEPT ![d] = k]
    BY <1>8 DEF CountUnreadAnswers
  <2>3. unsure' \in SUBSET Users
    BY <1>8 DEF CountUnreadAnswers, TypeOK
  <2> HIDE DEF k
  <2> QED
    BY <1>8, <2>1, <2>2, <2>3, PushMove DEF CountUnreadAnswers, TypeOK, sentVars, settingVars
<1>9. CASE EmitCount(d)
  <2>1. [push[d] EXCEPT !.pc = "emitted"] \in PushLeg /\ push[d].count \in Nat
    BY <1>0 DEF PushLeg
  <2>2. badge' \in [Users -> Nat]
    BY <1>9, <2>1 DEF EmitCount, TypeOK
  <2> QED
    BY <1>9, <2>1, <2>2, PushMove DEF EmitCount, TypeOK, settingVars
<1>10. CASE CountFails(d)
  <2>1. [push[d] EXCEPT !.pc = "failed"] \in PushLeg
    BY <1>0 DEF PushLeg
  <2> QED
    BY <1>10, <2>1, PushMove DEF CountFails, TypeOK, sentVars, settingVars
<1>11. CASE Acknowledge(d)
  BY <1>11, TaskAtType, TaskMove DEF Acknowledge, Early, sentVars, settingVars
<1>12. CASE Reject(d)
  BY <1>12, TaskAtType, TaskMove DEF Reject, DeadLetter, Early, sentVars, settingVars
<1> QED
  BY <1>1, <1>2, <1>3, <1>4, <1>5, <1>6, <1>7, <1>8, <1>9, <1>10, <1>11, <1>12 DEF Handle

LEMMA TypeInvArrive ==
  ASSUME TypeInv, NEW d \in Deliveries, Arrive(d)
  PROVE  TypeInv'
<1> USE DEF TypeInv
<1>1. PICK e \in Events : msg' = [msg EXCEPT ![d] = e]
  BY DEF Arrive
<1>2. TaskAt("queued") \in Task /\ TaskAt("queued").pc = "queued"
  BY TaskAtType
<1>3. TypeOK'
  BY <1>1, <1>2 DEF Arrive, TypeOK, sentVars, settingVars
<1>4. Routed' /\ ChannelsRest'
  BY <1>1, <1>2 DEF Arrive, TypeOK, Routed, ChannelsRest, Early
<1>5. FoundStored' /\ StoredIds' = StoredIds
  BY DEF Arrive, FoundStored, StoredIds, Stored
<1> QED
  BY <1>3, <1>4, <1>5

LEMMA TypeInvServe ==
  ASSUME TypeInv, NEW t \in Requests, Serve(t)
  PROVE  TypeInv'
<1> USE DEF TypeInv
<1>1. /\ Rewritten
      /\ req' \in [Requests -> Job] /\ FoundStored'
      /\ UNCHANGED <<clock, prefs, templates, msg, task, mail, push, mails, badge, crashes, changes>>
  BY ServeRewrites
<1>2. unsure' \in SUBSET Users
  BY DEF Serve, Find, SaveRead, SaveDeleted, MarkAllAsRead, Disturbed, TypeOK
<1>3. TypeOK'
  BY <1>1, <1>2 DEF TypeOK, Rewritten
<1>4. Routed' /\ ChannelsRest' /\ StoredIds' = StoredIds
  BY <1>1 DEF Routed, ChannelsRest, StoredIds, Rewritten
<1> QED
  BY <1>1, <1>3, <1>4

LEMMA TypeInvCrash ==
  ASSUME TypeInv, Crash
  PROVE  TypeInv'
<1> USE DEF TypeInv
<1>1. TaskAt("queued") \in Task /\ TaskAt("queued").pc = "queued" /\ Finished.pc = "done"
  BY TaskAtType DEF Finished
<1>2. /\ task' \in [Deliveries -> Task]
      /\ mail' \in [Deliveries -> MailLeg]
      /\ push' \in [Deliveries -> PushLeg]
      /\ req' \in [Requests -> Job]
  BY <1>1, IdleTypes DEF Crash, TypeOK
<1>3. \A o \in Deliveries : push[o].pc = "counted" => msg[o].to \in Users
  BY EventUsers DEF ChannelsRest, Routed, Early
<1>4. unsure' \in SUBSET Users
  BY <1>3 DEF Crash, TypeOK
<1>5. TypeOK'
  BY <1>2, <1>4 DEF Crash, TypeOK, sentVars, settingVars
<1>6. Routed' /\ ChannelsRest'
  BY <1>1, <1>2 DEF Crash, Routed, ChannelsRest, MailIdle, PushIdle
<1>7. FoundStored' /\ StoredIds' = StoredIds
  BY <1>1 DEF Crash, FoundStored, StoredIds, Stored
<1> QED
  BY <1>5, <1>6, <1>7

LEMMA TypeInvNext == TypeInv /\ [Next]_vars => TypeInv'
<1> SUFFICES ASSUME TypeInv, [Next]_vars PROVE TypeInv'
  OBVIOUS
<1> USE DEF TypeInv
<1>1. ASSUME NEW d \in Deliveries, Arrive(d) \/ Handle(d) PROVE TypeInv'
  BY <1>1, TypeInvArrive, TypeInvHandle
<1>2. ASSUME NEW t \in Requests, Serve(t) PROVE TypeInv'
  BY <1>2, TypeInvServe
<1>3. ASSUME UNCHANGED <<msg, task, mail, push, inbox, req>>, TypeOK' PROVE TypeInv'
  BY <1>3 DEF Routed, ChannelsRest, FoundStored, StoredIds, Stored
<1>4. ASSUME NEW u \in Users, ChangePreferences(u) PROVE TypeInv'
  <2>1. TypeOK'
    BY <1>4, DispatchAssumption DEF ChangePreferences, TypeOK, queueVars, sentVars
  <2> QED
    BY <1>3, <1>4, <2>1 DEF ChangePreferences, queueVars
<1>5. CASE Tick
  <2>1. TypeOK'
    BY <1>5, PreferenceAssumption DEF Tick, Minute, TypeOK, queueVars, sentVars
  <2> QED
    BY <1>3, <1>5, <2>1 DEF Tick, queueVars
<1>6. CASE Crash
  BY <1>6, TypeInvCrash
<1>7. CASE UNCHANGED vars
  BY <1>3, <1>7 DEF vars, TypeOK
<1> QED
  BY <1>1, <1>2, <1>4, <1>5, <1>6, <1>7 DEF Next

\* Every variable keeps its type; a message that was routed has an event; the channels rest
\* until the row is stored; what a REST handler found is in the table.
\* (DispatcherService.dispatchEvent and NotificationService.)
THEOREM TypesHold == Spec => []TypeOK
<1>1. TypeInv => TypeOK
  BY DEF TypeInv
<1> QED
  BY TypeInvInit, TypeInvNext, <1>1, PTL DEF Spec

-----------------------------------------------------------------------------
(* The table. *)

Made(d) == Cardinality(RowsOf(d))

\* The rows of a message are numbered in the order they were stored, so that the next number
\* is free and a new row never lands on an old one.
RowsInOrder == \A d \in Deliveries : Made(d) \in Nat /\ RowsOf(d) = {<<d, n>> : n \in 0 .. (Made(d) - 1)}

\* A message makes at most one row each time it is handed out.
RowPerHandOut ==
    \A d \in Deliveries :
        /\ Made(d) <= crashes + 1
        /\ task[d].pc \in Early => Made(d) <= crashes
        /\ task[d].pc = "none" => RowsOf(d) = {}

\* A row tells what its message says.
RowsTell == \A d \in Deliveries : \A i \in RowsOf(d) : inbox[i].event = msg[d] /\ inbox[i].user = msg[d].to

\* What comes after the row in dispatchEvent.
NeedsRow(d) ==
    \/ task[d].pc = "sending"
    \/ task[d].pc = "acked" /\ ~task[d].discarded
    \/ mail[d].pc # "idle"
    \/ mails[d] > 0

RowInv ==
    /\ crashes <= MaxCrashes
    /\ RowsInOrder /\ RowPerHandOut /\ RowsTell
    /\ \A d \in Deliveries : NeedsRow(d) => RowsOf(d) # {}

LEMMA RowInvInit == Init => RowInv
<1> SUFFICES ASSUME Init PROVE RowInv
  OBVIOUS
<1>1. \A d : RowsOf(d) = {}
  BY DEF Init, RowsOf, Stored
<1>2. \A d : Made(d) = 0
  BY <1>1, FS_EmptySet DEF Made
<1>3. crashes = 0 /\ \A d \in Deliveries : ~NeedsRow(d)
  BY DEF Init, NeedsRow, TaskAt, MailIdle
<1> QED
  BY <1>1, <1>2, <1>3, DispatchAssumption DEF RowInv, RowsInOrder, RowPerHandOut, RowsTell

\* Nothing is rewritten where the table is left alone.
LEMMA UntouchedIsRewritten == TypeOK /\ UNCHANGED inbox => Rewritten
  BY DEF TypeOK, Rewritten, Stored

LEMMA RowsKept ==
  ASSUME Rewritten
  PROVE  /\ \A d : RowsOf(d)' = RowsOf(d) /\ Made(d)' = Made(d)
         /\ \A d : \A i \in RowsOf(d) : inbox'[i].user = inbox[i].user /\ inbox'[i].event = inbox[i].event
<1>1. \A d : RowsOf(d)' = RowsOf(d)
  BY DEF Rewritten, RowsOf
<1> QED
  BY <1>1 DEF Rewritten, RowsOf, Made

\* A new row lands on a free number, and no other row is touched.
LEMMA RowAdded ==
  ASSUME TypeInv, RowInv, NEW d \in Deliveries, task[d].pc = "saving", InsertFor(d)
  PROVE  /\ msg[d] \in Events
         /\ NewId(d) \in Ids /\ ~Stored(NewId(d)) /\ inbox'[NewId(d)] = NewRow(d) /\ NewRow(d) # Null
         /\ \A i \in Ids \ {NewId(d)} : inbox'[i] = inbox[i]
         /\ RowsOf(d)' = RowsOf(d) \cup {NewId(d)}
         /\ Made(d)' = Made(d) + 1 /\ Made(d) <= crashes
         /\ \A e \in Deliveries \ {d} : RowsOf(e)' = RowsOf(e) /\ Made(e)' = Made(e)
<1>1. msg[d] \in Events /\ NewRow(d) # Null
  BY NewRowType DEF TypeInv, Routed
<1>2. Made(d) \in Nat /\ Made(d) <= crashes /\ NewId(d) = <<d, Made(d)>>
  BY DEF RowInv, RowsInOrder, RowPerHandOut, NewId, Made, Early
<1>3. NewId(d) \in Ids
  BY <1>2, DispatchAssumption DEF Ids, RowInv, TypeInv, TypeOK
<1>4. NewId(d) \notin RowsOf(d)
  <2>1. RowsOf(d) = {<<d, n>> : n \in 0 .. (Made(d) - 1)}
    BY DEF RowInv, RowsInOrder
  <2> QED
    BY <1>2, <2>1
<1>5. ~Stored(NewId(d))
  BY <1>2, <1>3, <1>4 DEF RowsOf
<1>6. inbox'[NewId(d)] = NewRow(d) /\ \A i \in Ids \ {NewId(d)} : inbox'[i] = inbox[i]
  BY <1>3 DEF TypeInv, TypeOK, InsertFor
<1>7. RowsOf(d)' = RowsOf(d) \cup {NewId(d)}
  BY <1>1, <1>2, <1>3, <1>6 DEF RowsOf, Stored
<1>8. \A e \in Deliveries \ {d} : RowsOf(e)' = RowsOf(e)
  BY <1>2, <1>6 DEF RowsOf, Stored
<1>9. IsFiniteSet(RowsOf(d))
  <2>1. RowsOf(d) \in SUBSET StoredIds
    BY DEF RowsOf, StoredIds
  <2> QED
    BY <2>1, FS_Subset DEF TypeInv
<1>10. Cardinality(RowsOf(d) \cup {NewId(d)}) = Cardinality(RowsOf(d)) + 1
  BY <1>4, <1>9, FS_AddElement
<1>11. Made(d)' = Made(d) + 1
  BY <1>7, <1>10 DEF Made
<1> QED
  BY <1>1, <1>2, <1>3, <1>5, <1>6, <1>7, <1>8, <1>11 DEF Made

LEMMA RowInvInsert ==
  ASSUME TypeInv, RowInv, NEW d \in Deliveries, task[d].pc = "saving", InsertFor(d),
         UNCHANGED <<msg, mails, crashes>>,
         task'[d].pc \notin Early,
         \A e \in Deliveries \ {d} : UNCHANGED <<task[e], mail[e]>>
  PROVE  RowInv'
<1>1. /\ RowsOf(d)' = RowsOf(d) \cup {NewId(d)} /\ Made(d)' = Made(d) + 1 /\ Made(d) <= crashes
      /\ inbox'[NewId(d)] = NewRow(d)
      /\ \A i \in Ids \ {NewId(d)} : inbox'[i] = inbox[i]
      /\ \A e \in Deliveries \ {d} : RowsOf(e)' = RowsOf(e) /\ Made(e)' = Made(e)
      /\ NewId(d) \in Ids /\ NewId(d) = <<d, Made(d)>>
  BY RowAdded DEF NewId, Made
<1>2. crashes \in Nat /\ Made(d) \in Nat /\ RowsOf(d) = {<<d, n>> : n \in 0 .. (Made(d) - 1)}
  BY DEF TypeInv, TypeOK, RowInv, RowsInOrder
<1>3. RowsInOrder'
  <2>1. RowsOf(d)' = {<<d, n>> : n \in 0 .. Made(d)}
    BY <1>1, <1>2
  <2>2. Made(d)' - 1 = Made(d)
    BY <1>1, <1>2
  <2>3. RowsOf(d)' = {<<d, n>> : n \in 0 .. (Made(d)' - 1)}
    BY <2>1, <2>2
  <2>4. \A e \in Deliveries \ {d} : Made(e)' \in Nat /\ RowsOf(e)' = {<<e, n>> : n \in 0 .. (Made(e)' - 1)}
    BY <1>1 DEF RowInv, RowsInOrder
  <2> QED
    BY <1>1, <1>2, <2>3, <2>4 DEF RowsInOrder
<1>4. RowPerHandOut'
  BY <1>1, <1>2 DEF RowInv, RowPerHandOut, Early
<1>5. RowsTell'
  <2>1. \A e \in Deliveries \ {d} : NewId(d) \notin RowsOf(e)
    BY <1>1 DEF RowsOf
  <2>2. NewId(d) \notin RowsOf(d)
    BY <1>1, <1>2
  <2>3. \A e \in Deliveries : \A i \in RowsOf(e) : inbox'[i] = inbox[i]
    BY <1>1, <2>1, <2>2 DEF RowsOf
  <2>4. \A e \in Deliveries : \A i \in RowsOf(e) : inbox'[i].event = msg[e] /\ inbox'[i].user = msg[e].to
    BY <2>3 DEF RowInv, RowsTell
  <2>5. inbox'[NewId(d)].event = msg[d] /\ inbox'[NewId(d)].user = msg[d].to
    BY <1>1 DEF NewRow
  <2> QED
    BY <1>1, <2>4, <2>5 DEF RowsTell
<1>6. \A e \in Deliveries : NeedsRow(e)' => RowsOf(e)' # {}
  BY <1>1 DEF RowInv, NeedsRow
<1> QED
  BY <1>3, <1>4, <1>5, <1>6 DEF RowInv

\* A step that stores nothing new, as one message sees it.
NothingStored(e) ==
    /\ task'[e].pc \in Early => task[e].pc \in Early
    /\ task'[e].pc = "none" => task[e].pc = "none"
    /\ task[e].pc # "none" => msg'[e] = msg[e]
    /\ NeedsRow(e)' => NeedsRow(e)

LEMMA RowInvKept ==
  ASSUME TypeInv, RowInv, Rewritten, UNCHANGED crashes,
         \A e \in Deliveries : NothingStored(e)
  PROVE  RowInv'
<1>1. /\ \A d : RowsOf(d)' = RowsOf(d) /\ Made(d)' = Made(d)
      /\ \A d : \A i \in RowsOf(d) : inbox'[i].user = inbox[i].user /\ inbox'[i].event = inbox[i].event
  BY RowsKept
<1>2. RowsInOrder' /\ RowPerHandOut'
  BY <1>1 DEF RowInv, RowsInOrder, RowPerHandOut, NothingStored
<1>3. RowsTell'
  BY <1>1 DEF RowInv, RowPerHandOut, RowsTell, NothingStored
<1> QED
  BY <1>1, <1>2, <1>3 DEF RowInv, NothingStored

LEMMA RowInvNext == TypeInv /\ RowInv /\ [Next]_vars => RowInv'
<1> SUFFICES ASSUME TypeInv, RowInv, [Next]_vars PROVE RowInv'
  OBVIOUS
<1>0. TypeOK /\ ChannelsRest /\ (UNCHANGED inbox => Rewritten)
  BY UntouchedIsRewritten DEF TypeInv
<1>1. \A pc \in {"queued", "acked", "dead"} : TaskAt(pc).pc = pc
  BY DEF TaskAt
<1>2. ASSUME NEW d \in Deliveries, Arrive(d) PROVE RowInv'
  <2>1. \A e \in Deliveries : NothingStored(e)
    BY <1>0, <1>1, <1>2 DEF TypeOK, Arrive, NothingStored, NeedsRow, Early, sentVars
  <2> QED
    BY <1>0, <1>2, <2>1, RowInvKept DEF Arrive
<1>3. ASSUME NEW d \in Deliveries, ReadPreferences(d) PROVE RowInv'
  <2>1. \/ task'[d].pc = "compiling"
        \/ task'[d].pc = "acked" /\ task'[d].discarded
    BY <1>0, <1>3 DEF TypeOK, ReadPreferences, TaskAt
  <2>2. \A e \in Deliveries : NothingStored(e)
    BY <1>0, <1>3, <2>1 DEF TypeOK, ReadPreferences, NothingStored, NeedsRow, Early, sentVars
  <2> QED
    BY <1>0, <1>3, <2>2, RowInvKept DEF ReadPreferences
<1>4. ASSUME NEW d \in Deliveries, Compile(d) PROVE RowInv'
  <2>1. task'[d].pc = "saving" /\ \A e \in Deliveries \ {d} : task'[e] = task[e]
    BY <1>0, <1>4 DEF TypeOK, Compile, Task
  <2>2. \A e \in Deliveries : NothingStored(e)
    BY <1>4, <2>1 DEF Compile, NothingStored, NeedsRow, Early, sentVars
  <2> QED
    BY <1>0, <1>4, <2>2, RowInvKept DEF Compile
<1>5. ASSUME NEW d \in Deliveries, Persist(d) PROVE RowInv'
  <2>1. task'[d].pc \notin Early
    BY <1>0, <1>5 DEF TypeOK, Task, Persist, Early
  <2>2. \A e \in Deliveries \ {d} : UNCHANGED <<task[e], mail[e]>>
    BY <1>0, <1>5 DEF TypeOK, Persist
  <2> QED
    BY <1>5, <2>1, <2>2, RowInvInsert DEF Persist, InsertFor, sentVars
<1>6. ASSUME NEW d \in Deliveries, AnswerLost(d) PROVE RowInv'
  <2>1. task'[d].pc \notin Early /\ \A e \in Deliveries \ {d} : UNCHANGED <<task[e], mail[e]>>
    BY <1>0, <1>1, <1>6 DEF TypeOK, AnswerLost, DeadLetter, Early
  <2> QED
    BY <1>6, <2>1, RowInvInsert DEF AnswerLost, InsertFor, sentVars
<1>7. ASSUME NEW d \in Deliveries, DispatchFails(d) \/ Reject(d) PROVE RowInv'
  <2>1. \A e \in Deliveries : NothingStored(e)
    BY <1>0, <1>1, <1>7 DEF TypeOK, DispatchFails, Reject, DeadLetter, NothingStored, NeedsRow, Early, sentVars
  <2> QED
    BY <1>0, <1>7, <2>1, RowInvKept DEF DispatchFails, Reject
<1>8. ASSUME NEW d \in Deliveries, Acknowledge(d) PROVE RowInv'
  <2>1. \A e \in Deliveries : NothingStored(e)
    BY <1>0, <1>1, <1>8 DEF TypeOK, Acknowledge, NothingStored, NeedsRow, Early, sentVars
  <2> QED
    BY <1>0, <1>8, <2>1, RowInvKept DEF Acknowledge
<1>9. ASSUME NEW d \in Deliveries, MailSent(d) \/ MailFails(d) PROVE RowInv'
  <2>1. mail[d].pc = "trying" /\ UNCHANGED <<task, msg, inbox, crashes>>
    BY <1>9 DEF MailSent, MailFails
  <2>2. \A e \in Deliveries \ {d} : UNCHANGED <<mail[e], mails[e]>>
    BY <1>0, <1>9 DEF TypeOK, MailSent, MailFails
  <2>3. \A e \in Deliveries : NothingStored(e)
    BY <2>1, <2>2 DEF NothingStored, NeedsRow
  <2> QED
    BY <1>0, <2>1, <2>3, RowInvKept
<1>10. ASSUME UNCHANGED <<task, msg, mail, mails, crashes>>, Rewritten PROVE RowInv'
  <2>1. \A e \in Deliveries : NothingStored(e)
    BY <1>10 DEF NothingStored, NeedsRow
  <2> QED
    BY <1>10, <2>1, RowInvKept
<1>11. ASSUME NEW d \in Deliveries, CountUnreadAnswers(d) \/ EmitCount(d) \/ CountFails(d) PROVE RowInv'
  BY <1>0, <1>10, <1>11 DEF CountUnreadAnswers, EmitCount, CountFails, sentVars
<1>12. ASSUME NEW t \in Requests, Serve(t) PROVE RowInv'
  BY <1>10, <1>12, ServeRewrites
<1>13. ASSUME NEW u \in Users, ChangePreferences(u) PROVE RowInv'
  BY <1>0, <1>10, <1>13 DEF ChangePreferences, queueVars, sentVars
<1>14. CASE Tick \/ UNCHANGED vars
  BY <1>0, <1>10, <1>14 DEF Tick, queueVars, sentVars, vars
<1>15. CASE Crash
  <2>1. /\ \A d : RowsOf(d)' = RowsOf(d) /\ Made(d)' = Made(d)
        /\ UNCHANGED <<msg, inbox, mails>> /\ crashes' = crashes + 1 /\ crashes < MaxCrashes
        /\ crashes \in Nat
    BY <1>0, <1>15, RowsKept DEF Crash, sentVars, TypeOK
  <2>2. RowsInOrder' /\ RowsTell'
    BY <2>1 DEF RowInv, RowsInOrder, RowsTell
  <2>3. \A d \in Deliveries : (task'[d].pc = "none" => task[d].pc = "none") /\ (NeedsRow(d)' => NeedsRow(d))
    BY <1>1, <1>15, <2>1 DEF Crash, NeedsRow, MailIdle
  <2>4. RowPerHandOut'
    BY <2>1, <2>3 DEF RowInv, RowPerHandOut, RowsInOrder
  <2> QED
    BY <2>1, <2>2, <2>3, <2>4, DispatchAssumption DEF RowInv
<1> QED
  BY <1>2, <1>3, <1>4, <1>5, <1>6, <1>7, <1>8, <1>9, <1>11, <1>12, <1>13, <1>14, <1>15 DEF Next, Handle

\* An acknowledged message has its row in its user's inbox, or was discarded for want of
\* preferences; no email goes out without its row; a row tells what its message says.
\* (DispatcherService.dispatchEvent: persist first, then the channels.)
THEOREM RecordedBeforeAcknowledged == Spec => []AckMeansRecorded
<1>1. RowInv => AckMeansRecorded
  BY DEF RowInv, RowsTell, NeedsRow, AckMeansRecorded
<1> QED
  BY TypeInvInit, TypeInvNext, RowInvInit, RowInvNext, <1>1, PTL DEF Spec

-----------------------------------------------------------------------------
(* Emails. *)

\* What the restarts so far allow, before and with the hand-out that runs now.
Budget == MaxAttempts * crashes

\* A hand-out that has not reached the email channel has sent nothing yet; one in its n-th
\* attempt has sent at most n - 1.
MailInv ==
    \A d \in Deliveries :
        /\ task[d].pc \in Early => mails[d] <= Budget
        /\ mail[d].pc = "trying" => mail[d].attempt >= 1 /\ mails[d] <= Budget + mail[d].attempt - 1
        /\ mails[d] <= Budget + MaxAttempts

LEMMA BudgetType ==
  ASSUME TypeOK
  PROVE  /\ Budget \in Nat /\ MaxAttempts \in Nat /\ Budget + MaxAttempts = MaxAttempts * (1 + crashes)
         /\ crashes' = crashes + 1 => Budget' = Budget + MaxAttempts
         /\ UNCHANGED crashes => Budget' = Budget
  BY DispatchAssumption DEF TypeOK, Budget

LEMMA MailInvInit == Init => MailInv
<1> SUFFICES ASSUME Init PROVE MailInv
  OBVIOUS
<1>1. Budget = 0 /\ MaxAttempts \in Nat
  BY DispatchAssumption DEF Init, Budget
<1> QED
  BY <1>1 DEF Init, MailInv, MailIdle

\* A step that sends nothing and starts no attempt, as one message sees it.
NothingSent(e) ==
    /\ task'[e].pc \in Early => task[e].pc \in Early
    /\ mail'[e] = mail[e] \/ mail'[e].pc # "trying"
    /\ mails'[e] = mails[e]

LEMMA MailInvKept ==
  ASSUME TypeOK, MailInv, UNCHANGED crashes, \A e \in Deliveries : NothingSent(e)
  PROVE  MailInv'
<1>1. Budget' = Budget
  BY BudgetType
<1> QED
  BY <1>1 DEF MailInv, NothingSent

LEMMA MailInvNext == TypeInv /\ MailInv /\ [Next]_vars => MailInv'
<1> SUFFICES ASSUME TypeInv, MailInv, [Next]_vars PROVE MailInv'
  OBVIOUS
<1>0. TypeOK /\ ChannelsRest /\ Budget \in Nat /\ MaxAttempts \in Nat \ {0}
  BY BudgetType, DispatchAssumption DEF TypeInv
<1>1. \A pc \in {"queued", "acked", "dead"} : TaskAt(pc).pc = pc
  BY DEF TaskAt
<1>2. ASSUME UNCHANGED <<mail, mails, crashes>>, \A e \in Deliveries : task'[e].pc \in Early => task[e].pc \in Early
      PROVE  MailInv'
  BY <1>0, <1>2, MailInvKept DEF NothingSent
<1>3. ASSUME NEW d \in Deliveries, Arrive(d) PROVE MailInv'
  BY <1>0, <1>1, <1>2, <1>3 DEF TypeOK, Arrive, Early, sentVars
<1>4. ASSUME NEW d \in Deliveries, ReadPreferences(d) \/ Compile(d) PROVE MailInv'
  <2>1. task[d].pc \in Early /\ \A e \in Deliveries \ {d} : task'[e] = task[e]
    BY <1>0, <1>4 DEF TypeOK, ReadPreferences, Compile, Early
  <2> QED
    BY <1>2, <1>4, <2>1 DEF ReadPreferences, Compile, sentVars
<1>5. ASSUME NEW d \in Deliveries, AnswerLost(d) \/ DispatchFails(d) \/ Acknowledge(d) \/ Reject(d) PROVE MailInv'
  BY <1>0, <1>1, <1>2, <1>5 DEF TypeOK, AnswerLost, DispatchFails, Acknowledge, Reject, DeadLetter, Early, sentVars
<1>6. ASSUME NEW d \in Deliveries, Persist(d) PROVE MailInv'
  <2>1. mails[d] <= Budget /\ mails[d] \in Nat /\ mail[d].pc = "idle"
    BY <1>0, <1>6 DEF TypeOK, Persist, MailInv, ChannelsRest, Early
  <2>2. mail'[d].pc = "trying" => mail'[d].attempt = 1
    BY <1>0, <1>6, <2>1 DEF TypeOK, Persist
  <2>3. task'[d].pc \notin Early
    BY <1>0, <1>6 DEF TypeOK, Task, Persist, Early
  <2>4. /\ \A e \in Deliveries \ {d} : UNCHANGED <<task[e], mail[e]>>
        /\ UNCHANGED <<mails, crashes>>
    BY <1>0, <1>6 DEF TypeOK, Persist, sentVars
  <2>5. Budget' = Budget
    BY <1>0, <2>4, BudgetType
  <2> QED
    BY <1>0, <2>1, <2>2, <2>3, <2>4, <2>5 DEF MailInv
<1>7. ASSUME NEW d \in Deliveries, MailSent(d) \/ MailFails(d) PROVE MailInv'
  <2>1. mail[d].pc = "trying" /\ UNCHANGED <<task, crashes>> /\ task[d].pc \notin Early
    BY <1>0, <1>7 DEF MailSent, MailFails, ChannelsRest
  <2>2. /\ mail[d].attempt \in 1 .. MaxAttempts /\ mails[d] \in Nat
        /\ mails[d] <= Budget + mail[d].attempt - 1
    BY <1>0, <2>1 DEF TypeOK, MailLeg, MailInv
  <2>3. mails'[d] \in {mails[d], mails[d] + 1}
    BY <1>0, <1>7 DEF TypeOK, MailSent, MailFails
  <2>4. \A e \in Deliveries \ {d} : UNCHANGED <<mail[e], mails[e]>>
    BY <1>0, <1>7 DEF TypeOK, MailSent, MailFails
  <2>5. mail'[d].pc = "trying" => mail'[d].attempt = mail[d].attempt + 1
    <3>1. CASE MailSent(d)
      BY <1>0, <3>1 DEF TypeOK, MailLeg, MailSent
    <3>2. CASE MailFails(d)
      BY <1>0, <3>2, MailFailed DEF TypeOK, Retried
    <3> QED
      BY <1>7, <3>1, <3>2
  <2>6. Budget' = Budget
    BY <1>0, <2>1, BudgetType
  <2> QED
    BY <1>0, <2>1, <2>2, <2>3, <2>4, <2>5, <2>6 DEF MailInv
<1>8. ASSUME NEW d \in Deliveries, CountUnreadAnswers(d) \/ EmitCount(d) \/ CountFails(d) PROVE MailInv'
  BY <1>2, <1>8 DEF CountUnreadAnswers, EmitCount, CountFails, sentVars
<1>9. ASSUME NEW t \in Requests, Serve(t) PROVE MailInv'
  BY <1>2, <1>9, ServeRewrites
<1>10. ASSUME NEW u \in Users, ChangePreferences(u) PROVE MailInv'
  BY <1>2, <1>10 DEF ChangePreferences, queueVars, sentVars
<1>11. CASE Tick \/ UNCHANGED vars
  BY <1>2, <1>11 DEF Tick, queueVars, sentVars, vars
<1>12. CASE Crash
  <2>1. Budget' = Budget + MaxAttempts /\ UNCHANGED mails /\ \A d \in Deliveries : mail'[d].pc = "idle"
    BY <1>0, <1>12, BudgetType DEF Crash, MailIdle, sentVars
  <2> QED
    BY <1>0, <2>1 DEF MailInv, TypeOK
<1> QED
  BY <1>3, <1>4, <1>5, <1>6, <1>7, <1>8, <1>9, <1>10, <1>11, <1>12 DEF Next, Handle

\* A message sends at most maxAttempts emails, and again as many for every restart, though
\* an email may be taken by an attempt that throws.  (EmailChannelAdapter.send.)
THEOREM EmailsBounded == Spec => []RepeatsNeedRestart
<1>1. TypeInv /\ MailInv => RepeatsNeedRestart
  BY BudgetType DEF TypeInv, MailInv, RepeatsNeedRestart
<1> QED
  BY TypeInvInit, TypeInvNext, MailInvInit, MailInvNext, <1>1, PTL DEF Spec

-----------------------------------------------------------------------------
(* The unread count. *)

Counted(d, u) == push[d].pc = "counted" /\ msg[d].to = u
Unread(u) == Cardinality(UnreadOf(u))

\* A count under way to the room of a user who is not unsure is the true one, and with none
\* under way the room shows it.
BadgeInv ==
    \A u \in Users \ unsure :
        /\ \A d \in Deliveries : Counted(d, u) => push[d].count = Unread(u)
        /\ (\A d \in Deliveries : ~Counted(d, u)) => badge[u] = Unread(u)

LEMMA BadgeInvInit == Init => BadgeInv
<1> SUFFICES ASSUME Init PROVE BadgeInv
  OBVIOUS
<1>1. \A u : UnreadOf(u) = {}
  BY DEF Init, UnreadOf, Stored
<1>2. \A u : Unread(u) = 0
  BY <1>1, FS_EmptySet DEF Unread
<1> QED
  BY <1>2 DEF Init, BadgeInv, Counted, PushIdle

\* Users whose inbox and whose counts under way a step leaves alone.
LEMMA BadgeInvKept ==
  ASSUME BadgeInv,
         \A u \in Users \ unsure' :
            /\ u \notin unsure
            /\ Unread(u)' = Unread(u)
            /\ badge'[u] = badge[u]
            /\ \A d \in Deliveries : Counted(d, u)' <=> Counted(d, u)
            /\ \A d \in Deliveries : Counted(d, u) => push'[d] = push[d]
  PROVE  BadgeInv'
  BY DEF BadgeInv

\* An insert disturbs nobody but the user of its row.
LEMMA InsertDisturbs ==
  ASSUME TypeInv, RowInv, NEW d \in Deliveries, task[d].pc = "saving", InsertFor(d), NEW u \in Users \ {msg[d].to}
  PROVE  Unread(u)' = Unread(u)
<1>1. /\ ~Stored(NewId(d)) /\ inbox'[NewId(d)] = NewRow(d)
      /\ \A i \in Ids \ {NewId(d)} : inbox'[i] = inbox[i]
  BY RowAdded
<1>2. NewRow(d).user = msg[d].to
  BY DEF NewRow
<1>3. UnreadOf(u)' = UnreadOf(u)
  BY <1>1, <1>2 DEF UnreadOf, Stored
<1> QED
  BY <1>3 DEF Unread

\* The table is as before, or the users whose unread rows changed are unsure.
LEMMA ServeDisturbs ==
  ASSUME NEW t \in Requests, Serve(t), NEW u \in Users \ unsure'
  PROVE  u \notin unsure /\ Unread(u)' = Unread(u)
<1>1. CASE Find(t)
  <2>1. UnreadOf(u)' = UnreadOf(u) /\ UNCHANGED unsure
    BY <1>1 DEF Find, UnreadOf, Stored
  <2> QED
    BY <2>1 DEF Unread
<1>2. CASE unsure' = unsure \cup Disturbed
  BY <1>2 DEF Disturbed, Unread
<1> QED
  BY <1>1, <1>2 DEF Serve, SaveRead, SaveDeleted, MarkAllAsRead

LEMMA BadgeInvNext == TypeInv /\ RowInv /\ BadgeInv /\ [Next]_vars => BadgeInv'
<1> SUFFICES ASSUME TypeInv, RowInv, BadgeInv, [Next]_vars PROVE BadgeInv'
  OBVIOUS
<1>0. TypeOK /\ ChannelsRest /\ Routed
  BY DEF TypeInv
<1>1. ASSUME UNCHANGED inbox PROVE \A u : Unread(u)' = Unread(u)
  <2>1. \A u : UnreadOf(u)' = UnreadOf(u)
    BY <1>1 DEF UnreadOf, Stored
  <2> QED
    BY <2>1 DEF Unread
<1>2. ASSUME UNCHANGED <<msg, push, inbox, badge, unsure>> PROVE BadgeInv'
  BY <1>1, <1>2, BadgeInvKept DEF Counted
<1>3. ASSUME NEW d \in Deliveries, Arrive(d) PROVE BadgeInv'
  <2>1. push[d].pc = "idle" /\ UNCHANGED <<push, inbox, badge, unsure>>
    BY <1>0, <1>3 DEF Arrive, ChannelsRest, Early, sentVars
  <2>2. \A e \in Deliveries \ {d} : msg'[e] = msg[e]
    BY <1>0, <1>3 DEF Arrive, TypeOK
  <2>3. \A e \in Deliveries, u \in Users : Counted(e, u)' <=> Counted(e, u)
    BY <2>1, <2>2 DEF Counted
  <2> QED
    BY <1>1, <2>1, <2>3, BadgeInvKept
<1>4. ASSUME NEW d \in Deliveries, ReadPreferences(d) \/ Compile(d) \/ DispatchFails(d) \/ Acknowledge(d) \/ Reject(d)
      PROVE  BadgeInv'
  BY <1>2, <1>4 DEF ReadPreferences, Compile, DispatchFails, Acknowledge, Reject, sentVars
<1>5. ASSUME NEW d \in Deliveries, MailSent(d) \/ MailFails(d) PROVE BadgeInv'
  BY <1>2, <1>5 DEF MailSent, MailFails
<1>6. ASSUME NEW d \in Deliveries, Persist(d) \/ AnswerLost(d) PROVE BadgeInv'
  <2>1. task[d].pc = "saving" /\ InsertFor(d) /\ unsure' = unsure \cup {msg[d].to} /\ UNCHANGED <<msg, badge>>
    BY <1>6 DEF Persist, AnswerLost, InsertFor, sentVars
  <2>2. push[d].pc = "idle"
    BY <1>0, <2>1 DEF ChannelsRest, Early
  <2>3. push'[d].pc # "counted" /\ \A e \in Deliveries \ {d} : push'[e] = push[e]
    BY <1>0, <1>6, <2>2 DEF TypeOK, Persist, AnswerLost
  <2>4. \A u \in Users \ unsure' : u \notin unsure /\ Unread(u)' = Unread(u)
    BY <2>1, InsertDisturbs
  <2>5. \A e \in Deliveries, u \in Users : (Counted(e, u)' <=> Counted(e, u)) /\ (Counted(e, u) => push'[e] = push[e])
    BY <2>1, <2>2, <2>3 DEF Counted
  <2> QED
    BY <2>1, <2>4, <2>5, BadgeInvKept
<1>7. ASSUME NEW d \in Deliveries, CountUnreadAnswers(d) PROVE BadgeInv'
  <2> DEFINE w == msg[d].to
  <2>1. /\ push'[d].pc = "counted" /\ push'[d].count = Unread(w)
        /\ \A e \in Deliveries \ {d} : push'[e] = push[e]
    BY <1>0, <1>7 DEF CountUnreadAnswers, TypeOK, CountUnread, Unread
  <2>2. UNCHANGED <<msg, badge>> /\ \A u : Unread(u)' = Unread(u)
    BY <1>1, <1>7 DEF CountUnreadAnswers, sentVars
  <2>3. push[d].pc = "counting"
    BY <1>7 DEF CountUnreadAnswers
  <2>4. unsure' = unsure \/ (unsure' = unsure \ {w} /\ \A e \in Deliveries : ~Counted(e, w))
    BY <1>7 DEF CountUnreadAnswers, Counted
  <2>5. \A u \in Users : Counted(d, u)' <=> u = w
    BY <2>1, <2>2 DEF Counted
  <2>6. \A e \in Deliveries \ {d}, u \in Users : Counted(e, u)' <=> Counted(e, u)
    BY <2>1, <2>2 DEF Counted
  <2> HIDE DEF w
  <2>7. ASSUME NEW u \in Users \ unsure', NEW e \in Deliveries, Counted(e, u)'
        PROVE  push'[e].count = Unread(u)'
    BY <2>1, <2>2, <2>4, <2>5, <2>6, <2>7 DEF BadgeInv
  <2>8. ASSUME NEW u \in Users \ unsure', \A e \in Deliveries : ~Counted(e, u)'
        PROVE  badge'[u] = Unread(u)'
    <3>1. u # w /\ u \notin unsure /\ ~Counted(d, u)
      BY <2>3, <2>4, <2>5, <2>8 DEF Counted
    <3> QED
      BY <2>2, <2>6, <2>8, <3>1 DEF BadgeInv
  <2> QED
    BY <2>7, <2>8 DEF BadgeInv
<1>8. ASSUME NEW d \in Deliveries, EmitCount(d) PROVE BadgeInv'
  <2>1. /\ push'[d].pc = "emitted" /\ push[d].pc = "counted"
        /\ \A e \in Deliveries \ {d} : push'[e] = push[e]
    BY <1>0, <1>8 DEF EmitCount, TypeOK, PushLeg
  <2>2. UNCHANGED <<msg, unsure>> /\ \A u : Unread(u)' = Unread(u)
    BY <1>1, <1>8 DEF EmitCount
  <2>3. badge'[msg[d].to] = push[d].count \/ msg[d].to \notin Users
    BY <1>0, <1>8 DEF EmitCount, TypeOK
  <2>4. \A u \in Users : u # msg[d].to => badge'[u] = badge[u]
    BY <1>0, <1>8 DEF EmitCount, TypeOK
  <2>5. \A u \in Users, e \in Deliveries : Counted(e, u)' <=> Counted(e, u) /\ e # d
    BY <2>1, <2>2 DEF Counted
  <2>6. ASSUME NEW u \in Users \ unsure', \A e \in Deliveries : ~Counted(e, u)'
        PROVE  badge'[u] = Unread(u)'
    <3>1. CASE u = msg[d].to
      <4>1. Counted(d, u)
        BY <2>1, <3>1 DEF Counted
      <4> QED
        BY <2>2, <2>3, <3>1, <4>1 DEF BadgeInv
    <3>2. CASE u # msg[d].to
      <4>1. \A e \in Deliveries : ~Counted(e, u)
        BY <2>5, <2>6, <3>2 DEF Counted
      <4> QED
        BY <2>2, <2>4, <3>2, <4>1 DEF BadgeInv
    <3> QED
      BY <3>1, <3>2
  <2> QED
    BY <2>1, <2>2, <2>5, <2>6 DEF BadgeInv
<1>9. ASSUME NEW d \in Deliveries, CountFails(d) PROVE BadgeInv'
  <2>1. push'[d].pc = "failed" /\ push[d].pc = "counting" /\ \A e \in Deliveries \ {d} : push'[e] = push[e]
    BY <1>0, <1>9 DEF CountFails, TypeOK, PushLeg
  <2>2. UNCHANGED <<msg, inbox, badge, unsure>>
    BY <1>9 DEF CountFails, sentVars
  <2> QED
    BY <1>1, <2>1, <2>2, BadgeInvKept DEF Counted
<1>10. ASSUME NEW t \in Requests, Serve(t) PROVE BadgeInv'
  <2>1. UNCHANGED <<msg, push, badge>>
    BY <1>10, ServeRewrites
  <2> QED
    BY <1>10, <2>1, ServeDisturbs, BadgeInvKept DEF Counted
<1>11. ASSUME NEW u \in Users, ChangePreferences(u) PROVE BadgeInv'
  BY <1>2, <1>11 DEF ChangePreferences, queueVars, sentVars
<1>12. CASE Tick \/ UNCHANGED vars
  BY <1>2, <1>12 DEF Tick, queueVars, sentVars, vars
<1>13. CASE Crash
  <2>1. UNCHANGED <<msg, inbox, badge>> /\ \A d \in Deliveries : push'[d].pc = "idle"
    BY <1>13 DEF Crash, PushIdle, sentVars
  <2>2. \A u \in Users \ unsure' : u \notin unsure /\ \A d \in Deliveries : ~Counted(d, u)
    BY <1>13 DEF Crash, Counted
  <2> QED
    BY <1>1, <2>1, <2>2 DEF BadgeInv, Counted
<1> QED
  BY <1>3, <1>4, <1>5, <1>6, <1>7, <1>8, <1>9, <1>10, <1>11, <1>12, <1>13 DEF Next, Handle

\* The room of a user shows the true unread count once every count taken is emitted, unless
\* the inbox changed after the last one was taken or an older one is overtaking it.
\* (InAppChannelAdapter.send: the count is read, and emitted after the await.)
THEOREM BadgeIsTrue == Spec => []BadgeTrueUnlessOvertaken
<1>1. BadgeInv => BadgeTrueUnlessOvertaken
  BY DEF BadgeInv, Counted, Unread, BadgeTrueUnlessOvertaken
<1> QED
  BY TypeInvInit, TypeInvNext, RowInvInit, RowInvNext, BadgeInvInit, BadgeInvNext, <1>1, PTL DEF Spec

-----------------------------------------------------------------------------
(* The inbox, and the contract of the queue. *)

\* How one step may change the table.
LEMMA InboxStep ==
  ASSUME TypeInv, [Next]_vars
  PROVE  \/ Rewritten
         \/ \E d \in Deliveries : task[d].pc = "saving" /\ InsertFor(d)
<1>1. UNCHANGED inbox => Rewritten
  BY UntouchedIsRewritten DEF TypeInv
<1>2. ASSUME NEW d \in Deliveries, Persist(d) \/ AnswerLost(d)
      PROVE  task[d].pc = "saving" /\ InsertFor(d)
  BY <1>2 DEF Persist, AnswerLost, InsertFor
<1>3. ASSUME NEW t \in Requests, Serve(t) PROVE Rewritten
  BY <1>3, ServeRewrites
<1> QED
  BY <1>1, <1>2, <1>3 DEF Next, Handle, Arrive, ReadPreferences, Compile, DispatchFails, MailSent, MailFails,
      CountUnreadAnswers, EmitCount, CountFails, Acknowledge, Reject, ChangePreferences, Tick, Crash, vars

\* A notification that was deleted stays deleted and one that was read stays read, whoever
\* saves over it, and no row is ever lost.  (NotificationService.markAsRead, deleteNotification,
\* markAllAsRead; DispatcherService's createNotification.)
THEOREM InboxKeepsWord == Spec => InboxNeverReverts
<1>1. ASSUME TypeInv, RowInv, [Next]_vars, NEW i \in Ids, Stored(i)
      PROVE  /\ inbox'[i] # Null
             /\ inbox[i].deleted => inbox'[i].deleted
             /\ inbox[i].isRead => inbox'[i].isRead
  <2>1. CASE Rewritten
    BY <1>1, <2>1 DEF Rewritten, Stored
  <2>2. ASSUME NEW d \in Deliveries, task[d].pc = "saving", InsertFor(d)
        PROVE  inbox'[i] = inbox[i]
    BY <1>1, <2>2, RowAdded
  <2> QED
    BY <1>1, <2>1, <2>2, InboxStep DEF Stored
<1>2. TypeInv /\ RowInv /\ [Next]_vars
         => [\A i \in Ids : Stored(i) =>
                /\ inbox'[i] # Null
                /\ inbox[i].deleted => inbox'[i].deleted
                /\ inbox[i].isRead => inbox'[i].isRead]_vars
  BY <1>1
<1> QED
  BY TypeInvInit, TypeInvNext, RowInvInit, RowInvNext, <1>2, PTL DEF Spec, InboxNeverReverts

Held(d) == task[d].pc \notin {"none", "acked", "dead"}

LEMMA CountsKept == Rewritten => UNCHANGED RowCounts
<1> SUFFICES ASSUME Rewritten PROVE UNCHANGED RowCounts
  OBVIOUS
<1>1. \A d : Cardinality(RowsOf(d))' = Cardinality(RowsOf(d))
  BY RowsKept
<1> QED
  BY <1>1 DEF RowCounts

LEMMA ContractInit == Init => Contract!Init
<1> SUFFICES ASSUME Init PROVE Contract!Init
  OBVIOUS
<1>1. \A d : RowsOf(d) = {}
  BY DEF Init, RowsOf, Stored
<1>2. RowCounts = [d \in Deliveries |-> [u \in {"row"} |-> 0]]
  BY <1>1, FS_EmptySet DEF RowCounts
<1>3. QueueState = [d \in Deliveries |-> "none"]
  BY DEF Init, QueueState, TaskAt
<1> QED
  BY <1>2, <1>3 DEF Init, Contract!Init

\* A handler that stores nothing goes on, or settles its message.
LEMMA ContractQuiet ==
  ASSUME Rewritten, UNCHANGED crashes, NEW d \in Deliveries, Held(d), task'[d].pc # "none",
         \A e \in Deliveries \ {d} : task'[e] = task[e]
  PROVE  [Contract!Next]_(Contract!vars)
<1>1. UNCHANGED RowCounts
  BY CountsKept
<1>2. CASE Held(d)'
  BY <1>1, <1>2 DEF QueueState, Held, Contract!vars
<1>3. CASE ~Held(d)'
  <2> DEFINE s == task'[d].pc
  <2>1. QueueState[d] = "held" /\ s \in {"acked", "dead"}
    BY <1>3 DEF QueueState, Held
  <2>2. QueueState' = [QueueState EXCEPT ![d] = s]
    BY <2>1 DEF QueueState
  <2> HIDE DEF s
  <2>3. Contract!Settle(d)
    BY <1>1, <2>1, <2>2 DEF Contract!Settle
  <2> QED
    BY <2>3 DEF Contract!Next
<1> QED
  BY <1>2, <1>3

\* A handler that stores its row.
LEMMA ContractInsert ==
  ASSUME TypeInv, RowInv, NEW d \in Deliveries, task[d].pc = "saving", InsertFor(d), UNCHANGED crashes,
         task'[d].pc # "none",
         \A e \in Deliveries \ {d} : task'[e] = task[e]
  PROVE  [Contract!Next]_(Contract!vars)
<1>1. /\ Made(d)' = Made(d) + 1 /\ Made(d) <= crashes
      /\ \A e \in Deliveries \ {d} : Made(e)' = Made(e)
  BY RowAdded
<1>2. RowCounts = [e \in Deliveries |-> [u \in {"row"} |-> Made(e)]]
      /\ RowCounts' = [e \in Deliveries |-> [u \in {"row"} |-> Made(e)']]
  BY DEF RowCounts, Made
<1>3. RowCounts' = [RowCounts EXCEPT ![d]["row"] = @ + 1]
  BY <1>1, <1>2
<1>4. RowCounts[d]["row"] <= crashes
  BY <1>1, <1>2
<1> DEFINE s == IF task'[d].pc \in {"acked", "dead"} THEN task'[d].pc ELSE "held"
<1>5. QueueState[d] = "held" /\ s \in {"held", "acked", "dead"}
  BY DEF QueueState
<1>6. QueueState' = [QueueState EXCEPT ![d] = s]
  BY DEF QueueState
<1> HIDE DEF s
<1>7. Contract!Do(d, "row")
  BY <1>3, <1>4, <1>5, <1>6 DEF Contract!Do
<1> QED
  BY <1>7 DEF Contract!Next

LEMMA ContractStep == TypeInv /\ RowInv /\ [Next]_vars => [Contract!Next]_(Contract!vars)
<1> SUFFICES ASSUME TypeInv, RowInv, [Next]_vars PROVE [Contract!Next]_(Contract!vars)
  OBVIOUS
<1>0. TypeOK /\ (UNCHANGED inbox => Rewritten)
  BY UntouchedIsRewritten DEF TypeInv
<1>1. \A pc \in {"queued", "acked", "dead"} : TaskAt(pc).pc = pc
  BY DEF TaskAt
<1>2. ASSUME NEW d \in Deliveries, Arrive(d) PROVE [Contract!Next]_(Contract!vars)
  <2>1. QueueState[d] = "none" /\ QueueState' = [QueueState EXCEPT ![d] = "held"]
    BY <1>0, <1>1, <1>2 DEF Arrive, QueueState, TypeOK
  <2>2. UNCHANGED <<RowCounts, crashes>>
    BY <1>0, <1>2, CountsKept DEF Arrive
  <2>3. Contract!Route(d)
    BY <2>1, <2>2 DEF Contract!Route
  <2> QED
    BY <2>3 DEF Contract!Next
<1>3. ASSUME NEW d \in Deliveries, ReadPreferences(d) PROVE [Contract!Next]_(Contract!vars)
  <2>1. Held(d) /\ task'[d].pc \in {"compiling", "acked"} /\ \A e \in Deliveries \ {d} : task'[e] = task[e]
    BY <1>0, <1>3 DEF ReadPreferences, TypeOK, TaskAt, Held
  <2> QED
    BY <1>0, <1>3, <2>1, ContractQuiet DEF ReadPreferences
<1>4. ASSUME NEW d \in Deliveries, Compile(d) PROVE [Contract!Next]_(Contract!vars)
  <2>1. Held(d) /\ task'[d].pc = "saving" /\ \A e \in Deliveries \ {d} : task'[e] = task[e]
    BY <1>0, <1>4 DEF Compile, TypeOK, Task, Held
  <2> QED
    BY <1>0, <1>4, <2>1, ContractQuiet DEF Compile
<1>5. ASSUME NEW d \in Deliveries, DispatchFails(d) \/ Acknowledge(d) \/ Reject(d) PROVE [Contract!Next]_(Contract!vars)
  <2>1. Held(d) /\ task'[d].pc \in {"acked", "dead"} /\ \A e \in Deliveries \ {d} : task'[e] = task[e]
    BY <1>0, <1>1, <1>5 DEF DispatchFails, Acknowledge, Reject, DeadLetter, TypeOK, Held
  <2>2. UNCHANGED <<inbox, crashes>>
    BY <1>5 DEF DispatchFails, Acknowledge, Reject
  <2> QED
    BY <1>0, <2>1, <2>2, ContractQuiet
<1>6. ASSUME NEW d \in Deliveries, Persist(d) PROVE [Contract!Next]_(Contract!vars)
  <2>1. task'[d].pc # "none" /\ \A e \in Deliveries \ {d} : task'[e] = task[e]
    BY <1>0, <1>6 DEF Persist, TypeOK, Task
  <2> QED
    BY <1>6, <2>1, ContractInsert DEF Persist, InsertFor
<1>7. ASSUME NEW d \in Deliveries, AnswerLost(d) PROVE [Contract!Next]_(Contract!vars)
  <2>1. task'[d].pc # "none" /\ \A e \in Deliveries \ {d} : task'[e] = task[e]
    BY <1>0, <1>1, <1>7 DEF AnswerLost, DeadLetter, TypeOK
  <2> QED
    BY <1>7, <2>1, ContractInsert DEF AnswerLost, InsertFor
<1>8. ASSUME UNCHANGED <<task, crashes>>, Rewritten PROVE [Contract!Next]_(Contract!vars)
  BY <1>8, CountsKept DEF QueueState, Contract!vars
<1>9. ASSUME NEW d \in Deliveries,
             MailSent(d) \/ MailFails(d) \/ CountUnreadAnswers(d) \/ EmitCount(d) \/ CountFails(d)
      PROVE  [Contract!Next]_(Contract!vars)
  BY <1>0, <1>8, <1>9 DEF MailSent, MailFails, CountUnreadAnswers, EmitCount, CountFails
<1>10. ASSUME NEW t \in Requests, Serve(t) PROVE [Contract!Next]_(Contract!vars)
  BY <1>8, <1>10, ServeRewrites
<1>11. ASSUME NEW u \in Users, ChangePreferences(u) PROVE [Contract!Next]_(Contract!vars)
  BY <1>0, <1>8, <1>11 DEF ChangePreferences, queueVars
<1>12. CASE Tick \/ UNCHANGED vars
  BY <1>0, <1>8, <1>12 DEF Tick, queueVars, vars
<1>13. CASE Crash
  <2>1. crashes' = crashes + 1 /\ UNCHANGED RowCounts
    BY <1>0, <1>13, CountsKept DEF Crash
  <2>2. UNCHANGED QueueState
    BY <1>1, <1>13 DEF Crash, QueueState
  <2>3. Contract!Restart
    BY <2>1, <2>2 DEF Contract!Restart
  <2> QED
    BY <2>3 DEF Contract!Next
<1> QED
  BY <1>2, <1>3, <1>4, <1>5, <1>6, <1>7, <1>9, <1>10, <1>11, <1>12, <1>13 DEF Next, Handle

\* The notification consumer keeps the at-least-once contract whatever overlaps and fails: a
\* message is settled once and for good, and makes one row, and at most one more for every
\* restart.  (EventConsumer: ack, nack without requeue; DispatcherService.dispatchEvent.)
THEOREM AtLeastOnceImplemented == Spec => ImplementsAtLeastOnce
<1> QED
  BY TypeInvInit, TypeInvNext, RowInvInit, RowInvNext, ContractInit, ContractStep, PTL
     DEF Spec, ImplementsAtLeastOnce, Contract!Spec
=============================================================================
