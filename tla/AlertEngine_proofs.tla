-------------------------- MODULE AlertEngine_proofs --------------------------
(***************************************************************************)
(* What holds of the alerts table, its handlers and its history for every  *)
(* number of alerts, users, messages, requests and restarts, and every     *)
(* cooldown; and what the engine owes to others: to the queue, its         *)
(* contract; to the owners of alerts, the columns they wrote and the limit *)
(* they were given.                                                        *)
(***************************************************************************)
EXTENDS AlertEngine, FiniteSetTheorems, TLAPS

-----------------------------------------------------------------------------
(* The operators that build rows and handler states keep to their types. *)

LEMMA TriggeredType ==
    ASSUME NEW row \in Alert, NEW t \in Nat
    PROVE  Triggered(row, t) \in Alert
BY DEF Triggered, Alert, AlertStatus

LEMMA NewAlertType ==
    ASSUME NEW u \in Users, NEW r \in Rule, NEW b \in BOOLEAN
    PROVE  NewAlert(u, r, b) \in Alert
BY DEF NewAlert, Alert, AlertStatus, Never

LEMMA MergedType ==
    ASSUME NEW row \in Alert, NEW patch \in Patch
    PROVE  Merged(row, patch) \in Alert
BY DEF Merged, Coalesce, Alert, Patch

LEMMA TaskAtType ==
    ASSUME NEW pc \in {"none", "queued", "evaluating", "saving", "acked", "dead"}
    PROVE  TaskAt(pc) \in Task
BY DEF TaskAt, Task

LEMMA FinishedType == Finished \in Job
BY DEF Finished, Job

\* A save lands on a row the table has: only that row and its version change,
\* and what it leaves there is a row.
LEMMA WriteType ==
    ASSUME TypeOK, NEW a \in AlertIds, NEW row \in Alert, db[a] # Null, Write(a, row)
    PROVE  /\ db' \in [AlertIds -> Alert \cup {Null}]
           /\ version' \in [AlertIds -> Nat]
           /\ revived' \in SUBSET Users
           /\ \A b \in AlertIds : db[b] # Null => db'[b] # Null
<1>1. db[a] \in Alert /\ Null \notin Alert
  BY EngineAssumption DEF TypeOK
<1>2. [row EXCEPT !.deleted = db[a].deleted] \in Alert
  BY <1>1 DEF Alert
<1>3. /\ db' \in [AlertIds -> Alert \cup {Null}]
      /\ \A b \in AlertIds : db[b] # Null => db'[b] # Null
  BY <1>1, <1>2 DEF TypeOK, Write
<1>4. version' \in [AlertIds -> Nat]
  BY DEF TypeOK, Write
<1>5. revived' \in SUBSET Users
  BY DEF TypeOK, Write, Alert
<1> QED
  BY <1>3, <1>4, <1>5

\* A handler that saves holds the row of an alert the table has.
SavesStored ==
    /\ \A d \in Deliveries :
          /\ \A s \in task[d].todo : db[s.id] # Null
          /\ task[d].pc = "saving" =>
                /\ task[d].write # Null
                /\ db[task[d].write.id] # Null
                /\ task[d].write.row.last \in Nat
    /\ \A t \in Requests :
          /\ req[t].pc = "creating" => req[t].row # Null
          /\ req[t].pc = "updating" => req[t].row # Null /\ req[t].id # Null /\ db[req[t].id] # Null
          /\ req[t].pc = "deleting" => req[t].id # Null /\ db[req[t].id] # Null

TypeInv == TypeOK /\ SavesStored

\* No step removes a row.
RowsKept == \A b \in AlertIds : db[b] # Null => db'[b] # Null

\* A step of one evaluation handler.
LEMMA TaskStep ==
    ASSUME TypeInv, RowsKept, UNCHANGED req,
           NEW d \in Deliveries, NEW k \in Task,
           task' = [task EXCEPT ![d] = k],
           \A s \in k.todo : db'[s.id] # Null,
           k.pc = "saving" => /\ k.write # Null
                              /\ db'[k.write.id] # Null
                              /\ k.write.row.last \in Nat
    PROVE  task' \in [Deliveries -> Task] /\ SavesStored'
<1>1. task \in [Deliveries -> Task] /\ req \in [Requests -> Job] /\ SavesStored
  BY DEF TypeInv, TypeOK
<1>2. \A e \in Deliveries : task'[e] = IF e = d THEN k ELSE task[e]
  BY <1>1
<1>3. \A e \in Deliveries : \A s \in task[e].todo : s.id \in AlertIds
  BY <1>1 DEF Task, Snapshot
<1>4. \A e \in Deliveries : task[e].write # Null => task[e].write.id \in AlertIds
  BY <1>1 DEF Task, Snapshot
<1>5. \A t \in Requests : req[t].id # Null => req[t].id \in AlertIds
  BY <1>1 DEF Job
<1> QED
  BY <1>1, <1>2, <1>3, <1>4, <1>5 DEF SavesStored, RowsKept

\* A step of one REST handler.
LEMMA JobStep ==
    ASSUME TypeInv, RowsKept, UNCHANGED task,
           NEW t \in Requests, NEW j \in Job,
           req' = [req EXCEPT ![t] = j],
           j.pc \in {"creating", "updating"} => j.row # Null,
           j.pc \in {"updating", "deleting"} => j.id # Null /\ db'[j.id] # Null
    PROVE  req' \in [Requests -> Job] /\ SavesStored'
<1>1. task \in [Deliveries -> Task] /\ req \in [Requests -> Job] /\ SavesStored
  BY DEF TypeInv, TypeOK
<1>2. \A o \in Requests : req'[o] = IF o = t THEN j ELSE req[o]
  BY <1>1
<1>3. \A e \in Deliveries : \A s \in task[e].todo : s.id \in AlertIds
  BY <1>1 DEF Task, Snapshot
<1>4. \A e \in Deliveries : task[e].write # Null => task[e].write.id \in AlertIds
  BY <1>1 DEF Task, Snapshot
<1>5. \A o \in Requests : req[o].id # Null => req[o].id \in AlertIds
  BY <1>1 DEF Job
<1> QED
  BY <1>1, <1>2, <1>3, <1>4, <1>5 DEF SavesStored, RowsKept

USE EngineAssumption, DomainAssumption

LEMMA TypeInvInit == Init => TypeInv
<1> SUFFICES ASSUME Init PROVE TypeInv
  OBVIOUS
<1>1. db \in [AlertIds -> Alert \cup {Null}]
  BY NewAlertType DEF Init
<1>2. task \in [Deliveries -> Task] /\ req \in [Requests -> Job]
  BY TaskAtType DEF Init, Job
<1> QED
  BY <1>1, <1>2 DEF Init, TypeInv, TypeOK, SavesStored, TaskAt

\* What a handler that saves holds, and that its fire has the type.
LEMMA SavingType ==
    ASSUME TypeInv, NEW d \in Deliveries, task[d].pc = "saving"
    PROVE  /\ task[d].write \in Snapshot
           /\ task[d].write.id \in AlertIds /\ task[d].write.row \in Alert
           /\ db[task[d].write.id] # Null
           /\ FireOf(d) \in Fire
           /\ TaskAt("evaluating").write = Null
<1>1. task[d].write \in Snapshot
  BY DEF TypeInv, TypeOK, SavesStored, Task
<1>2. task[d].write.row.last \in Nat
  BY DEF TypeInv, SavesStored
<1> QED
  BY <1>1, <1>2 DEF FireOf, Fire, Snapshot, TypeInv, TypeOK, SavesStored, Alert, TaskAt

\* Every step keeps the types and the rows that handlers hold.
LEMMA TypeInvNext == TypeInv /\ [Next]_vars => TypeInv'
<1> SUFFICES ASSUME TypeInv, [Next]_vars PROVE TypeInv'
  OBVIOUS
<1> USE DEF TypeInv
<1>a. UNCHANGED db => RowsKept
  BY DEF RowsKept
<1>1. ASSUME NEW d \in Deliveries, MarketEvent(d) PROVE TypeInv'
  <2>1. UNCHANGED <<now, db, version, req, fires, published, skipped, lost, raced, revived, crashes>>
    BY <1>1 DEF MarketEvent, rowVars, fireVars
  <2>2. msg' \in [Deliveries -> Messages \cup {Null}]
    BY <1>1 DEF MarketEvent, TypeOK
  <2>3. task' = [task EXCEPT ![d] = TaskAt("queued")]
    BY <1>1 DEF MarketEvent
  <2>4. TaskAt("queued") \in Task /\ TaskAt("queued").todo = {} /\ TaskAt("queued").pc = "queued"
    BY TaskAtType DEF TaskAt
  <2>5. task' \in [Deliveries -> Task] /\ SavesStored'
    BY <1>a, <2>1, <2>3, <2>4, TaskStep
  <2> QED
    BY <2>1, <2>2, <2>5 DEF TypeOK
<1>2. ASSUME NEW d \in Deliveries, Load(d) PROVE TypeInv'
  <2> DEFINE found == {[id |-> a, row |-> db[a], read |-> version[a]] :
                         a \in {b \in AlertIds : Visible(b) /\ InScope(db[b], msg[d])}}
             todo == IF msg[d].value = Null THEN {} ELSE found
             k == [task[d] EXCEPT !.pc = "evaluating", !.todo = todo]
  <2>1. todo \in SUBSET Snapshot /\ \A s \in todo : db[s.id] # Null
    BY DEF Visible, Stored, Snapshot, TypeOK
  <2>2. task' = [task EXCEPT ![d] = k]
    BY <1>2 DEF Load, TypeOK, Task
  <2>3. UNCHANGED <<now, db, version, msg, req, fires, published, skipped, lost, raced, revived, crashes>>
    BY <1>2 DEF Load, rowVars, fireVars
  <2>a. task[d] \in Task /\ todo \subseteq Snapshot
    BY <2>1 DEF TypeOK
  <2> HIDE DEF todo
  <2>4. k \in Task /\ k.todo = todo /\ k.pc = "evaluating"
    BY <2>a DEF Task
  <2> HIDE DEF k
  <2>5. task' \in [Deliveries -> Task] /\ SavesStored'
    BY <1>a, <2>1, <2>2, <2>3, <2>4, TaskStep
  <2> QED
    BY <2>3, <2>5 DEF TypeOK
<1>3. ASSUME NEW d \in Deliveries, PassOver(d) PROVE TypeInv'
  <2>1. PICK s \in task[d].todo : task' = [task EXCEPT ![d].todo = @ \ {s}]
    BY <1>3 DEF PassOver
  <2> DEFINE rest == task[d].todo \ {s}
             k == [task[d] EXCEPT !.todo = rest]
  <2>a. rest \subseteq task[d].todo /\ task[d] \in Task
    BY DEF TypeOK
  <2>b. task' = [task EXCEPT ![d].todo = rest]
    BY <2>1
  <2> HIDE DEF rest
  <2>2. task' = [task EXCEPT ![d] = k]
    BY <2>b
  <2>3. UNCHANGED <<now, db, version, msg, req, fires, published, skipped, lost, raced, revived, crashes>>
    BY <1>3 DEF PassOver, rowVars, fireVars
  <2>4. k \in Task /\ k.todo \subseteq task[d].todo /\ k.pc = "evaluating"
    BY <1>3, <2>a DEF PassOver, Task
  <2> HIDE DEF k
  <2>5. \A r \in k.todo : db'[r.id] # Null
    BY <2>3, <2>4 DEF SavesStored
  <2>6. task' \in [Deliveries -> Task] /\ SavesStored'
    BY <1>a, <2>2, <2>3, <2>4, <2>5, TaskStep
  <2> QED
    BY <2>3, <2>6 DEF TypeOK
<1>4. ASSUME NEW d \in Deliveries, Trigger(d) PROVE TypeInv'
  <2>1. PICK s \in task[d].todo :
          task' = [task EXCEPT ![d].pc = "saving", ![d].todo = @ \ {s},
                               ![d].write = [s EXCEPT !.row = Triggered(@, now)]]
    BY <1>4 DEF Trigger
  <2>2. s \in Snapshot /\ db[s.id] # Null
    BY DEF TypeOK, SavesStored, Task
  <2> DEFINE w == [s EXCEPT !.row = Triggered(s.row, now)]
             rest == task[d].todo \ {s}
             k == [task[d] EXCEPT !.pc = "saving", !.todo = rest, !.write = w]
  <2>3. w \in Snapshot /\ w.id = s.id /\ w.row.last = now
    BY <2>2, TriggeredType DEF Snapshot, TypeOK, Triggered, Alert
  <2>4. task' = [task EXCEPT ![d] = k]
    BY <2>1 DEF TypeOK, Task
  <2>5. UNCHANGED <<now, db, version, msg, req, fires, published, skipped, lost, raced, revived, crashes>>
    BY <1>4 DEF Trigger, rowVars, fireVars
  <2>a. rest \subseteq task[d].todo /\ task[d] \in Task
    BY DEF TypeOK
  <2> HIDE DEF w, rest
  <2>6. k \in Task /\ k.todo \subseteq task[d].todo /\ k.write = w
    BY <2>3, <2>a DEF Task
  <2> HIDE DEF k
  <2>7. \A r \in k.todo : db'[r.id] # Null
    BY <2>5, <2>6 DEF SavesStored
  <2>8. w # Null /\ db'[w.id] # Null /\ w.row.last \in Nat
    BY <2>2, <2>3, <2>5 DEF TypeOK
  <2>9. task' \in [Deliveries -> Task] /\ SavesStored'
    BY <1>a, <2>4, <2>5, <2>6, <2>7, <2>8, TaskStep
  <2> QED
    BY <2>5, <2>9 DEF TypeOK
<1>5. ASSUME NEW d \in Deliveries, SaveTriggered(d) PROVE TypeInv'
  <2> DEFINE w == task[d].write
             more == task[d].pending \cup {FireOf(d)}
             k == [task[d] EXCEPT !.pc = "evaluating", !.write = Null, !.pending = more]
  <2>1. /\ task[d].pc = "saving"
        /\ Write(w.id, w.row)
        /\ fires' = fires \cup {FireOf(d)}
        /\ UNCHANGED <<now, msg, req, published, skipped, lost, raced, crashes>>
    BY <1>5 DEF SaveTriggered
  <2>2. /\ w.id \in AlertIds /\ w.row \in Alert /\ db[w.id] # Null
        /\ FireOf(d) \in Fire
    BY <2>1, SavingType
  <2> HIDE DEF w
  <2>3. /\ db' \in [AlertIds -> Alert \cup {Null}]
        /\ version' \in [AlertIds -> Nat]
        /\ revived' \in SUBSET Users
        /\ RowsKept
    BY <2>1, <2>2, WriteType DEF RowsKept
  <2>4. task' = [task EXCEPT ![d] = k]
    BY <1>5 DEF SaveTriggered, TypeOK, Task
  <2>a. task[d] \in Task /\ more \subseteq Fire
    BY <2>2 DEF TypeOK, Task
  <2> HIDE DEF more
  <2>5. k \in Task /\ k.todo = task[d].todo /\ k.pc = "evaluating"
    BY <2>a DEF Task
  <2> HIDE DEF k
  <2>6. \A s \in k.todo : s \in Snapshot
    BY <2>5 DEF Task
  <2>7. \A s \in k.todo : db'[s.id] # Null
    BY <2>3, <2>5, <2>6 DEF SavesStored, RowsKept, Snapshot
  <2>8. task' \in [Deliveries -> Task] /\ SavesStored'
    BY <2>1, <2>3, <2>4, <2>5, <2>7, TaskStep
  <2> QED
    BY <2>1, <2>2, <2>3, <2>8 DEF TypeOK
<1>6. ASSUME NEW d \in Deliveries, Publish(d) PROVE TypeInv'
  <2>1. PICK f \in task[d].pending :
          /\ task' = [task EXCEPT ![d].pending = @ \ {f}]
          /\ \/ published' = published \cup {f} /\ UNCHANGED skipped
             \/ skipped' = skipped \cup {f} /\ UNCHANGED published
    BY <1>6 DEF Publish
  <2>2. UNCHANGED <<now, db, version, msg, req, fires, lost, raced, revived, crashes>>
    BY <1>6 DEF Publish, rowVars
  <2> DEFINE rest == task[d].pending \ {f}
             k == [task[d] EXCEPT !.pending = rest]
  <2>3. rest \subseteq Fire /\ f \in Fire /\ task[d] \in Task /\ task[d].pc = "evaluating"
    BY <1>6 DEF TypeOK, Task, Publish, Publishing
  <2>4. task' = [task EXCEPT ![d].pending = rest]
    BY <2>1
  <2> HIDE DEF rest
  <2>5. task' = [task EXCEPT ![d] = k]
    BY <2>4
  <2>6. k \in Task /\ k.todo = task[d].todo /\ k.pc = "evaluating"
    BY <2>3 DEF Task
  <2> HIDE DEF k
  <2>7. \A s \in k.todo : db'[s.id] # Null
    BY <2>2, <2>6 DEF SavesStored
  <2>8. task' \in [Deliveries -> Task] /\ SavesStored'
    BY <1>a, <2>2, <2>5, <2>6, <2>7, TaskStep
  <2>9. published' \in SUBSET Fire /\ skipped' \in SUBSET Fire
    BY <2>1, <2>3 DEF TypeOK
  <2> QED
    BY <2>2, <2>8, <2>9 DEF TypeOK
<1>7. ASSUME NEW d \in Deliveries, NEW pc \in {"acked", "dead"}, RowsKept, UNCHANGED req,
             task' = [task EXCEPT ![d] = TaskAt(pc)]
      PROVE  task' \in [Deliveries -> Task] /\ SavesStored'
  <2>1. TaskAt(pc) \in Task /\ TaskAt(pc).todo = {} /\ TaskAt(pc).pc = pc
    BY TaskAtType DEF TaskAt
  <2> QED
    BY <1>7, <2>1, TaskStep
<1>8. ASSUME NEW d \in Deliveries, Ack(d) PROVE TypeInv'
  <2>1. UNCHANGED <<now, db, version, msg, req, fires, published, skipped, lost, raced, revived, crashes>>
    BY <1>8 DEF Ack, rowVars, fireVars
  <2>2. task' \in [Deliveries -> Task] /\ SavesStored'
    BY <1>a, <1>7, <1>8, <2>1 DEF Ack
  <2> QED
    BY <2>1, <2>2 DEF TypeOK
<1>9. ASSUME NEW d \in Deliveries, LoadFails(d) PROVE TypeInv'
  <2>1. UNCHANGED <<now, db, version, msg, req, fires, published, skipped, lost, raced, revived, crashes>>
    BY <1>9 DEF LoadFails, rowVars, fireVars
  <2>2. task' \in [Deliveries -> Task] /\ SavesStored'
    BY <1>a, <1>7, <1>9, <2>1 DEF LoadFails, DeadLetter
  <2> QED
    BY <2>1, <2>2 DEF TypeOK
<1>10. ASSUME NEW d \in Deliveries, SaveFails(d) PROVE TypeInv'
  <2> DEFINE w == task[d].write
  <2>1. /\ task[d].pc = "saving"
        /\ UNCHANGED <<now, msg, req, published, skipped, raced, crashes>>
        /\ task' = [task EXCEPT ![d] = TaskAt("dead")]
    BY <1>10 DEF SaveFails, DeadLetter
  <2>2. /\ w.id \in AlertIds /\ w.row \in Alert /\ db[w.id] # Null
        /\ FireOf(d) \in Fire
    BY <2>1, SavingType
  <2>3. \/ lost' = lost \cup task[d].pending /\ UNCHANGED <<db, version, revived, fires>>
        \/ /\ Write(w.id, w.row)
           /\ fires' = fires \cup {FireOf(d)}
           /\ lost' = lost \cup task[d].pending \cup {FireOf(d)}
    BY <1>10 DEF SaveFails, rowVars
  <2> HIDE DEF w
  <2>4. task[d].pending \subseteq Fire
    BY DEF TypeOK, Task
  <2>5. lost' \in SUBSET Fire /\ fires' \in SUBSET Fire
    BY <2>2, <2>3, <2>4 DEF TypeOK
  <2>6. /\ db' \in [AlertIds -> Alert \cup {Null}]
        /\ version' \in [AlertIds -> Nat]
        /\ revived' \in SUBSET Users
        /\ RowsKept
    <3>1. CASE UNCHANGED <<db, version, revived>>
      BY <3>1 DEF TypeOK, RowsKept
    <3>2. CASE Write(w.id, w.row)
      BY <3>2, <2>2, WriteType DEF RowsKept
    <3> QED
      BY <2>3, <3>1, <3>2
  <2>7. task' \in [Deliveries -> Task] /\ SavesStored'
    BY <1>7, <2>1, <2>6
  <2> QED
    BY <2>1, <2>5, <2>6, <2>7 DEF TypeOK
<1>11. ASSUME NEW d \in Deliveries, PublishFails(d) PROVE TypeInv'
  <2>1. UNCHANGED <<now, db, version, msg, req, fires, skipped, raced, revived, crashes>>
    BY <1>11 DEF PublishFails, rowVars
  <2>2. PICK f \in task[d].pending :
          \/ lost' = lost \cup task[d].pending /\ UNCHANGED published
          \/ lost' = lost \cup (task[d].pending \ {f}) /\ published' = published \cup {f}
    BY <1>11 DEF PublishFails
  <2>3. task[d].pending \subseteq Fire
    BY DEF TypeOK, Task
  <2>4. lost' \in SUBSET Fire /\ published' \in SUBSET Fire
    BY <2>2, <2>3 DEF TypeOK
  <2>5. task' \in [Deliveries -> Task] /\ SavesStored'
    BY <1>a, <1>7, <1>11, <2>1 DEF PublishFails, DeadLetter
  <2> QED
    BY <2>1, <2>4, <2>5 DEF TypeOK
<1>12. ASSUME NEW t \in Requests, RowsKept, UNCHANGED task, req' = [req EXCEPT ![t] = Finished]
       PROVE  req' \in [Requests -> Job] /\ SavesStored'
  <2>1. Finished \in Job /\ Finished.pc = "done"
    BY FinishedType DEF Finished
  <2> QED
    BY <1>12, <2>1, JobStep
<1>13. ASSUME NEW t \in Requests, CreateCheck(t) PROVE TypeInv'
  <2>1. PICK u \in Users, rule \in Rules, recurring \in BOOLEAN :
          /\ req' = [req EXCEPT ![t] = [pc |-> "creating", id |-> Null,
                                        row |-> NewAlert(u, rule, recurring), read |-> 0]]
          /\ raced' = IF \E o \in Requests : req[o].pc = "creating" /\ req[o].row.owner = u
                      THEN raced \cup {u} ELSE raced
    BY <1>13 DEF CreateCheck
  <2>2. UNCHANGED <<now, db, version, msg, task, fires, published, skipped, lost, revived, crashes>>
    BY <1>13 DEF CreateCheck, queueVars, rowVars, fireVars
  <2> DEFINE row == NewAlert(u, rule, recurring)
             j == [pc |-> "creating", id |-> Null, row |-> row, read |-> 0]
  <2>3. row \in Alert
    BY NewAlertType
  <2> HIDE DEF row
  <2>4. j \in Job /\ j.pc = "creating" /\ j.row # Null
    BY <2>3 DEF Job
  <2>5. req' = [req EXCEPT ![t] = j]
    BY <2>1 DEF row
  <2> HIDE DEF j
  <2>6. req' \in [Requests -> Job] /\ SavesStored'
    BY <1>a, <2>2, <2>4, <2>5, JobStep
  <2>7. raced' \in SUBSET Users
    BY <2>1 DEF TypeOK
  <2> QED
    BY <2>2, <2>6, <2>7 DEF TypeOK
<1>14. ASSUME NEW t \in Requests, CreateSave(t) PROVE TypeInv'
  <2>1. PICK a \in AlertIds : /\ db' = [db EXCEPT ![a] = req[t].row]
                              /\ version' = [version EXCEPT ![a] = @ + 1]
    BY <1>14 DEF CreateSave
  <2>2. UNCHANGED <<now, msg, task, fires, published, skipped, lost, raced, revived, crashes>>
    BY <1>14 DEF CreateSave, queueVars, fireVars
  <2>3. req[t].row \in Alert
    BY <1>14 DEF CreateSave, TypeOK, SavesStored, Job
  <2>4. db' \in [AlertIds -> Alert \cup {Null}] /\ RowsKept
    BY <2>1, <2>3 DEF TypeOK, RowsKept
  <2>5. version' \in [AlertIds -> Nat]
    BY <2>1 DEF TypeOK
  <2>6. req' \in [Requests -> Job] /\ SavesStored'
    BY <1>12, <1>14, <2>2, <2>4 DEF CreateSave
  <2> QED
    BY <2>2, <2>4, <2>5, <2>6 DEF TypeOK
<1>15. ASSUME NEW t \in Requests, UpdateFind(t) PROVE TypeInv'
  <2>1. PICK a \in AlertIds, patch \in Patches :
          /\ Visible(a)
          /\ req' = [req EXCEPT ![t] = [pc |-> "updating", id |-> a,
                                        row |-> Merged(db[a], patch), read |-> version[a]]]
    BY <1>15 DEF UpdateFind
  <2>2. UNCHANGED <<now, db, version, msg, task, fires, published, skipped, lost, raced, revived, crashes>>
    BY <1>15 DEF UpdateFind, queueVars, rowVars, fireVars
  <2> DEFINE row == Merged(db[a], patch)
             j == [pc |-> "updating", id |-> a, row |-> row, read |-> version[a]]
  <2>3. db[a] \in Alert /\ db[a] # Null /\ patch \in Patch /\ version[a] \in Nat
    BY <2>1 DEF Visible, Stored, TypeOK
  <2>4. row \in Alert
    BY <2>3, MergedType
  <2> HIDE DEF row
  <2>5. j \in Job /\ j.pc = "updating" /\ j.id = a /\ j.row # Null /\ j.id # Null
    BY <2>3, <2>4 DEF Job
  <2>6. req' = [req EXCEPT ![t] = j]
    BY <2>1 DEF row
  <2> HIDE DEF j
  <2>7. req' \in [Requests -> Job] /\ SavesStored'
    BY <1>a, <2>2, <2>3, <2>5, <2>6, JobStep
  <2> QED
    BY <2>2, <2>7 DEF TypeOK
<1>16. ASSUME NEW t \in Requests, UpdateSave(t) PROVE TypeInv'
  <2>1. /\ req[t].pc = "updating"
        /\ Write(req[t].id, req[t].row)
        /\ req' = [req EXCEPT ![t] = Finished]
        /\ UNCHANGED <<now, msg, task, fires, published, skipped, lost, raced, crashes>>
    BY <1>16 DEF UpdateSave, queueVars, fireVars
  <2>2. req[t].id \in AlertIds /\ req[t].row \in Alert /\ db[req[t].id] # Null
    BY <2>1 DEF TypeOK, SavesStored, Job
  <2>3. /\ db' \in [AlertIds -> Alert \cup {Null}]
        /\ version' \in [AlertIds -> Nat]
        /\ revived' \in SUBSET Users
        /\ RowsKept
    BY <2>1, <2>2, WriteType DEF RowsKept
  <2>4. req' \in [Requests -> Job] /\ SavesStored'
    BY <1>12, <2>1, <2>3
  <2> QED
    BY <2>1, <2>3, <2>4 DEF TypeOK
<1>17. ASSUME NEW t \in Requests, DeleteFind(t) PROVE TypeInv'
  <2>1. PICK a \in AlertIds :
          /\ Visible(a)
          /\ req' = [req EXCEPT ![t] = [pc |-> "deleting", id |-> a, row |-> Null, read |-> version[a]]]
    BY <1>17 DEF DeleteFind
  <2>2. UNCHANGED <<now, db, version, msg, task, fires, published, skipped, lost, raced, revived, crashes>>
    BY <1>17 DEF DeleteFind, queueVars, rowVars, fireVars
  <2> DEFINE j == [pc |-> "deleting", id |-> a, row |-> Null, read |-> version[a]]
  <2>3. j \in Job /\ j.pc = "deleting" /\ j.id # Null /\ db[j.id] # Null
    BY <2>1 DEF Job, Visible, Stored, TypeOK
  <2>4. req' = [req EXCEPT ![t] = j]
    BY <2>1
  <2> HIDE DEF j
  <2>5. req' \in [Requests -> Job] /\ SavesStored'
    BY <1>a, <2>2, <2>3, <2>4, JobStep
  <2> QED
    BY <2>2, <2>5 DEF TypeOK
<1>18. ASSUME NEW t \in Requests, DeleteSave(t) PROVE TypeInv'
  <2> DEFINE a == req[t].id
  <2>1. UNCHANGED <<now, msg, task, fires, published, skipped, lost, raced, revived, crashes>>
    BY <1>18 DEF DeleteSave, queueVars, fireVars
  <2>2. a \in AlertIds /\ db[a] \in Alert
    BY <1>18 DEF DeleteSave, TypeOK, SavesStored, Job
  <2>3. /\ db' = [db EXCEPT ![a] = [db[a] EXCEPT !.deleted = TRUE]]
        /\ version' = [version EXCEPT ![a] = version[a] + 1]
    BY <1>18 DEF DeleteSave
  <2>4. [db[a] EXCEPT !.deleted = TRUE] \in Alert
    BY <2>2 DEF Alert
  <2> HIDE DEF a
  <2>5. version' \in [AlertIds -> Nat]
    BY <2>2, <2>3 DEF TypeOK
  <2>6. db' \in [AlertIds -> Alert \cup {Null}] /\ RowsKept
    BY <2>2, <2>3, <2>4 DEF TypeOK, RowsKept
  <2>7. req' \in [Requests -> Job] /\ SavesStored'
    BY <1>12, <1>18, <2>1, <2>6 DEF DeleteSave
  <2> QED
    BY <2>1, <2>5, <2>6, <2>7 DEF TypeOK
<1>19. ASSUME NEW t \in Requests, RequestFails(t) PROVE TypeInv'
  <2>1. UNCHANGED <<now, db, version, msg, task, fires, published, skipped, lost, raced, revived, crashes>>
    BY <1>19 DEF RequestFails, queueVars, rowVars, fireVars
  <2>2. req' \in [Requests -> Job] /\ SavesStored'
    BY <1>a, <1>12, <1>19, <2>1 DEF RequestFails
  <2> QED
    BY <2>1, <2>2 DEF TypeOK
<1>20. CASE Tick
  <2>1. UNCHANGED <<db, version, msg, task, req, fires, published, skipped, lost, raced, revived, crashes>>
    BY <1>20 DEF Tick, queueVars, rowVars, fireVars
  <2>2. now' \in Nat
    BY <1>20 DEF Tick, TypeOK
  <2> QED
    BY <2>1, <2>2 DEF TypeOK, SavesStored
<1>21. CASE Crash
  <2>1. UNCHANGED <<now, db, version, msg, fires, published, skipped, raced, revived>>
    BY <1>21 DEF Crash, rowVars
  <2>2. \A d \in Deliveries : task'[d] = task[d] \/ task'[d] = TaskAt("queued")
    BY <1>21 DEF Crash
  <2>3. \A t \in Requests : req'[t] = req[t] \/ req'[t] = Finished
    BY <1>21 DEF Crash
  <2>4. task' \in [Deliveries -> Task]
    BY <1>21, TaskAtType DEF Crash, TypeOK
  <2>5. req' \in [Requests -> Job]
    BY <1>21, FinishedType DEF Crash, TypeOK
  <2>6. SavesStored'
    BY <2>1, <2>2, <2>3 DEF SavesStored, TaskAt, Finished
  <2>7. \A d \in Deliveries : task[d].pending \subseteq Fire
    BY DEF TypeOK, Task
  <2>8. lost \subseteq Fire /\ crashes \in Nat
    BY DEF TypeOK
  <2>9. lost' = lost \cup UNION {task[d].pending : d \in Deliveries} /\ crashes' = crashes + 1
    BY <1>21 DEF Crash
  <2>10. \A f \in lost' : f \in Fire
    BY <2>7, <2>8, <2>9
  <2>11. lost' \in SUBSET Fire /\ crashes' \in Nat
    BY <2>8, <2>9, <2>10
  <2> QED
    BY <2>1, <2>4, <2>5, <2>6, <2>11 DEF TypeOK
<1>22. CASE UNCHANGED vars
  BY <1>22 DEF vars, TypeOK, SavesStored
<1> QED
  BY <1>1, <1>2, <1>3, <1>4, <1>5, <1>6, <1>8, <1>9, <1>10, <1>11, <1>13, <1>14,
     <1>15, <1>16, <1>17, <1>18, <1>19, <1>20, <1>21, <1>22 DEF Next, Handle, Serve

\* Whatever the numbers of users, alerts, messages and requests, the table, the
\* handlers and their history keep the type invariant: in particular a merge or
\* a trigger never saves a row with a field of the wrong kind, and no handler
\* saves to, or soft-deletes, an id that has no row.
THEOREM TypeCorrect == Spec => []TypeOK
<1>1. TypeInv => TypeOK
  BY DEF TypeInv
<1> QED
  BY <1>1, TypeInvInit, TypeInvNext, PTL DEF Spec

-----------------------------------------------------------------------------
(* Cooldown and one-shot.  A fire is compared with the row it left, and with *)
(* everything that was read while that row was there.                        *)

\* A row as fire f left it.
LeftBy(f, row) ==
    /\ row.last = f.at
    /\ row.recurring = f.recurring
    /\ ~f.recurring => row.status = "TRIGGERED"

\* Nobody has read, and nothing was decided on, a row version yet to be written.
ReadsPast ==
    /\ \A d \in Deliveries : \A s \in task[d].todo : s.read <= version[s.id]
    /\ \A d \in Deliveries :
          task[d].pc = "saving" => task[d].write.read <= version[task[d].write.id]
    /\ \A f \in fires : f.read < f.wrote /\ f.wrote <= version[f.alert]

\* While nobody writes after fire f, its row is as f left it.
RowsAsLeft ==
    \A f \in fires : version[f.alert] = f.wrote => LeftBy(f, db[f.alert])

\* So is every copy of it that a handler took and has not evaluated.
CopiesAsLeft ==
    \A f \in fires, d \in Deliveries : \A s \in task[d].todo :
        s.id = f.alert /\ s.read = f.wrote => LeftBy(f, s.row)

\* A trigger decided on such a copy respects one-shot and cooldown.
DecisionsRespect ==
    \A f \in fires, d \in Deliveries :
        LET w == task[d].write IN
        task[d].pc = "saving" /\ w.id = f.alert /\ w.read = f.wrote =>
            f.recurring /\ w.row.last - f.at >= Cooldown

\* A one-shot alert leaves ACTIVE when it triggers.
OneShotsSpent ==
    \A d \in Deliveries :
        task[d].pc = "saving" /\ ~task[d].write.row.recurring =>
            task[d].write.row.status = "TRIGGERED"

FireInv ==
    /\ TypeInv /\ ReadsPast /\ RowsAsLeft /\ CopiesAsLeft /\ DecisionsRespect /\ OneShotsSpent
    /\ RepeatNeedsStaleRead

\* No handler takes a copy or decides anything.
HandlersForget ==
    \A d \in Deliveries :
        /\ task'[d].todo \subseteq task[d].todo
        /\ task'[d].pc = "saving" => task[d].pc = "saving" /\ task'[d].write = task[d].write

\* A row that changes has one more version.
WritesCounted ==
    \A a \in AlertIds :
        \/ version'[a] = version[a] /\ db'[a] = db[a]
        \/ version'[a] = version[a] + 1

\* Where the ids and versions that FireInv compares come from.
LEMMA HistoryType ==
    ASSUME TypeInv
    PROVE  /\ \A a \in AlertIds : version[a] \in Nat
           /\ \A f \in fires : /\ f.alert \in AlertIds /\ f.recurring \in BOOLEAN
                               /\ f.at \in Nat /\ f.read \in Nat /\ f.wrote \in Nat
           /\ \A d \in Deliveries : \A s \in task[d].todo :
                 s.id \in AlertIds /\ s.row \in Alert /\ s.read \in Nat
           /\ \A d \in Deliveries : task[d].pc = "saving" =>
                 /\ task[d].write.id \in AlertIds /\ task[d].write.row \in Alert
                 /\ task[d].write.read \in Nat
<1>1. /\ version \in [AlertIds -> Nat] /\ fires \subseteq Fire /\ task \in [Deliveries -> Task]
  BY DEF TypeInv, TypeOK
<1>2. \A d \in Deliveries : task[d].todo \subseteq Snapshot /\ task[d].write \in Snapshot \cup {Null}
  BY <1>1 DEF Task
<1>3. \A d \in Deliveries : task[d].pc = "saving" => task[d].write \in Snapshot
  BY <1>2 DEF TypeInv, SavesStored
<1> QED
  BY <1>1, <1>2, <1>3 DEF Fire, Snapshot

\* The steps that fire nothing, read nothing and decide nothing.
LEMMA QuietStep ==
    ASSUME FireInv, TypeInv', UNCHANGED fires, HandlersForget, WritesCounted
    PROVE  FireInv'
<1> USE DEF FireInv
<1>1. /\ \A a \in AlertIds : version[a] \in Nat /\ version'[a] \in Nat /\ version[a] <= version'[a]
      /\ \A d \in Deliveries : \A s \in task'[d].todo : s \in task[d].todo
  BY HistoryType DEF WritesCounted, HandlersForget
<1>2. ReadsPast'
  <2>1. \A d \in Deliveries : \A s \in task'[d].todo : s.read <= version'[s.id]
    BY <1>1, HistoryType DEF ReadsPast
  <2>2. \A d \in Deliveries :
          task'[d].pc = "saving" => task'[d].write.read <= version'[task'[d].write.id]
    BY <1>1, HistoryType DEF ReadsPast, HandlersForget
  <2>3. \A f \in fires : f.read < f.wrote /\ f.wrote <= version'[f.alert]
    BY <1>1, HistoryType DEF ReadsPast
  <2> QED
    BY <2>1, <2>2, <2>3 DEF ReadsPast
<1>3. RowsAsLeft'
  <2> SUFFICES ASSUME NEW f \in fires, version'[f.alert] = f.wrote
               PROVE  LeftBy(f, db'[f.alert])
    BY DEF RowsAsLeft, LeftBy
  <2>1. /\ f.alert \in AlertIds /\ f.wrote \in Nat /\ version[f.alert] \in Nat
        /\ f.wrote <= version[f.alert]
    BY HistoryType DEF ReadsPast
  <2>2. version'[f.alert] = version[f.alert] /\ db'[f.alert] = db[f.alert]
    BY <2>1 DEF WritesCounted
  <2>3. LeftBy(f, db[f.alert])
    BY <2>2 DEF RowsAsLeft
  <2> QED
    BY <2>2, <2>3
<1>4. CopiesAsLeft'
  BY <1>1 DEF CopiesAsLeft, LeftBy
<1>5. DecisionsRespect' /\ OneShotsSpent'
  BY DEF DecisionsRespect, OneShotsSpent, HandlersForget
<1>6. RepeatNeedsStaleRead'
  BY DEF RepeatNeedsStaleRead
<1> QED
  BY <1>2, <1>3, <1>4, <1>5, <1>6

\* The save of handler d lands: the fire it makes is newer than every read.
LEMMA FireStep ==
    ASSUME FireInv, TypeInv', HandlersForget,
           NEW d \in Deliveries, task[d].pc = "saving", task'[d].pc # "saving",
           Write(task[d].write.id, task[d].write.row),
           fires' = fires \cup {FireOf(d)}
    PROVE  FireInv'
<1> USE DEF FireInv
<1> DEFINE w == task[d].write
           g == FireOf(d)
<1>1. /\ w.id \in AlertIds /\ w.row \in Alert /\ w.read \in Nat
      /\ version[w.id] \in Nat /\ w.read <= version[w.id]
  BY HistoryType DEF ReadsPast
<1>2. /\ g.alert = w.id /\ g.recurring = w.row.recurring /\ g.at = w.row.last
      /\ g.read = w.read /\ g.wrote = version[w.id] + 1
  BY DEF FireOf
<1>3. /\ \A a \in AlertIds : version[a] \in Nat
      /\ \A a \in AlertIds : version'[a] = IF a = w.id THEN version[a] + 1 ELSE version[a]
      /\ \A a \in AlertIds : a # w.id => db'[a] = db[a]
      /\ db'[w.id].last = w.row.last
      /\ db'[w.id].recurring = w.row.recurring
      /\ db'[w.id].status = w.row.status
  BY <1>1, HistoryType DEF Write, TypeInv, TypeOK, Alert
<1>4. \A e \in Deliveries : \A s \in task'[e].todo :
          s \in task[e].todo /\ s.id \in AlertIds /\ s.read \in Nat /\ s.read <= version[s.id]
  BY HistoryType DEF HandlersForget, ReadsPast
<1>5. \A e \in Deliveries : task'[e].pc = "saving" =>
          /\ task[e].pc = "saving" /\ task'[e].write = task[e].write
          /\ task[e].write.id \in AlertIds /\ task[e].write.read \in Nat
          /\ task[e].write.read <= version[task[e].write.id]
  BY HistoryType DEF HandlersForget, ReadsPast
<1>6. \A f \in fires : /\ f.alert \in AlertIds /\ f.read \in Nat /\ f.wrote \in Nat
                       /\ f.read < f.wrote /\ f.wrote <= version[f.alert]
  BY HistoryType DEF ReadsPast
<1>7. \A f \in fires' : f \in fires \/ f = g
  OBVIOUS
<1> HIDE DEF w, g
<1>8. ReadsPast'
  BY <1>1, <1>2, <1>3, <1>4, <1>5, <1>6, <1>7 DEF ReadsPast
<1>9. RowsAsLeft'
  BY <1>1, <1>2, <1>3, <1>6, <1>7 DEF RowsAsLeft, LeftBy, OneShotsSpent, w
<1>10. CopiesAsLeft'
  BY <1>2, <1>3, <1>4, <1>6, <1>7 DEF CopiesAsLeft, LeftBy
<1>11. DecisionsRespect'
  BY <1>2, <1>3, <1>5, <1>6, <1>7 DEF DecisionsRespect
<1>12. OneShotsSpent'
  BY <1>5 DEF OneShotsSpent
<1>13. RepeatNeedsStaleRead'
  <2> SUFFICES ASSUME NEW f \in fires', NEW h \in fires', f.alert = h.alert, h.read = f.wrote
               PROVE  f.recurring /\ h.at - f.at >= Cooldown
    BY DEF RepeatNeedsStaleRead
  <2>1. CASE f \in fires /\ h \in fires
    BY <2>1 DEF RepeatNeedsStaleRead
  <2>2. CASE f \in fires /\ h = g
    BY <2>2, <1>2 DEF DecisionsRespect, w
  <2>3. CASE f = g
    BY <2>3, <1>1, <1>2, <1>6, <1>7
  <2> QED
    BY <2>1, <2>2, <2>3, <1>7
<1> QED
  BY <1>8, <1>9, <1>10, <1>11, <1>12, <1>13

LEMMA FireInvInit == Init => FireInv
<1> SUFFICES ASSUME Init PROVE FireInv
  OBVIOUS
<1> QED
  BY TypeInvInit DEF FireInv, Init, ReadsPast, RowsAsLeft, CopiesAsLeft, DecisionsRespect,
     OneShotsSpent, RepeatNeedsStaleRead, TaskAt

LEMMA FireInvNext == FireInv /\ [Next]_vars => FireInv'
<1> SUFFICES ASSUME FireInv, [Next]_vars PROVE FireInv'
  OBVIOUS
<1>1. TypeInv /\ TypeInv'
  BY TypeInvNext DEF FireInv
<1>2. task \in [Deliveries -> Task] /\ version \in [AlertIds -> Nat] /\ db \in [AlertIds -> Alert \cup {Null}]
  BY <1>1 DEF TypeInv, TypeOK
<1>3. UNCHANGED task => HandlersForget
  BY DEF HandlersForget
<1>4. UNCHANGED <<db, version>> => WritesCounted
  BY DEF WritesCounted
<1>5. ASSUME NEW d \in Deliveries, NEW k, task' = [task EXCEPT ![d] = k],
             k.todo \subseteq task[d].todo, k.pc # "saving"
      PROVE  HandlersForget /\ task'[d].pc # "saving"
  BY <1>2, <1>5 DEF HandlersForget
<1>6. \A pc : TaskAt(pc).todo = {} /\ TaskAt(pc).pc = pc
  BY DEF TaskAt
<1>7. ASSUME NEW d \in Deliveries, MarketEvent(d) PROVE FireInv'
  BY <1>1, <1>4, <1>5, <1>6, <1>7, QuietStep DEF MarketEvent, rowVars, fireVars
<1>8. ASSUME NEW d \in Deliveries, PassOver(d) PROVE FireInv'
  <2>1. HandlersForget
    BY <1>2, <1>8 DEF PassOver, HandlersForget, Task
  <2> QED
    BY <1>1, <1>4, <1>8, <2>1, QuietStep DEF PassOver, rowVars, fireVars
<1>9. ASSUME NEW d \in Deliveries, Publish(d) PROVE FireInv'
  <2>1. HandlersForget
    BY <1>2, <1>9 DEF Publish, HandlersForget, Task
  <2> QED
    BY <1>1, <1>4, <1>9, <2>1, QuietStep DEF Publish, rowVars
<1>10. ASSUME NEW d \in Deliveries, Ack(d) PROVE FireInv'
  BY <1>1, <1>4, <1>5, <1>6, <1>10, QuietStep DEF Ack, rowVars, fireVars
<1>11. ASSUME NEW d \in Deliveries, LoadFails(d) PROVE FireInv'
  BY <1>1, <1>4, <1>5, <1>6, <1>11, QuietStep DEF LoadFails, DeadLetter, rowVars, fireVars
<1>12. ASSUME NEW d \in Deliveries, PublishFails(d) PROVE FireInv'
  BY <1>1, <1>4, <1>5, <1>6, <1>12, QuietStep DEF PublishFails, DeadLetter, rowVars
<1>13. ASSUME NEW d \in Deliveries, SaveTriggered(d) PROVE FireInv'
  <2> DEFINE k == [task[d] EXCEPT !.pc = "evaluating", !.write = Null, !.pending = @ \cup {FireOf(d)}]
  <2>1. task' = [task EXCEPT ![d] = k]
    BY <1>2, <1>13 DEF SaveTriggered, Task
  <2>2. k.todo = task[d].todo /\ k.pc = "evaluating"
    BY <1>2 DEF Task
  <2> HIDE DEF k
  <2>3. HandlersForget /\ task'[d].pc # "saving"
    BY <1>5, <2>1, <2>2
  <2> QED
    BY <1>1, <1>13, <2>3, FireStep DEF SaveTriggered
<1>14. ASSUME NEW d \in Deliveries, SaveFails(d) PROVE FireInv'
  <2>1. HandlersForget /\ task'[d].pc # "saving"
    BY <1>5, <1>6, <1>14 DEF SaveFails, DeadLetter
  <2>2. CASE UNCHANGED <<rowVars, fires>>
    BY <1>1, <1>4, <2>1, <2>2, QuietStep DEF rowVars
  <2>3. CASE Write(task[d].write.id, task[d].write.row) /\ fires' = fires \cup {FireOf(d)}
    BY <1>1, <1>14, <2>1, <2>3, FireStep DEF SaveFails
  <2> QED
    BY <1>14, <2>2, <2>3 DEF SaveFails
<1>15. ASSUME NEW d \in Deliveries, Load(d) PROVE FireInv'
  <2>1. UNCHANGED <<now, db, version, fires>>
    BY <1>15 DEF Load, rowVars, fireVars
  <2>2. \A e \in Deliveries : task'[e].pc = "saving" => task[e].pc = "saving" /\ task'[e].write = task[e].write
    BY <1>2, <1>15 DEF Load, Task
  <2>3. \A e \in Deliveries : \A s \in task'[e].todo :
          s \in task[e].todo \/ (s.id \in AlertIds /\ s.row = db[s.id] /\ s.read = version[s.id])
    BY <1>2, <1>15 DEF Load, Task
  <2>4. ReadsPast'
    BY <1>1, <1>2, <2>1, <2>2, <2>3, HistoryType DEF FireInv, ReadsPast
  <2>5. CopiesAsLeft'
    <3> SUFFICES ASSUME NEW f \in fires, NEW e \in Deliveries, NEW s \in task'[e].todo,
                        s.id = f.alert, s.read = f.wrote
                 PROVE  LeftBy(f, s.row)
      BY <2>1 DEF CopiesAsLeft, LeftBy
    <3> QED
      BY <2>3 DEF FireInv, CopiesAsLeft, RowsAsLeft
  <2>6. DecisionsRespect' /\ OneShotsSpent'
    BY <2>1, <2>2 DEF FireInv, DecisionsRespect, OneShotsSpent
  <2>7. RowsAsLeft' /\ RepeatNeedsStaleRead'
    BY <2>1 DEF FireInv, RowsAsLeft, LeftBy, RepeatNeedsStaleRead
  <2> QED
    BY <1>1, <2>4, <2>5, <2>6, <2>7 DEF FireInv
<1>16. ASSUME NEW d \in Deliveries, Trigger(d) PROVE FireInv'
  <2>1. UNCHANGED <<now, db, version, fires>>
    BY <1>16 DEF Trigger, rowVars, fireVars
  <2>2. PICK s \in task[d].todo :
          /\ Fires(d, s)
          /\ task' = [task EXCEPT ![d].pc = "saving", ![d].todo = @ \ {s},
                                  ![d].write = [s EXCEPT !.row = Triggered(@, now)]]
    BY <1>16 DEF Trigger
  <2> DEFINE w == task'[d].write
  <2>3. s \in Snapshot /\ s.id \in AlertIds /\ s.row \in Alert /\ s.read \in Nat
    BY <1>1 DEF TypeInv, TypeOK, Task, Snapshot
  <2>4. /\ task'[d].todo \subseteq task[d].todo
        /\ w = [s EXCEPT !.row = Triggered(s.row, now)]
        /\ \A e \in Deliveries : e # d => task'[e] = task[e]
    BY <1>2, <2>2 DEF Task
  <2>5. /\ w.id = s.id /\ w.read = s.read
        /\ w.row.last = now /\ w.row.recurring = s.row.recurring
        /\ ~s.row.recurring => w.row.status = "TRIGGERED"
    BY <2>3, <2>4, ZenonT(60) DEF Snapshot, Triggered, Alert
  <2> HIDE DEF w
  <2>6. CanTrigger(s.row, now)
    BY <2>2 DEF Fires
  <2>7. \A e \in Deliveries : \A r \in task'[e].todo : r \in task[e].todo
    BY <2>4
  <2>8. ReadsPast'
    BY <2>1, <2>4, <2>5, <2>7 DEF FireInv, ReadsPast, w
  <2>9. CopiesAsLeft'
    BY <2>1, <2>7 DEF FireInv, CopiesAsLeft, LeftBy
  <2>10. DecisionsRespect'
    <3> SUFFICES ASSUME NEW f \in fires, NEW e \in Deliveries, task'[e].pc = "saving",
                        task'[e].write.id = f.alert, task'[e].write.read = f.wrote
                 PROVE  f.recurring /\ task'[e].write.row.last - f.at >= Cooldown
      BY <2>1 DEF DecisionsRespect
    <3>1. CASE e # d
      BY <2>4, <3>1 DEF FireInv, DecisionsRespect
    <3>2. CASE e = d
      <4>1. LeftBy(f, s.row) /\ f.at \in Nat
        BY <1>1, <2>5, <3>2, HistoryType DEF FireInv, CopiesAsLeft, w
      <4> QED
        BY <2>5, <2>6, <3>2, <4>1 DEF LeftBy, CanTrigger, Never, w
    <3> QED
      BY <3>1, <3>2
  <2>11. OneShotsSpent'
    BY <2>4, <2>5 DEF FireInv, OneShotsSpent, w
  <2>12. RowsAsLeft' /\ RepeatNeedsStaleRead'
    BY <2>1 DEF FireInv, RowsAsLeft, LeftBy, RepeatNeedsStaleRead
  <2> QED
    BY <1>1, <2>8, <2>9, <2>10, <2>11, <2>12 DEF FireInv
<1>17. ASSUME NEW t \in Requests, CreateCheck(t) \/ UpdateFind(t) \/ DeleteFind(t) \/ RequestFails(t)
       PROVE  FireInv'
  BY <1>1, <1>3, <1>4, <1>17, QuietStep
     DEF CreateCheck, UpdateFind, DeleteFind, RequestFails, queueVars, rowVars, fireVars
<1>18. ASSUME NEW t \in Requests, CreateSave(t) \/ UpdateSave(t) \/ DeleteSave(t) PROVE FireInv'
  <2>1. WritesCounted
    BY <1>2, <1>18 DEF CreateSave, UpdateSave, DeleteSave, Write, WritesCounted
  <2> QED
    BY <1>1, <1>3, <1>18, <2>1, QuietStep DEF CreateSave, UpdateSave, DeleteSave, queueVars, fireVars
<1>19. CASE Tick
  BY <1>1, <1>3, <1>4, <1>19, QuietStep DEF Tick, queueVars, rowVars, fireVars
<1>20. CASE Crash
  <2>1. \A d \in Deliveries : task'[d] = task[d] \/ task'[d] = TaskAt("queued")
    BY <1>20 DEF Crash
  <2>2. HandlersForget
    BY <1>6, <2>1 DEF HandlersForget
  <2> QED
    BY <1>1, <1>4, <1>20, <2>2, QuietStep DEF Crash, rowVars
<1>21. CASE UNCHANGED vars
  BY <1>1, <1>3, <1>4, <1>21, QuietStep DEF vars
<1> QED
  BY <1>7, <1>8, <1>9, <1>10, <1>11, <1>12, <1>13, <1>14, <1>15, <1>16, <1>17, <1>18,
     <1>19, <1>20, <1>21 DEF Next, Handle, Serve

\* Cooldown and one-shot, for any number of handlers, requests and alerts: an
\* alert fires again too soon, or a second time though not recurring, only if
\* the second decision was made on a row that somebody had already rewritten.
\* (Alert.canTrigger and trigger, AlertEvaluationEngine.evaluateAndPersist.)
THEOREM RepeatsAreStale == Spec => []RepeatNeedsStaleRead
<1>1. FireInv => RepeatNeedsStaleRead
  BY DEF FireInv
<1> QED
  BY <1>1, FireInvInit, FireInvNext, PTL DEF Spec

-----------------------------------------------------------------------------
(* Where the triggers went.  FiresAccounted, one trigger at a time. *)

Pending(f) == \E d \in Deliveries : f \in task[d].pending

Accounted(f) ==
    /\ f \in fires <=> f \in published \/ f \in skipped \/ f \in lost \/ Pending(f)
    /\ ~(f \in published /\ (f \in skipped \/ f \in lost \/ Pending(f)))
    /\ ~(f \in skipped /\ (f \in lost \/ Pending(f)))
    /\ ~(f \in lost /\ Pending(f))
    /\ f \in lost => crashes > 0 \/ task[f.by].pc = "dead"

\* A handler's list is its own, and it has none before and after its work.
ListsOwned ==
    \A d \in Deliveries :
        /\ \A f \in task[d].pending : f.by = d
        /\ task[d].pc \notin {"evaluating", "saving"} => task[d].pending = {}

AccountInv == FireInv /\ ListsOwned /\ \A f : Accounted(f)

LEMMA AccountedFires == (\A f : Accounted(f)) => FiresAccounted
BY DEF Accounted, Pending, FiresAccounted, PendingFires

\* The steps that write, announce and drop nothing.
LEMMA SilentStep ==
    ASSUME AccountInv, FireInv', UNCHANGED <<fireVars, crashes>>,
           NEW d \in Deliveries,
           \A e \in Deliveries : e # d => task'[e] = task[e],
           task'[d].pending = task[d].pending,
           task'[d].pc \notin {"evaluating", "saving"} => task[d].pending = {},
           task[d].pc # "dead"
    PROVE  AccountInv'
<1>1. \A e \in Deliveries : task'[e].pending = task[e].pending
  OBVIOUS
<1>2. \A e \in Deliveries : task[e].pc = "dead" => task'[e].pc = "dead"
  OBVIOUS
<1>3. \A f \in lost : f.by \in Deliveries
  BY DEF AccountInv, FireInv, TypeInv, TypeOK, Fire
<1>4. ListsOwned'
  BY <1>1 DEF AccountInv, ListsOwned
<1>5. \A f : Accounted(f)'
  <2> SUFFICES ASSUME NEW f PROVE Accounted(f)'
    OBVIOUS
  <2>1. Accounted(f)
    BY DEF AccountInv
  <2>2. Pending(f)' <=> Pending(f)
    BY <1>1 DEF Pending
  <2>3. UNCHANGED <<fires, published, skipped, lost, crashes>>
    BY DEF fireVars
  <2> QED
    BY <1>2, <1>3, <2>1, <2>2, <2>3 DEF Accounted
<1> QED
  BY <1>4, <1>5 DEF AccountInv

\* The handler of d ends on an error: its list is lost but for what was
\* announced, and so is what its last save wrote.
Drops(d, announced, new) ==
    /\ task' = [task EXCEPT ![d] = TaskAt("dead")]
    /\ UNCHANGED <<skipped, crashes>>
    /\ announced \subseteq task[d].pending
    /\ new \in {{}, {FireOf(d)}} /\ FireOf(d) \notin fires \cap new
    /\ fires' = fires \cup new
    /\ published' = published \cup announced
    /\ lost' = lost \cup (task[d].pending \ announced) \cup new

LEMMA DropStep ==
    ASSUME AccountInv, FireInv', NEW d \in Deliveries, NEW announced, NEW new,
           Drops(d, announced, new)
    PROVE  AccountInv'
<1> USE DEF Drops
<1>1. task \in [Deliveries -> Task]
  BY DEF AccountInv, FireInv, TypeInv, TypeOK
<1>2. /\ task'[d].pc = "dead" /\ task'[d].pending = {}
      /\ \A e \in Deliveries : e # d => task'[e] = task[e]
  BY <1>1 DEF TaskAt
<1>3. ListsOwned'
  BY <1>2 DEF AccountInv, ListsOwned
<1>4. \A f \in lost : f.by \in Deliveries
  BY DEF AccountInv, FireInv, TypeInv, TypeOK, Fire
<1>5. \A f \in lost' \ lost : f.by = d
  BY DEF AccountInv, ListsOwned, FireOf
<1>6. \A f : Accounted(f)'
  <2> SUFFICES ASSUME NEW f PROVE Accounted(f)'
    OBVIOUS
  <2>1. Accounted(f)
    BY DEF AccountInv
  <2>2. f \in task[d].pending => Pending(f) /\ ~Pending(f)'
    BY <1>2 DEF Pending, AccountInv, ListsOwned
  <2>3. f \notin task[d].pending => (Pending(f)' <=> Pending(f))
    BY <1>2 DEF Pending
  <2>4. f \in new => ~Pending(f) /\ f \notin task[d].pending /\ f \notin fires
    BY <2>1, <2>2 DEF Accounted
  <2>5. f \in lost' => crashes' > 0 \/ task'[f.by].pc = "dead"
    BY <1>2, <1>4, <1>5, <2>1 DEF Accounted
  <2> QED
    BY <2>1, <2>2, <2>3, <2>4, <2>5 DEF Accounted
<1> QED
  BY <1>3, <1>6 DEF AccountInv

LEMMA AccountInvInit == Init => AccountInv
<1> SUFFICES ASSUME Init PROVE AccountInv
  OBVIOUS
<1>1. FireInv
  BY FireInvInit
<1>2. \A d \in Deliveries : task[d].pending = {}
  BY DEF Init, TaskAt
<1> QED
  BY <1>1, <1>2 DEF AccountInv, ListsOwned, Accounted, Pending, Init

LEMMA AccountInvNext == AccountInv /\ [Next]_vars => AccountInv'
<1> SUFFICES ASSUME AccountInv, [Next]_vars PROVE AccountInv'
  OBVIOUS
<1>1. FireInv'
  BY FireInvNext DEF AccountInv
<1>2. task \in [Deliveries -> Task]
  BY DEF AccountInv, FireInv, TypeInv, TypeOK
<1>3. \A pc : TaskAt(pc).pending = {} /\ TaskAt(pc).pc = pc
  BY DEF TaskAt
<1>4. ASSUME NEW d \in Deliveries, MarketEvent(d) PROVE AccountInv'
  BY <1>1, <1>2, <1>3, <1>4, SilentStep DEF MarketEvent, AccountInv, ListsOwned
<1>5. ASSUME NEW d \in Deliveries, Load(d) \/ PassOver(d) \/ Trigger(d) PROVE AccountInv'
  <2>1. /\ \A e \in Deliveries : e # d => task'[e] = task[e]
        /\ task'[d].pending = task[d].pending
        /\ task'[d].pc \in {"evaluating", "saving"}
        /\ task[d].pc # "dead"
    <3>1. CASE Load(d)
      BY <1>2, <3>1 DEF Load, Task
    <3>2. CASE PassOver(d)
      BY <1>2, <3>2 DEF PassOver, Task
    <3>3. CASE Trigger(d)
      BY <1>2, <3>3 DEF Trigger, Task
    <3> QED
      BY <1>5, <3>1, <3>2, <3>3
  <2>2. UNCHANGED <<fireVars, crashes>>
    BY <1>5 DEF Load, PassOver, Trigger
  <2> QED
    BY <1>1, <2>1, <2>2, SilentStep
<1>6. ASSUME NEW d \in Deliveries, Ack(d) PROVE AccountInv'
  BY <1>1, <1>2, <1>3, <1>6, SilentStep DEF Ack, Publishing
<1>7. ASSUME NEW d \in Deliveries, SaveTriggered(d) PROVE AccountInv'
  <2> DEFINE g == FireOf(d)
  <2>1. /\ task'[d].pending = task[d].pending \cup {g} /\ task'[d].pc = "evaluating"
        /\ \A e \in Deliveries : e # d => task'[e] = task[e]
    BY <1>2, <1>7 DEF SaveTriggered, Task
  <2>2. g \notin fires /\ g.by = d
    <3>1. g.alert = task[d].write.id /\ g.wrote = version[g.alert] + 1 /\ g.by = d
      BY DEF FireOf
    <3>2. g.alert \in AlertIds /\ version[g.alert] \in Nat
      BY <1>7, <3>1, HistoryType DEF SaveTriggered, AccountInv, FireInv
    <3>3. g \in fires => g.wrote <= version[g.alert]
      BY DEF AccountInv, FireInv, ReadsPast
    <3> QED
      BY <3>1, <3>2, <3>3
  <2>3. fires' = fires \cup {g} /\ UNCHANGED <<published, skipped, lost, crashes>>
    BY <1>7 DEF SaveTriggered
  <2> HIDE DEF g
  <2>4. ListsOwned'
    BY <2>1, <2>2 DEF AccountInv, ListsOwned
  <2>5. \A f \in lost : (f.by \in Deliveries /\ f.by # d) \/ crashes > 0
    BY <1>7 DEF AccountInv, FireInv, TypeInv, TypeOK, Fire, Accounted, SaveTriggered
  <2>6. \A f : Accounted(f)'
    <3> SUFFICES ASSUME NEW f PROVE Accounted(f)'
      OBVIOUS
    <3>1. Accounted(f) /\ Accounted(g)
      BY DEF AccountInv
    <3>2. Pending(f)' <=> Pending(f) \/ f = g
      BY <2>1 DEF Pending
    <3>3. f \in lost' => crashes' > 0 \/ task'[f.by].pc = "dead"
      BY <2>1, <2>3, <2>5, <3>1 DEF Accounted
    <3> QED
      BY <2>2, <2>3, <3>1, <3>2, <3>3 DEF Accounted
  <2> QED
    BY <1>1, <2>4, <2>6 DEF AccountInv
<1>8. ASSUME NEW d \in Deliveries, Publish(d) PROVE AccountInv'
  <2>1. PICK g \in task[d].pending :
          /\ task' = [task EXCEPT ![d].pending = @ \ {g}]
          /\ \/ published' = published \cup {g} /\ UNCHANGED skipped
             \/ skipped' = skipped \cup {g} /\ UNCHANGED published
    BY <1>8 DEF Publish
  <2>2. UNCHANGED <<fires, lost, crashes>>
    BY <1>8 DEF Publish
  <2>3. /\ task'[d].pending = task[d].pending \ {g} /\ task'[d].pc = "evaluating"
        /\ \A e \in Deliveries : e # d => task'[e] = task[e]
    BY <1>2, <1>8, <2>1 DEF Publish, Publishing, Task
  <2>4. ListsOwned'
    BY <2>3 DEF AccountInv, ListsOwned
  <2>5. \A f \in lost : (f.by \in Deliveries /\ f.by # d) \/ crashes > 0
    BY <1>8 DEF AccountInv, FireInv, TypeInv, TypeOK, Fire, Accounted, Publish, Publishing
  <2>6. \A f : Accounted(f)'
    <3> SUFFICES ASSUME NEW f PROVE Accounted(f)'
      OBVIOUS
    <3>1. Accounted(f) /\ Accounted(g)
      BY DEF AccountInv
    <3>2. Pending(g) /\ ~Pending(g)'
      BY <2>3 DEF Pending, AccountInv, ListsOwned
    <3>3. f # g => (Pending(f)' <=> Pending(f))
      BY <2>3 DEF Pending
    <3>4. f \in lost' => crashes' > 0 \/ task'[f.by].pc = "dead"
      BY <2>2, <2>3, <2>5, <3>1 DEF Accounted
    <3> QED
      BY <2>1, <2>2, <3>1, <3>2, <3>3, <3>4 DEF Accounted
  <2> QED
    BY <1>1, <2>4, <2>6 DEF AccountInv
<1>9. ASSUME NEW d \in Deliveries, LoadFails(d) PROVE AccountInv'
  BY <1>1, <1>2, <1>3, <1>9, SilentStep DEF LoadFails, DeadLetter, AccountInv, ListsOwned
<1>10. ASSUME NEW d \in Deliveries, SaveFails(d) PROVE AccountInv'
  <2>1. /\ task' = [task EXCEPT ![d] = TaskAt("dead")]
        /\ UNCHANGED <<published, skipped, crashes>>
    BY <1>10 DEF SaveFails, DeadLetter
  <2>2. FireOf(d) \notin fires
    <3> DEFINE g == FireOf(d)
    <3>1. g.alert = task[d].write.id /\ g.wrote = version[g.alert] + 1
      BY DEF FireOf
    <3>2. g.alert \in AlertIds /\ version[g.alert] \in Nat
      BY <1>10, <3>1, HistoryType DEF SaveFails, AccountInv, FireInv
    <3>3. g \in fires => g.wrote <= version[g.alert]
      BY DEF AccountInv, FireInv, ReadsPast
    <3> QED
      BY <3>1, <3>2, <3>3
  <2>3. Drops(d, {}, {}) \/ Drops(d, {}, {FireOf(d)})
    BY <1>10, <2>1, <2>2 DEF SaveFails, Drops
  <2> QED
    BY <1>1, <2>3, DropStep
<1>11. ASSUME NEW d \in Deliveries, PublishFails(d) PROVE AccountInv'
  <2>1. PICK f \in task[d].pending :
          \/ lost' = lost \cup task[d].pending /\ UNCHANGED published
          \/ lost' = lost \cup (task[d].pending \ {f}) /\ published' = published \cup {f}
    BY <1>11 DEF PublishFails
  <2>2. task' = [task EXCEPT ![d] = TaskAt("dead")] /\ UNCHANGED <<fires, skipped, crashes>>
    BY <1>11 DEF PublishFails, DeadLetter
  <2>3. CASE lost' = lost \cup task[d].pending /\ UNCHANGED published
    <3>1. Drops(d, {}, {})
      BY <2>2, <2>3 DEF Drops
    <3> QED
      BY <1>1, <3>1, DropStep
  <2>4. CASE lost' = lost \cup (task[d].pending \ {f}) /\ published' = published \cup {f}
    <3>1. Drops(d, {f}, {})
      BY <2>2, <2>4 DEF Drops
    <3> QED
      BY <1>1, <3>1, DropStep
  <2> QED
    BY <2>1, <2>3, <2>4
<1>12. ASSUME UNCHANGED <<task, fireVars, crashes>> PROVE AccountInv'
  BY <1>1, <1>12 DEF AccountInv, ListsOwned, Accounted, Pending, fireVars
<1>13. ASSUME NEW t \in Requests, Serve(t) PROVE AccountInv'
  BY <1>12, <1>13 DEF Serve, CreateCheck, CreateSave, UpdateFind, UpdateSave, DeleteFind,
                      DeleteSave, RequestFails, queueVars
<1>14. CASE Tick
  BY <1>12, <1>14 DEF Tick, queueVars
<1>15. CASE Crash
  <2>1. \A d \in Deliveries : task'[d].pending = {} /\ (task'[d].pc = "dead" <=> task[d].pc = "dead")
    BY <1>3, <1>15 DEF Crash, AccountInv, ListsOwned
  <2>2. \A f : ~Pending(f)'
    BY <2>1 DEF Pending
  <2>3. \A f : f \in lost' <=> f \in lost \/ Pending(f)
    BY <1>15 DEF Crash, Pending
  <2>4. crashes' > 0 /\ UNCHANGED <<fires, published, skipped>>
    BY <1>15 DEF Crash, AccountInv, FireInv, TypeInv, TypeOK
  <2>5. ListsOwned'
    BY <2>1 DEF ListsOwned
  <2>6. \A f : Accounted(f)'
    BY <2>2, <2>3, <2>4 DEF AccountInv, Accounted
  <2> QED
    BY <1>1, <2>5, <2>6 DEF AccountInv
<1>16. CASE UNCHANGED vars
  BY <1>12, <1>16 DEF vars, fireVars
<1> QED
  BY <1>4, <1>5, <1>6, <1>7, <1>8, <1>9, <1>10, <1>11, <1>13, <1>14, <1>15, <1>16
     DEF Next, Handle

\* No trigger disappears without a trace and none is announced twice: what the
\* table was told to remember is announced, has no event, is still to be
\* announced, or went with a restart or a dead letter.
\* (AlertEvaluationConsumer.evaluateAndPublish.)
THEOREM NoFireUnaccounted == Spec => []FiresAccounted
<1>1. AccountInv => FiresAccounted
  BY AccountedFires DEF AccountInv
<1> QED
  BY <1>1, AccountInvInit, AccountInvNext, PTL DEF Spec

-----------------------------------------------------------------------------
(* What the engine owes. *)

Count(d, a) == Cardinality(FiresOf(d, a))

\* A handler that is at k may still trigger alert a.
MayFire(k, a) ==
    \/ k.pc \in {"none", "queued"}
    \/ \E s \in k.todo : s.id = a
    \/ k.pc = "saving" /\ k.write.id = a

\* A handler at k holds an alert once: in its list or in its hands.
HoldsOnce(k) ==
    /\ k.pc \notin {"evaluating", "saving"} => k.todo = {}
    /\ \A r, s \in k.todo : r.id = s.id => r = s
    /\ k.pc = "saving" => \A s \in k.todo : s.id # k.write.id

\* What makes the contract inductive: an alert that the present handler may
\* still trigger was triggered at most once by each of its predecessors.
OncePerHandOut ==
    \A d \in Deliveries, a \in AlertIds :
        /\ Count(d, a) <= crashes + 1
        /\ MayFire(task[d], a) => Count(d, a) <= crashes

ContractInv ==
    /\ FireInv
    /\ IsFiniteSet(fires)
    /\ \A d \in Deliveries : HoldsOnce(task[d])
    /\ OncePerHandOut

Seen(pc) == IF pc \in {"none", "acked", "dead"} THEN pc ELSE "held"

LEMMA CountType ==
    ASSUME IsFiniteSet(fires), NEW d, NEW a
    PROVE  Count(d, a) \in Nat
<1>1. FiresOf(d, a) \in SUBSET fires
  BY DEF FiresOf
<1> QED
  BY <1>1, FS_Subset, FS_CardinalityType DEF Count

\* A handler moves to k and triggers nothing.
LEMMA QuietMove ==
    ASSUME ContractInv, FireInv', UNCHANGED <<fires, crashes>>,
           NEW d \in Deliveries, NEW k, task' = [task EXCEPT ![d] = k], HoldsOnce(k),
           \A a \in AlertIds : MayFire(k, a) => MayFire(task[d], a),
           \/ Seen(k.pc) = Seen(task[d].pc)
           \/ task[d].pc = "none" /\ Seen(k.pc) = "held"
           \/ Seen(task[d].pc) = "held" /\ Seen(k.pc) \in {"acked", "dead"}
    PROVE  ContractInv' /\ [Contract!Next]_(Contract!vars)
<1>1. task \in [Deliveries -> Task]
  BY DEF ContractInv, FireInv, TypeInv, TypeOK
<1>2. \A e \in Deliveries : task'[e] = IF e = d THEN k ELSE task[e]
  BY <1>1
<1>3. \A e, a : Count(e, a)' = Count(e, a)
  BY DEF Count, FiresOf
<1>4. OncePerHandOut'
  BY <1>2, <1>3 DEF ContractInv, OncePerHandOut
<1>5. ContractInv'
  BY <1>2, <1>4 DEF ContractInv
<1>6. FireCounts' = FireCounts
  BY DEF FireCounts, FiresOf
<1>7. QueueState' = [QueueState EXCEPT ![d] = Seen(k.pc)] /\ QueueState[d] = Seen(task[d].pc)
  BY <1>2 DEF QueueState, Seen
<1>8. CASE Seen(k.pc) = Seen(task[d].pc)
  <2>1. QueueState' = QueueState
    BY <1>7, <1>8 DEF QueueState
  <2> QED
    BY <1>5, <1>6, <2>1 DEF Contract!vars
<1>9. CASE task[d].pc = "none" /\ Seen(k.pc) = "held"
  <2>1. Contract!Route(d)
    BY <1>6, <1>7, <1>9 DEF Contract!Route, Seen
  <2> QED
    BY <1>5, <2>1 DEF Contract!Next
<1>10. CASE Seen(task[d].pc) = "held" /\ Seen(k.pc) \in {"acked", "dead"}
  <2>1. Contract!Settle(d)
    BY <1>6, <1>7, <1>10 DEF Contract!Settle
  <2> QED
    BY <1>5, <2>1 DEF Contract!Next
<1> QED
  BY <1>8, <1>9, <1>10

\* The save of handler d lands, and the handler goes on or fails.
LEMMA FiringMove ==
    ASSUME ContractInv, FireInv', UNCHANGED crashes,
           NEW d \in Deliveries, task[d].pc = "saving",
           NEW k, task' = [task EXCEPT ![d] = k],
           k.pc \in {"evaluating", "dead"}, k.todo \subseteq task[d].todo,
           k.pc = "dead" => k.todo = {},
           fires' = fires \cup {FireOf(d)}
    PROVE  ContractInv' /\ [Contract!Next]_(Contract!vars)
<1>b. PICK b : b = task[d].write.id
  OBVIOUS
<1>g. PICK g : g = FireOf(d)
  OBVIOUS
<1> USE <1>b, <1>g
<1>1. task \in [Deliveries -> Task] /\ crashes \in Nat
  BY DEF ContractInv, FireInv, TypeInv, TypeOK
<1>2. \A e \in Deliveries : task'[e] = IF e = d THEN k ELSE task[e]
  BY <1>1
<1>3. b \in AlertIds /\ g.alert = b /\ g.by = d /\ g.wrote = version[b] + 1 /\ version[b] \in Nat
  BY HistoryType DEF ContractInv, FireInv, FireOf
<1>4. g \notin fires
  BY <1>3 DEF ContractInv, FireInv, ReadsPast
<1>5. IsFiniteSet(fires) /\ IsFiniteSet(fires')
  BY FS_AddElement DEF ContractInv
<1>6. \A e, a : Count(e, a) \in Nat
  BY <1>5, CountType
<1>7. Count(d, b)' = Count(d, b) + 1
  <2>1. FiresOf(d, b)' = FiresOf(d, b) \cup {g}
    BY <1>3 DEF FiresOf
  <2>2. IsFiniteSet(FiresOf(d, b)) /\ g \notin FiresOf(d, b)
    BY <1>4, <1>5, FS_Subset DEF FiresOf
  <2>3. Cardinality(FiresOf(d, b) \cup {g}) = Cardinality(FiresOf(d, b)) + 1
    BY ONLY <2>2, FS_AddElement
  <2> QED
    BY ONLY <2>1, <2>3 DEF Count
<1>8. \A e, a : e # d \/ a # b => Count(e, a)' = Count(e, a)
  <2> SUFFICES ASSUME NEW e, NEW a, e # d \/ a # b PROVE Count(e, a)' = Count(e, a)
    OBVIOUS
  <2>1. fires' = fires \cup {g} /\ ~(g.by = e /\ g.alert = a)
    BY <1>3
  <2>2. FiresOf(e, a)' = FiresOf(e, a)
    BY ONLY <2>1 DEF FiresOf
  <2> QED
    BY ONLY <2>2 DEF Count
<1>9. Count(d, b) <= crashes
  BY <1>3 DEF ContractInv, OncePerHandOut, MayFire
<1>10. HoldsOnce(k) /\ ~MayFire(k, b)
  BY DEF ContractInv, HoldsOnce, MayFire
<1>11. \A a \in AlertIds : MayFire(k, a) => MayFire(task[d], a)
  BY DEF MayFire
<1>12. OncePerHandOut'
  <2> SUFFICES ASSUME NEW e \in Deliveries, NEW a \in AlertIds
               PROVE  /\ Count(e, a)' <= crashes + 1
                      /\ MayFire(task'[e], a) => Count(e, a)' <= crashes
    BY DEF OncePerHandOut
  <2>1. CASE e = d /\ a = b
    BY <1>1, <1>2, <1>6, <1>7, <1>9, <1>10, <2>1
  <2>2. CASE e # d \/ a # b
    BY <1>2, <1>8, <1>11, <2>2 DEF ContractInv, OncePerHandOut
  <2> QED
    BY <2>1, <2>2
<1>13. ContractInv'
  BY <1>2, <1>5, <1>10, <1>12 DEF ContractInv
<1>14. QueueState' = [QueueState EXCEPT ![d] = Seen(k.pc)] /\ QueueState[d] = "held"
  BY <1>2 DEF QueueState, Seen
<1>15. FireCounts' = [FireCounts EXCEPT ![d][b] = @ + 1] /\ FireCounts[d][b] <= crashes
  <2>1. /\ FireCounts = [e \in Deliveries |-> [a \in AlertIds |-> Count(e, a)]]
        /\ FireCounts' = [e \in Deliveries |-> [a \in AlertIds |-> Count(e, a)']]
    BY DEF FireCounts, Count
  <2> QED
    BY ONLY <1>3, <1>7, <1>8, <1>9, <2>1, d \in Deliveries
<1>16. Contract!Do(d, b)
  BY <1>14, <1>15 DEF Contract!Do, Seen
<1> QED
  BY <1>3, <1>13, <1>16 DEF Contract!Next

LEMMA ContractInvInit == Init => ContractInv /\ Contract!Init
<1> SUFFICES ASSUME Init PROVE ContractInv /\ Contract!Init
  OBVIOUS
<1>1. FireInv
  BY FireInvInit
<1>2. /\ fires = {} /\ crashes = 0
      /\ \A d \in Deliveries : task[d].pc = "none" /\ task[d].todo = {}
  BY DEF Init, TaskAt
<1>3. \A d, a : FiresOf(d, a) = {}
  BY <1>2 DEF FiresOf
<1>4. \A d, a : Count(d, a) = 0
  BY <1>3, FS_EmptySet DEF Count
<1>5. ContractInv
  BY <1>1, <1>2, <1>4, FS_EmptySet DEF ContractInv, HoldsOnce, OncePerHandOut
<1>6. Contract!Init
  BY <1>2, <1>4 DEF Contract!Init, QueueState, FireCounts, Count
<1> QED
  BY <1>5, <1>6

\* Every step keeps the invariant, and is a step of the contract or none.
LEMMA ContractStep ==
    ContractInv /\ [Next]_vars => ContractInv' /\ [Contract!Next]_(Contract!vars)
<1> SUFFICES ASSUME ContractInv, [Next]_vars
             PROVE  ContractInv' /\ [Contract!Next]_(Contract!vars)
  OBVIOUS
<1>1. FireInv'
  BY FireInvNext DEF ContractInv
<1>2. /\ task \in [Deliveries -> Task] /\ crashes \in Nat
      /\ \A d \in Deliveries : HoldsOnce(task[d])
  BY DEF ContractInv, FireInv, TypeInv, TypeOK
<1>3. \A pc : TaskAt(pc).todo = {} /\ TaskAt(pc).pc = pc
  BY DEF TaskAt
<1>4. ASSUME NEW d \in Deliveries, MarketEvent(d)
      PROVE  ContractInv' /\ [Contract!Next]_(Contract!vars)
  <2>1. HoldsOnce(TaskAt("queued"))
    BY <1>3 DEF HoldsOnce
  <2> QED
    BY <1>1, <1>3, <1>4, <2>1, QuietMove DEF MarketEvent, fireVars, MayFire, Seen
<1>5. ASSUME NEW d \in Deliveries, Load(d)
      PROVE  ContractInv' /\ [Contract!Next]_(Contract!vars)
  <2>1. task[d].pc = "queued" /\ UNCHANGED <<fires, crashes>>
    BY <1>5 DEF Load, fireVars
  <2>2. PICK k : task' = [task EXCEPT ![d] = k] /\ k.pc = "evaluating"
                 /\ \A r, s \in k.todo : r.id = s.id => r = s
    <3>1. task' = [task EXCEPT ![d] = task'[d]] /\ task'[d].pc = "evaluating"
      BY <1>2, <1>5 DEF Load, Task
    <3>2. \A r, s \in task'[d].todo : r.id = s.id => r = s
      BY <1>2, <1>5 DEF Load, Task
    <3> QED
      BY <3>1, <3>2
  <2>3. HoldsOnce(k) /\ \A a \in AlertIds : MayFire(k, a) => MayFire(task[d], a)
    BY <2>1, <2>2 DEF HoldsOnce, MayFire
  <2> QED
    BY <1>1, <2>1, <2>2, <2>3, QuietMove DEF Seen
<1>6. ASSUME NEW d \in Deliveries, PassOver(d) \/ Publish(d)
      PROVE  ContractInv' /\ [Contract!Next]_(Contract!vars)
  <2>1. task[d].pc = "evaluating" /\ UNCHANGED <<fires, crashes>>
    BY <1>6 DEF PassOver, Publish, Publishing, fireVars
  <2>2. PICK k : task' = [task EXCEPT ![d] = k] /\ k.pc = "evaluating" /\ k.todo \subseteq task[d].todo
    <3>1. CASE PassOver(d)
      BY <1>2, <3>1 DEF PassOver, Task
    <3>2. CASE Publish(d)
      BY <1>2, <3>2 DEF Publish, Publishing, Task
    <3> QED
      BY <1>6, <3>1, <3>2
  <2>3. HoldsOnce(k) /\ \A a \in AlertIds : MayFire(k, a) => MayFire(task[d], a)
    BY <1>2, <2>1, <2>2 DEF HoldsOnce, MayFire
  <2> QED
    BY <1>1, <2>1, <2>2, <2>3, QuietMove DEF Seen
<1>7. ASSUME NEW d \in Deliveries, Trigger(d)
      PROVE  ContractInv' /\ [Contract!Next]_(Contract!vars)
  <2>1. task[d].pc = "evaluating" /\ UNCHANGED <<fires, crashes>>
    BY <1>7 DEF Trigger, fireVars
  <2>2. PICK s \in task[d].todo :
          task' = [task EXCEPT ![d].pc = "saving", ![d].todo = @ \ {s},
                               ![d].write = [s EXCEPT !.row = Triggered(@, now)]]
    BY <1>7 DEF Trigger
  <2>3. [s EXCEPT !.row = Triggered(s.row, now)].id = s.id
    BY <1>2 DEF Task, Snapshot
  <2>4. PICK k : /\ task' = [task EXCEPT ![d] = k]
                 /\ k.pc = "saving" /\ k.todo = task[d].todo \ {s} /\ k.write.id = s.id
    <3>1. task' = [task EXCEPT ![d] = task'[d]]
      BY <1>2, <2>2
    <3>2. task'[d].pc = "saving" /\ task'[d].todo = task[d].todo \ {s} /\ task'[d].write.id = s.id
      BY <1>2, <2>2, <2>3 DEF Task
    <3> QED
      BY <3>1, <3>2
  <2>5. HoldsOnce(k) /\ \A a \in AlertIds : MayFire(k, a) => MayFire(task[d], a)
    BY <1>2, <2>1, <2>4 DEF HoldsOnce, MayFire
  <2> QED
    BY <1>1, <2>1, <2>4, <2>5, QuietMove DEF Seen
<1>8. ASSUME NEW d \in Deliveries, NEW pc \in {"acked", "dead"},
             task[d].pc \in {"queued", "evaluating", "saving"},
             task' = [task EXCEPT ![d] = TaskAt(pc)], UNCHANGED <<fires, crashes>>
      PROVE  ContractInv' /\ [Contract!Next]_(Contract!vars)
  <2>1. HoldsOnce(TaskAt(pc)) /\ \A a \in AlertIds : ~MayFire(TaskAt(pc), a)
    BY <1>3 DEF HoldsOnce, MayFire
  <2> QED
    BY <1>1, <1>3, <1>8, <2>1, QuietMove DEF Seen
<1>9. ASSUME NEW d \in Deliveries, Ack(d) \/ LoadFails(d) \/ PublishFails(d)
      PROVE  ContractInv' /\ [Contract!Next]_(Contract!vars)
  BY <1>8, <1>9 DEF Ack, LoadFails, PublishFails, Publishing, DeadLetter, fireVars
<1>10. ASSUME NEW d \in Deliveries, SaveTriggered(d)
       PROVE  ContractInv' /\ [Contract!Next]_(Contract!vars)
  <2>1. task[d].pc = "saving" /\ UNCHANGED crashes /\ fires' = fires \cup {FireOf(d)}
    BY <1>10 DEF SaveTriggered
  <2>2. PICK k : task' = [task EXCEPT ![d] = k] /\ k.pc = "evaluating" /\ k.todo = task[d].todo
    <3>1. task' = [task EXCEPT ![d] = task'[d]]
      BY <1>2, <1>10 DEF SaveTriggered
    <3>2. task'[d].pc = "evaluating" /\ task'[d].todo = task[d].todo
      BY <1>2, <1>10 DEF SaveTriggered, Task
    <3> QED
      BY <3>1, <3>2
  <2> QED
    BY <1>1, <2>1, <2>2, FiringMove
<1>11. ASSUME NEW d \in Deliveries, SaveFails(d)
       PROVE  ContractInv' /\ [Contract!Next]_(Contract!vars)
  <2>1. task[d].pc = "saving" /\ UNCHANGED crashes /\ task' = [task EXCEPT ![d] = TaskAt("dead")]
    BY <1>11 DEF SaveFails, DeadLetter
  <2>2. CASE UNCHANGED fires
    BY <1>8, <2>1, <2>2
  <2>3. CASE fires' = fires \cup {FireOf(d)}
    BY <1>1, <1>3, <2>1, <2>3, FiringMove
  <2> QED
    BY <1>11, <2>2, <2>3 DEF SaveFails
<1>12. ASSUME UNCHANGED <<task, fires, crashes>>
       PROVE  ContractInv' /\ [Contract!Next]_(Contract!vars)
  <2>1. QueueState' = QueueState /\ FireCounts' = FireCounts
    BY <1>12 DEF QueueState, FireCounts, FiresOf
  <2>2. ContractInv'
    BY <1>1, <1>12 DEF ContractInv, OncePerHandOut, Count, FiresOf
  <2> QED
    BY <1>12, <2>1, <2>2 DEF Contract!vars
<1>13. ASSUME NEW t \in Requests, Serve(t)
       PROVE  ContractInv' /\ [Contract!Next]_(Contract!vars)
  BY <1>12, <1>13 DEF Serve, CreateCheck, CreateSave, UpdateFind, UpdateSave, DeleteFind,
                      DeleteSave, RequestFails, queueVars, fireVars
<1>14. CASE Tick
  BY <1>12, <1>14 DEF Tick, queueVars, fireVars
<1>15. CASE Crash
  <2>1. /\ UNCHANGED fires /\ crashes' = crashes + 1
        /\ task' = [d \in Deliveries |-> IF task[d].pc \in {"evaluating", "saving"}
                                         THEN TaskAt("queued") ELSE task[d]]
    BY <1>15 DEF Crash
  <2>2. QueueState' = QueueState
    BY <1>3, <2>1 DEF QueueState
  <2>3. FireCounts' = FireCounts /\ \A d, a : Count(d, a)' = Count(d, a)
    BY <2>1 DEF FireCounts, Count, FiresOf
  <2>4. \A d, a : Count(d, a) \in Nat
    BY CountType DEF ContractInv
  <2>5. OncePerHandOut'
    BY <1>2, <2>1, <2>3, <2>4 DEF ContractInv, OncePerHandOut
  <2>6. \A d \in Deliveries : HoldsOnce(task'[d])
    BY <1>2, <1>3, <2>1 DEF HoldsOnce
  <2>7. ContractInv'
    BY <1>1, <2>1, <2>5, <2>6 DEF ContractInv
  <2>8. Contract!Restart
    BY <2>1, <2>2, <2>3 DEF Contract!Restart
  <2> QED
    BY <2>7, <2>8 DEF Contract!Next
<1>16. CASE UNCHANGED vars
  BY <1>12, <1>16 DEF vars
<1> QED
  BY <1>4, <1>5, <1>6, <1>7, <1>9, <1>10, <1>11, <1>13, <1>14, <1>15, <1>16 DEF Next, Handle

\* The evaluation consumer keeps the at-least-once contract whatever overlaps
\* and fails: a message is settled once and for good, and one market event
\* triggers one alert at most once, and at most once more for every restart.
\* (AlertEvaluationConsumer: ack and nack without requeue; evaluateAndPersist:
\* each alert in scope is taken up once.)
THEOREM AtLeastOnceImplemented == Spec => ImplementsAtLeastOnce
<1> QED
  BY ContractInvInit, ContractStep, PTL DEF Spec, ImplementsAtLeastOnce, Contract!Spec

-----------------------------------------------------------------------------
(* What handlers and requests hold of the rows they read: a copy of the     *)
(* present version is the row itself, and the owner of a row never changes. *)

\* A handler at k: its loaded rows, and the row it will save.
HoldsCopies(k) ==
    /\ \A s \in k.todo : s.row.owner = db[s.id].owner /\ (s.read = version[s.id] => s.row = db[s.id])
    /\ k.pc = "saving" =>
          LET w == k.write IN
          /\ w.row.owner = db[w.id].owner
          /\ w.row.last <= now
          /\ w.read = version[w.id] =>
                /\ w.row.rule = db[w.id].rule /\ w.row.recurring = db[w.id].recurring
                /\ db[w.id].status = "ACTIVE" /\ db[w.id].last <= w.row.last

\* A request at j: the row it will insert or save.
HoldsEdit(j) ==
    /\ j.pc \in {"creating", "updating"} => j.row.last <= now
    /\ j.pc = "updating" =>
          /\ j.row.owner = db[j.id].owner
          /\ j.read <= version[j.id]
          /\ j.read = version[j.id] => j.row.last = db[j.id].last

\* No trigger is dated after the clock.
RowsPast == \A a \in AlertIds : Stored(a) => db[a].last <= now

CopyInv ==
    /\ FireInv
    /\ RowsPast
    /\ \A d \in Deliveries : HoldsCopies(task[d])
    /\ \A t \in Requests : HoldsEdit(req[t])

\* Rows stay and keep their owner; no time is taken back.
OwnersKept ==
    /\ \A a \in AlertIds : Stored(a) => Stored(a)' /\ db'[a].owner = db[a].owner
    /\ now <= now'

\* What a request holds has the types.
LEMMA EditType ==
    ASSUME TypeInv, NEW t \in Requests
    PROVE  /\ req[t] \in Job
           /\ req[t].pc \in {"creating", "updating"} => req[t].row \in Alert
           /\ req[t].pc \in {"updating", "deleting"} => req[t].id \in AlertIds /\ db[req[t].id] \in Alert
BY DEF TypeInv, TypeOK, SavesStored, Job

\* Handler d reads nothing and decides nothing.
Forgets(d) ==
    /\ task'[d].todo \subseteq task[d].todo
    /\ task'[d].pc = "saving" => task[d].pc = "saving" /\ task'[d].write = task[d].write

\* What a handler read earlier, and still holds, is still true of it.
LEMMA CopiesSurvive ==
    ASSUME FireInv, TypeInv', WritesCounted, OwnersKept, NEW d \in Deliveries, HoldsCopies(task[d]),
           Forgets(d)
    PROVE  HoldsCopies(task[d])'
<1> DEFINE k == task[d]
           l == task'[d]
<1>1. /\ \A s \in k.todo : s.id \in AlertIds /\ s.read \in Nat /\ s.read <= version[s.id] /\ db[s.id] # Null
      /\ k.pc = "saving" => /\ k.write.id \in AlertIds /\ k.write.read \in Nat
                            /\ k.write.read <= version[k.write.id] /\ db[k.write.id] # Null
                            /\ k.write.row \in Alert
  BY HistoryType DEF FireInv, ReadsPast, TypeInv, SavesStored
<1>2. /\ now \in Nat /\ now' \in Nat
      /\ \A a \in AlertIds : version[a] \in Nat
  BY DEF FireInv, TypeInv, TypeOK
<1>3. \A s \in k.todo : /\ db'[s.id].owner = db[s.id].owner
                        /\ s.read = version'[s.id] => s.read = version[s.id] /\ db'[s.id] = db[s.id]
  BY <1>1, <1>2 DEF WritesCounted, OwnersKept, Stored
<1>4. k.pc = "saving" =>
         /\ db'[k.write.id].owner = db[k.write.id].owner
         /\ k.write.read = version'[k.write.id] =>
               k.write.read = version[k.write.id] /\ db'[k.write.id] = db[k.write.id]
  BY <1>1, <1>2 DEF WritesCounted, OwnersKept, Stored
<1>5. k.pc = "saving" => (k.write.row.last <= now => k.write.row.last <= now')
  BY <1>1, <1>2 DEF OwnersKept, Alert, Never
<1>6. /\ l.todo \subseteq k.todo
      /\ l.pc = "saving" => k.pc = "saving" /\ l.write = k.write
  BY DEF Forgets
<1>7. HoldsCopies(k)
  OBVIOUS
<1>8. k' = l
  OBVIOUS
<1> HIDE DEF k, l
<1>9. HoldsCopies(k)'
  BY <1>3, <1>4, <1>5, <1>6, <1>7, <1>8 DEF HoldsCopies
<1> QED
  BY <1>9 DEF k

LEMMA EditsSurvive ==
    ASSUME FireInv, TypeInv', WritesCounted, OwnersKept, NEW t \in Requests, HoldsEdit(req[t]),
           UNCHANGED req[t]
    PROVE  HoldsEdit(req[t])'
<1> DEFINE j == req[t]
<1>1. /\ j.pc \in {"creating", "updating"} => j.row \in Alert
      /\ j.pc = "updating" => j.id \in AlertIds /\ db[j.id] \in Alert
      /\ j.read \in Nat
  BY EditType DEF FireInv, Job
<1>2. /\ now \in Nat /\ now' \in Nat /\ now <= now'
      /\ \A a \in AlertIds : db[a] \in Alert => db[a] # Null
  BY EngineAssumption DEF FireInv, TypeInv, TypeOK, OwnersKept
<1>3. \A a \in AlertIds : version[a] \in Nat
  BY DEF FireInv, TypeInv, TypeOK
<1>4. j.pc = "updating" =>
         /\ db'[j.id].owner = db[j.id].owner
         /\ j.read <= version[j.id] =>
               /\ j.read <= version'[j.id]
               /\ j.read = version'[j.id] => j.read = version[j.id] /\ db'[j.id] = db[j.id]
  BY <1>1, <1>2, <1>3 DEF WritesCounted, OwnersKept, Stored
<1>5. j.pc \in {"creating", "updating"} => (j.row.last <= now => j.row.last <= now')
  BY <1>1, <1>2 DEF Alert, Never
<1>6. j' = j
  OBVIOUS
<1> HIDE DEF j
<1>7. HoldsEdit(j) => HoldsEdit(j)'
  BY <1>4, <1>5, <1>6 DEF HoldsEdit
<1> QED
  BY <1>7 DEF j

\* A step in which each handler and request reads nothing, or reads what is true.
LEMMA CopyStep ==
    ASSUME CopyInv, FireInv', WritesCounted, OwnersKept, RowsPast',
           \A d \in Deliveries : Forgets(d) \/ HoldsCopies(task[d])',
           \A t \in Requests : req'[t] = req[t] \/ HoldsEdit(req[t])'
    PROVE  CopyInv'
<1>1. \A d \in Deliveries : HoldsCopies(task[d])'
  BY CopiesSurvive DEF CopyInv, FireInv
<1>2. \A t \in Requests : HoldsEdit(req[t])'
  BY EditsSurvive DEF CopyInv, FireInv
<1> QED
  BY <1>1, <1>2 DEF CopyInv

\* A save of a row that was read earlier: its owner is the same, and nobody's
\* alert becomes active but by a write that revives it.
LEMMA WriteKeeps ==
    ASSUME TypeInv, RowsPast, UNCHANGED now, NEW a \in AlertIds, NEW row \in Alert, Write(a, row),
           Stored(a), row.owner = db[a].owner, row.last <= now
    PROVE  /\ WritesCounted /\ OwnersKept /\ RowsPast'
           /\ revived \subseteq revived'
           /\ \A u \in Users \ revived' : ActiveOf(u)' \subseteq ActiveOf(u)
<1>1. db \in [AlertIds -> Alert \cup {Null}] /\ version \in [AlertIds -> Nat] /\ now \in Nat
  BY DEF TypeInv, TypeOK
<1>2. db[a] \in Alert
  BY <1>1 DEF Stored
<1> DEFINE new == [row EXCEPT !.deleted = db[a].deleted]
<1>3. new \in Alert /\ new # Null
  BY <1>2, EngineAssumption DEF Alert
<1>4. /\ new.owner = db[a].owner /\ new.last <= now
      /\ new.status = row.status /\ new.deleted = db[a].deleted
  BY DEF Alert
<1>5. \A b \in AlertIds : db'[b] = IF b = a THEN new ELSE db[b]
  BY <1>1 DEF Write
<1>6. \A b \in AlertIds : version'[b] = IF b = a THEN version[b] + 1 ELSE version[b]
  BY <1>1 DEF Write
<1> HIDE DEF new
<1>7. WritesCounted
  BY <1>5, <1>6 DEF WritesCounted
<1>8. OwnersKept
  BY <1>1, <1>3, <1>4, <1>5 DEF OwnersKept, Stored
<1>9. RowsPast'
  BY <1>4, <1>5 DEF RowsPast, Stored
<1>10. revived \subseteq revived'
  BY DEF Write
<1>11. ASSUME NEW u \in Users, u \notin revived', NEW b \in ActiveOf(u)'
       PROVE  b \in ActiveOf(u)
  <2>1. b \in AlertIds /\ db'[b] # Null /\ ~db'[b].deleted /\ db'[b].owner = u /\ db'[b].status = "ACTIVE"
    BY <1>11 DEF ActiveOf, Visible, Stored
  <2>2. CASE b # a
    BY <1>5, <2>1, <2>2 DEF ActiveOf, Visible, Stored
  <2>3. CASE b = a
    <3>1. /\ db[a] # Null /\ ~db[a].deleted /\ db[a].owner = u /\ row.owner = u /\ row.status = "ACTIVE"
      BY <1>2, <1>4, <1>5, <2>1, <2>3, EngineAssumption
    <3>2. db[a].status = "ACTIVE"
      BY <1>11, <3>1 DEF Write, Visible, Stored
    <3> QED
      BY <2>3, <3>1, <3>2 DEF ActiveOf, Visible, Stored
  <2> QED
    BY <2>2, <2>3
<1> QED
  BY <1>7, <1>8, <1>9, <1>10, <1>11

\* The steps that touch no row and no clock.
LEMMA StillRows ==
    ASSUME RowsPast, TypeInv, UNCHANGED <<now, db, version>>
    PROVE  WritesCounted /\ OwnersKept /\ RowsPast'
BY DEF WritesCounted, OwnersKept, RowsPast, Stored, TypeInv, TypeOK

LEMMA CopyInvInit == Init => CopyInv
<1> SUFFICES ASSUME Init PROVE CopyInv
  OBVIOUS
<1>1. \A a \in AlertIds : Stored(a) => db[a].last = Never
  BY DEF Init, Stored, NewAlert
<1>2. RowsPast
  BY <1>1 DEF Init, RowsPast, Never
<1>3. \A d \in Deliveries : HoldsCopies(task[d])
  BY DEF Init, TaskAt, HoldsCopies
<1>4. \A t \in Requests : HoldsEdit(req[t])
  BY DEF Init, HoldsEdit
<1> QED
  BY <1>2, <1>3, <1>4, FireInvInit DEF CopyInv

LEMMA CopyInvNext == CopyInv /\ [Next]_vars => CopyInv'
<1> SUFFICES ASSUME CopyInv, [Next]_vars PROVE CopyInv'
  OBVIOUS
<1>1. FireInv /\ FireInv' /\ TypeInv /\ TypeInv' /\ RowsPast
  BY FireInvNext DEF CopyInv, FireInv
<1>2. /\ task \in [Deliveries -> Task] /\ req \in [Requests -> Job] /\ now \in Nat
      /\ version \in [AlertIds -> Nat] /\ db \in [AlertIds -> Alert \cup {Null}]
  BY <1>1 DEF TypeInv, TypeOK
<1>3. UNCHANGED task => \A d \in Deliveries : Forgets(d)
  BY DEF Forgets
<1>4. UNCHANGED <<now, db, version>> => WritesCounted /\ OwnersKept /\ RowsPast'
  BY <1>1, StillRows
<1>5. \A pc : TaskAt(pc).todo = {} /\ TaskAt(pc).pc = pc
  BY DEF TaskAt
<1>6. ASSUME NEW d \in Deliveries, NEW k, task' = [task EXCEPT ![d] = k],
             k.todo \subseteq task[d].todo, k.pc # "saving"
      PROVE  \A e \in Deliveries : Forgets(e)
  BY <1>2, <1>6 DEF Forgets
<1>7. ASSUME NEW d \in Deliveries,
             MarketEvent(d) \/ PassOver(d) \/ Publish(d) \/ Ack(d) \/ LoadFails(d) \/ PublishFails(d)
      PROVE  CopyInv'
  <2>1. \A e \in Deliveries : Forgets(e)
    <3>1. CASE MarketEvent(d)
      BY <1>5, <1>6, <3>1 DEF MarketEvent
    <3>2. CASE PassOver(d)
      BY <1>2, <3>2 DEF PassOver, Forgets, Task
    <3>3. CASE Publish(d)
      BY <1>2, <3>3 DEF Publish, Forgets, Task
    <3>4. CASE Ack(d)
      BY <1>5, <1>6, <3>4 DEF Ack
    <3>5. CASE LoadFails(d)
      BY <1>5, <1>6, <3>5 DEF LoadFails, DeadLetter
    <3>6. CASE PublishFails(d)
      BY <1>5, <1>6, <3>6 DEF PublishFails, DeadLetter
    <3> QED
      BY <1>7, <3>1, <3>2, <3>3, <3>4, <3>5, <3>6
  <2>2. UNCHANGED <<now, db, version, req>>
    BY <1>7 DEF MarketEvent, PassOver, Publish, Ack, LoadFails, PublishFails, rowVars
  <2> QED
    BY <1>1, <1>4, <2>1, <2>2, CopyStep
<1>8. ASSUME NEW d \in Deliveries, Load(d) PROVE CopyInv'
  <2>1. UNCHANGED <<now, db, version, req>>
    BY <1>8 DEF Load, rowVars
  <2>2. /\ \A s \in task'[d].todo : s.id \in AlertIds /\ s.row = db[s.id] /\ s.read = version[s.id]
        /\ task'[d].pc = "evaluating"
        /\ \A e \in Deliveries : e # d => task'[e] = task[e]
    BY <1>2, <1>8 DEF Load, Task
  <2>3. HoldsCopies(task[d])'
    BY <2>1, <2>2 DEF HoldsCopies
  <2>4. \A e \in Deliveries : Forgets(e) \/ HoldsCopies(task[e])'
    BY <2>2, <2>3 DEF Forgets
  <2> QED
    BY <1>1, <1>4, <2>1, <2>4, CopyStep
<1>9. ASSUME NEW d \in Deliveries, Trigger(d) PROVE CopyInv'
  <2>1. UNCHANGED <<now, db, version, req>>
    BY <1>9 DEF Trigger, rowVars
  <2>2. PICK s \in task[d].todo :
          /\ Fires(d, s)
          /\ task' = [task EXCEPT ![d].pc = "saving", ![d].todo = @ \ {s},
                                  ![d].write = [s EXCEPT !.row = Triggered(@, now)]]
    BY <1>9 DEF Trigger
  <2> DEFINE w == task'[d].write
  <2>3. s \in Snapshot /\ s.id \in AlertIds /\ s.row \in Alert /\ s.read \in Nat /\ db[s.id] # Null
    BY <1>1 DEF TypeInv, TypeOK, SavesStored, Task, Snapshot
  <2>4. /\ task'[d].todo \subseteq task[d].todo
        /\ w = [s EXCEPT !.row = Triggered(s.row, now)]
        /\ \A e \in Deliveries : e # d => task'[e] = task[e]
    BY <1>2, <2>2 DEF Task
  <2>a. w.id = s.id /\ w.read = s.read /\ w.row = Triggered(s.row, now)
    BY <2>3, <2>4 DEF Snapshot
  <2>b. /\ Triggered(s.row, now).last = now /\ Triggered(s.row, now).recurring = s.row.recurring
        /\ Triggered(s.row, now).owner = s.row.owner /\ Triggered(s.row, now).rule = s.row.rule
    BY <2>3 DEF Triggered, Alert
  <2>5. /\ w.id = s.id /\ w.read = s.read
        /\ w.row.last = now /\ w.row.recurring = s.row.recurring
        /\ w.row.owner = s.row.owner /\ w.row.rule = s.row.rule
    BY <2>a, <2>b
  <2>6. s.row.status = "ACTIVE"
    BY <2>2 DEF Fires, CanTrigger
  <2>7. s.row.owner = db[s.id].owner /\ (s.read = version[s.id] => s.row = db[s.id])
    BY DEF CopyInv, HoldsCopies
  <2>8. db[s.id].last <= now
    BY <1>1, <2>3 DEF RowsPast, Stored
  <2> HIDE DEF w
  <2>9. HoldsCopies(task[d])'
    BY <1>2, <2>1, <2>4, <2>5, <2>6, <2>7, <2>8 DEF CopyInv, HoldsCopies, w
  <2>10. \A e \in Deliveries : Forgets(e) \/ HoldsCopies(task[e])'
    BY <2>4, <2>9 DEF Forgets
  <2> QED
    BY <1>1, <1>4, <2>1, <2>10, CopyStep
<1>10. ASSUME NEW d \in Deliveries, SaveTriggered(d) \/ SaveFails(d) PROVE CopyInv'
  <2>1. task[d].pc = "saving" /\ UNCHANGED <<now, req>>
    BY <1>10 DEF SaveTriggered, SaveFails
  <2>2. \A e \in Deliveries : Forgets(e)
    <3>1. CASE SaveTriggered(d)
      BY <1>2, <3>1 DEF SaveTriggered, Forgets, Task
    <3>2. CASE SaveFails(d)
      BY <1>5, <1>6, <3>2 DEF SaveFails, DeadLetter
    <3> QED
      BY <1>10, <3>1, <3>2
  <2>3. CASE UNCHANGED rowVars
    BY <1>1, <1>4, <2>1, <2>2, <2>3, CopyStep DEF rowVars
  <2>4. CASE Write(task[d].write.id, task[d].write.row)
    <3>1. /\ task[d].write.id \in AlertIds /\ task[d].write.row \in Alert /\ Stored(task[d].write.id)
          /\ task[d].write.row.owner = db[task[d].write.id].owner /\ task[d].write.row.last <= now
      BY <1>1, <2>1, SavingType DEF CopyInv, HoldsCopies, Stored
    <3>2. WritesCounted /\ OwnersKept /\ RowsPast'
      BY <1>1, <2>1, <2>4, <3>1, WriteKeeps
    <3> QED
      BY <1>1, <2>1, <2>2, <3>2, CopyStep
  <2> QED
    BY <1>10, <2>3, <2>4 DEF SaveTriggered, SaveFails
<1>11. ASSUME NEW t \in Requests, CreateCheck(t) PROVE CopyInv'
  <2>1. UNCHANGED <<now, db, version, task>>
    BY <1>11 DEF CreateCheck, queueVars, rowVars
  <2>2. PICK u \in Users, rule \in Rules, recurring \in BOOLEAN :
          req' = [req EXCEPT ![t] = [pc |-> "creating", id |-> Null,
                                     row |-> NewAlert(u, rule, recurring), read |-> 0]]
    BY <1>11 DEF CreateCheck
  <2>3. /\ \A o \in Requests : o # t => req'[o] = req[o]
        /\ req'[t].pc = "creating" /\ req'[t].row.last = Never
    BY <1>2, <2>2 DEF NewAlert
  <2>4. HoldsEdit(req[t])'
    BY <1>2, <2>1, <2>3 DEF HoldsEdit, Never
  <2> QED
    BY <1>1, <1>3, <1>4, <2>1, <2>3, <2>4, CopyStep
<1>12. ASSUME NEW t \in Requests, UpdateFind(t) PROVE CopyInv'
  <2>1. UNCHANGED <<now, db, version, task>>
    BY <1>12 DEF UpdateFind, queueVars, rowVars
  <2>2. PICK a \in AlertIds, patch \in Patches :
          /\ Visible(a)
          /\ req' = [req EXCEPT ![t] = [pc |-> "updating", id |-> a,
                                        row |-> Merged(db[a], patch), read |-> version[a]]]
    BY <1>12 DEF UpdateFind
  <2>3. db[a] \in Alert /\ db[a].last <= now
    BY <1>1, <1>2, <2>2 DEF Visible, Stored, RowsPast
  <2>4. Merged(db[a], patch).owner = db[a].owner /\ Merged(db[a], patch).last = db[a].last
    BY <2>3 DEF Merged, Alert
  <2>5. /\ \A o \in Requests : o # t => req'[o] = req[o]
        /\ req'[t].pc = "updating" /\ req'[t].id = a /\ req'[t].read = version[a]
        /\ req'[t].row.owner = db[a].owner /\ req'[t].row.last = db[a].last
    BY <1>2, <2>2, <2>4
  <2>6. HoldsEdit(req[t])'
    BY <1>2, <2>1, <2>3, <2>5 DEF HoldsEdit
  <2> QED
    BY <1>1, <1>3, <1>4, <2>1, <2>5, <2>6, CopyStep
<1>13. ASSUME NEW t \in Requests, DeleteFind(t) \/ RequestFails(t) PROVE CopyInv'
  <2>1. UNCHANGED <<now, db, version, task>>
    BY <1>13 DEF DeleteFind, RequestFails, queueVars, rowVars
  <2>2. \A o \in Requests : req'[o] = req[o] \/ req'[o].pc \in {"deleting", "done"}
    BY <1>2, <1>13 DEF DeleteFind, RequestFails, Finished
  <2>3. \A o \in Requests : req'[o] = req[o] \/ HoldsEdit(req[o])'
    BY <2>2 DEF HoldsEdit
  <2> QED
    BY <1>1, <1>3, <1>4, <2>1, <2>3, CopyStep
<1>14. ASSUME NEW t \in Requests, CreateSave(t) \/ UpdateSave(t) \/ DeleteSave(t) PROVE CopyInv'
  <2>1. UNCHANGED <<now, task>> /\ req' = [req EXCEPT ![t] = Finished]
    BY <1>14 DEF CreateSave, UpdateSave, DeleteSave, queueVars
  <2>2. \A o \in Requests : req'[o] = req[o] \/ req'[o].pc = "done"
    BY <1>2, <2>1 DEF Finished
  <2>3. \A o \in Requests : req'[o] = req[o] \/ HoldsEdit(req[o])'
    BY <2>2 DEF HoldsEdit
  <2>4. req[t].pc \in {"creating", "updating"} => req[t].row \in Alert /\ req[t].row.last <= now
    BY <1>1, EditType DEF CopyInv, HoldsEdit
  <2>5. WritesCounted /\ OwnersKept /\ RowsPast'
    <3>1. CASE CreateSave(t)
      <4>1. PICK a \in AlertIds :
              ~Stored(a) /\ db' = [db EXCEPT ![a] = req[t].row] /\ version' = [version EXCEPT ![a] = @ + 1]
        BY <3>1 DEF CreateSave
      <4>2. /\ \A b \in AlertIds : b # a => db'[b] = db[b] /\ version'[b] = version[b]
            /\ db'[a] = req[t].row /\ version'[a] = version[a] + 1
        BY <1>2, <4>1
      <4>3. req[t].row.last <= now
        BY <2>4, <3>1 DEF CreateSave
      <4>4. WritesCounted
        BY <4>2 DEF WritesCounted
      <4>5. OwnersKept
        BY <1>2, <2>1, <4>1, <4>2 DEF OwnersKept, Stored
      <4>6. RowsPast'
        BY <1>1, <2>1, <4>2, <4>3 DEF RowsPast, Stored
      <4> QED
        BY <4>4, <4>5, <4>6
    <3>2. CASE UpdateSave(t)
      <4>1. /\ req[t].id \in AlertIds /\ Stored(req[t].id) /\ req[t].row.owner = db[req[t].id].owner
            /\ Write(req[t].id, req[t].row)
        BY <1>1, <3>2, EditType DEF UpdateSave, CopyInv, HoldsEdit, TypeInv, SavesStored, Stored
      <4> QED
        BY <1>1, <2>1, <2>4, <3>2, <4>1, WriteKeeps DEF UpdateSave
    <3>3. CASE DeleteSave(t)
      <4> DEFINE a == req[t].id
                 new == [db[a] EXCEPT !.deleted = TRUE]
      <4>1. a \in AlertIds /\ db[a] \in Alert
        BY <1>1, <3>3, EditType DEF DeleteSave
      <4>2. new \in Alert /\ new.owner = db[a].owner /\ new.last = db[a].last
        BY <4>1 DEF Alert
      <4>3. db' = [db EXCEPT ![a] = new] /\ version' = [version EXCEPT ![a] = @ + 1]
        BY <3>3 DEF DeleteSave
      <4> HIDE DEF a, new
      <4>4. /\ \A b \in AlertIds : b # a => db'[b] = db[b] /\ version'[b] = version[b]
            /\ db'[a] = new /\ version'[a] = version[a] + 1
        BY <1>2, <4>1, <4>3
      <4>5. db[a] # Null /\ new # Null
        BY <4>1, <4>2, EngineAssumption
      <4>6. WritesCounted
        BY <4>4 DEF WritesCounted
      <4>7. OwnersKept
        BY <1>2, <2>1, <4>2, <4>4, <4>5 DEF OwnersKept, Stored
      <4>8. RowsPast'
        BY <1>1, <2>1, <4>1, <4>2, <4>4, <4>5 DEF RowsPast, Stored
      <4> QED
        BY <4>6, <4>7, <4>8
    <3> QED
      BY <1>14, <3>1, <3>2, <3>3
  <2> QED
    BY <1>1, <1>3, <2>1, <2>3, <2>5, CopyStep
<1>15. CASE Tick
  <2>1. UNCHANGED <<db, version, task, req>> /\ now' = now + 1
    BY <1>15 DEF Tick, queueVars, rowVars
  <2>2. WritesCounted /\ OwnersKept
    BY <1>2, <2>1 DEF WritesCounted, OwnersKept, Stored
  <2>3. RowsPast'
    <3>1. \A a \in AlertIds : Stored(a) => db[a].last \in Int
      BY <1>2 DEF Stored, Alert, Never
    <3> QED
      BY <1>1, <1>2, <2>1, <3>1 DEF RowsPast, Stored
  <2> QED
    BY <1>1, <1>3, <2>1, <2>2, <2>3, CopyStep
<1>16. CASE Crash
  <2>1. /\ UNCHANGED <<now, db, version>>
        /\ \A d \in Deliveries : task'[d] = task[d] \/ task'[d] = TaskAt("queued")
        /\ \A t \in Requests : req'[t] = req[t] \/ req'[t].pc = "done"
    BY <1>16 DEF Crash, rowVars, Finished
  <2>2. \A d \in Deliveries : Forgets(d)
    BY <1>5, <2>1 DEF Forgets
  <2>3. \A t \in Requests : req'[t] = req[t] \/ HoldsEdit(req[t])'
    BY <2>1 DEF HoldsEdit
  <2> QED
    BY <1>1, <1>4, <2>1, <2>2, <2>3, CopyStep
<1>17. CASE UNCHANGED vars
  BY <1>1, <1>3, <1>4, <1>17, CopyStep DEF vars
<1> QED
  BY <1>7, <1>8, <1>9, <1>10, <1>11, <1>12, <1>13, <1>14, <1>15, <1>16, <1>17
     DEF Next, Handle, Serve

\* Only a save of its own moves a handler on while a version changes; likewise a request.
LEMMA WhoWrites ==
    ASSUME CopyInv, [Next]_vars, version' # version
    PROVE  /\ \A d \in Deliveries : task[d].pc = "saving" /\ task'[d].pc # "saving" =>
                 Write(task[d].write.id, task[d].write.row)
           /\ \A t \in Requests : req[t].pc = "updating" /\ req'[t].pc = "done" =>
                 Write(req[t].id, req[t].row)
<1>1. task \in [Deliveries -> Task] /\ req \in [Requests -> Job]
  BY DEF CopyInv, FireInv, TypeInv, TypeOK
<1>2. CASE \E e \in Deliveries : SaveTriggered(e) \/ SaveFails(e)
  <2>1. PICK e \in Deliveries : SaveTriggered(e) \/ SaveFails(e)
    BY <1>2
  <2>2. UNCHANGED req /\ Write(task[e].write.id, task[e].write.row)
    BY <2>1 DEF SaveTriggered, SaveFails, rowVars
  <2>3. \A d \in Deliveries : d # e => task'[d] = task[d]
    BY <1>1, <2>1 DEF SaveTriggered, SaveFails, DeadLetter
  <2> QED
    BY <2>2, <2>3
<1>3. CASE \E o \in Requests : CreateSave(o) \/ UpdateSave(o) \/ DeleteSave(o)
  <2>1. PICK o \in Requests : CreateSave(o) \/ UpdateSave(o) \/ DeleteSave(o)
    BY <1>3
  <2>2. UNCHANGED task /\ \A t \in Requests : t # o => req'[t] = req[t]
    BY <1>1, <2>1 DEF CreateSave, UpdateSave, DeleteSave, queueVars
  <2>3. req[o].pc = "updating" => Write(req[o].id, req[o].row)
    BY <2>1 DEF CreateSave, UpdateSave, DeleteSave
  <2> QED
    BY <2>2, <2>3
<1> QED
  BY <1>2, <1>3 DEF Next, Handle, Serve, vars, MarketEvent, Load, PassOver, Trigger, Publish, Ack,
     LoadFails, PublishFails, CreateCheck, UpdateFind, DeleteFind, RequestFails, Tick, Crash, rowVars

LEMMA FreshStep ==
    CopyInv /\ [Next]_vars =>
        [/\ \A d \in Deliveries : EngineSaveComposes(d)
         /\ \A t \in Requests : OwnerSaveComposes(t)]_vars
<1> SUFFICES ASSUME CopyInv, [Next]_vars
             PROVE  /\ \A d \in Deliveries : EngineSaveComposes(d)
                    /\ \A t \in Requests : OwnerSaveComposes(t)
  OBVIOUS
<1>1. TypeInv /\ db \in [AlertIds -> Alert \cup {Null}] /\ now \in Nat
  BY DEF CopyInv, FireInv, TypeInv, TypeOK
<1>2. ASSUME NEW a \in AlertIds, NEW row \in Alert, Stored(a), Write(a, row)
      PROVE  /\ db'[a].rule = row.rule /\ db'[a].recurring = row.recurring
             /\ db'[a].last = row.last /\ db'[a].deleted = db[a].deleted
  <2>1. db' = [db EXCEPT ![a] = [row EXCEPT !.deleted = db[a].deleted]]
    BY <1>2 DEF Write
  <2>2. db'[a] = [row EXCEPT !.deleted = db[a].deleted]
    BY <1>1, <2>1
  <2> QED
    BY <2>2 DEF Alert
<1>3. ASSUME NEW d \in Deliveries, task[d].pc = "saving", version' # version, task'[d].pc # "saving",
             task[d].write.read = version[task[d].write.id]
      PROVE  LET w == task[d].write
             IN  /\ db'[w.id].rule = db[w.id].rule
                 /\ db'[w.id].recurring = db[w.id].recurring
                 /\ db'[w.id].deleted = db[w.id].deleted
                 /\ db[w.id].status = "ACTIVE"
                 /\ db'[w.id].last >= db[w.id].last
  <2> DEFINE w == task[d].write
  <2>1. w.id \in AlertIds /\ w.row \in Alert /\ Stored(w.id)
    BY <1>1, <1>3, SavingType DEF Stored
  <2>2. Write(w.id, w.row)
    BY <1>3, WhoWrites
  <2>3. /\ w.row.rule = db[w.id].rule /\ w.row.recurring = db[w.id].recurring
        /\ db[w.id].status = "ACTIVE" /\ db[w.id].last <= w.row.last
    BY <1>3 DEF CopyInv, HoldsCopies
  <2> HIDE DEF w
  <2>4. /\ db'[w.id].rule = w.row.rule /\ db'[w.id].recurring = w.row.recurring
        /\ db'[w.id].last = w.row.last /\ db'[w.id].deleted = db[w.id].deleted
    BY <1>2, <2>1, <2>2
  <2>5. w.row.last \in Int /\ db[w.id].last \in Int
    BY <1>1, <2>1 DEF Stored, Alert, Never
  <2>6. db'[w.id].last >= db[w.id].last
    BY <2>3, <2>4, <2>5
  <2> QED
    BY <2>3, <2>4, <2>6 DEF w
<1>4. ASSUME NEW t \in Requests, req[t].pc = "updating", version' # version, req'[t].pc = "done",
             req[t].read = version[req[t].id]
      PROVE  /\ db'[req[t].id].last = db[req[t].id].last
             /\ db'[req[t].id].deleted = db[req[t].id].deleted
  <2>1. req[t].id \in AlertIds /\ req[t].row \in Alert /\ Stored(req[t].id)
    BY <1>1, <1>4, EditType, EngineAssumption DEF Stored
  <2>2. Write(req[t].id, req[t].row)
    BY <1>4, WhoWrites
  <2>3. req[t].row.last = db[req[t].id].last
    BY <1>4 DEF CopyInv, HoldsEdit
  <2> QED
    BY <1>2, <2>1, <2>2, <2>3
<1>5. \A d \in Deliveries : EngineSaveComposes(d)
  BY <1>3 DEF EngineSaveComposes
<1>6. \A t \in Requests : OwnerSaveComposes(t)
  BY <1>4 DEF OwnerSaveComposes
<1> QED
  BY <1>5, <1>6

\* Both writers write whole rows, yet a save of a row that nobody changed since it was
\* read leaves the other's columns alone: the engine's keeps the rule and finds the alert
\* ACTIVE, the owner's keeps lastTriggeredAt.
\* (AlertEvaluationEngine.evaluateAndPersist, AlertService.updateAlert and changeStatus.)
THEOREM SavesCompose == Spec => FreshSavesCompose
<1> QED
  BY CopyInvInit, CopyInvNext, FreshStep, PTL DEF Spec, FreshSavesCompose

-----------------------------------------------------------------------------
(* The limit on active alerts.  A user who neither raced nor revived has at *)
(* most one create past the check, and a free place for what it inserts.    *)

Creating(t, u) == req[t].pc = "creating" /\ req[t].row.owner = u

CreatesAlone ==
    \A u \in Users \ (raced \cup revived) :
        /\ Cardinality(ActiveOf(u)) <= MaxActive
        /\ \A t \in Requests : Creating(t, u) =>
              /\ Cardinality(ActiveOf(u)) < MaxActive
              /\ \A o \in Requests : Creating(o, u) => o = t

LimitInv == CopyInv /\ CreatesAlone

\* How many alerts are active is a number, and fewer alerts are no more.
LEMMA ActiveFinite ==
    ASSUME NEW u
    PROVE  IsFiniteSet(ActiveOf(u)) /\ Cardinality(ActiveOf(u)) \in Nat
<1>1. ActiveOf(u) \subseteq AlertIds /\ IsFiniteSet(AlertIds)
  BY EngineAssumption DEF ActiveOf
<1> QED
  BY <1>1, FS_Subset, FS_CardinalityType

\* The steps that activate nothing and pass no check.
LEMMA NoMoreActive ==
    ASSUME LimitInv, CopyInv', raced' = raced, revived \subseteq revived',
           \A u \in Users \ revived' : ActiveOf(u)' \subseteq ActiveOf(u),
           \A t \in Requests : req'[t] = req[t] \/ req'[t].pc # "creating"
    PROVE  LimitInv'
<1>1. ASSUME NEW u \in Users \ (raced' \cup revived')
      PROVE  /\ Cardinality(ActiveOf(u)') <= Cardinality(ActiveOf(u))
             /\ Cardinality(ActiveOf(u)') \in Nat /\ Cardinality(ActiveOf(u)) \in Nat
  <2>1. IsFiniteSet(ActiveOf(u)) /\ Cardinality(ActiveOf(u)) \in Nat
    BY ActiveFinite
  <2>2. ActiveOf(u)' \in SUBSET ActiveOf(u)
    BY <1>1
  <2>3. IsFiniteSet(ActiveOf(u)') /\ Cardinality(ActiveOf(u)') <= Cardinality(ActiveOf(u))
    BY <2>1, <2>2, FS_Subset
  <2> QED
    BY <2>1, <2>3, FS_CardinalityType
<1>2. \A t \in Requests : \A u : Creating(t, u)' => Creating(t, u)
  BY DEF Creating
<1>3. MaxActive \in Nat
  BY EngineAssumption
<1>4. CreatesAlone'
  <2> SUFFICES ASSUME NEW u \in Users \ (raced' \cup revived')
               PROVE  /\ Cardinality(ActiveOf(u)') <= MaxActive
                      /\ \A t \in Requests : Creating(t, u)' =>
                            /\ Cardinality(ActiveOf(u)') < MaxActive
                            /\ \A o \in Requests : Creating(o, u)' => o = t
    BY DEF CreatesAlone
  <2>1. u \in Users \ (raced \cup revived)
    OBVIOUS
  <2>2. /\ Cardinality(ActiveOf(u)) <= MaxActive
        /\ \A t \in Requests : Creating(t, u) =>
              /\ Cardinality(ActiveOf(u)) < MaxActive
              /\ \A o \in Requests : Creating(o, u) => o = t
    BY <2>1 DEF LimitInv, CreatesAlone
  <2> DEFINE m == Cardinality(ActiveOf(u))
             n == Cardinality(ActiveOf(u)')
  <2>3. n <= m /\ m \in Nat /\ n \in Nat
    BY <1>1
  <2>4. m <= MaxActive /\ \A t \in Requests : Creating(t, u) => m < MaxActive
    BY <2>2
  <2> HIDE DEF m, n
  <2>5. n <= MaxActive /\ \A t \in Requests : Creating(t, u) => n < MaxActive
    BY <1>3, <2>3, <2>4
  <2> QED
    BY <1>2, <2>2, <2>5 DEF n
<1> QED
  BY <1>4 DEF LimitInv

LEMMA LimitInvInit == Init => LimitInv
<1> SUFFICES ASSUME Init PROVE LimitInv
  OBVIOUS
<1>1. \A u \in Users : Cardinality(ActiveOf(u)) <= MaxActive
  <2>1. ASSUME NEW u \in Users PROVE Cardinality(ActiveOf(u)) <= MaxActive
    BY ActiveFinite, EngineAssumption DEF Init
  <2> QED
    BY <2>1
<1>2. \A t \in Requests : req[t].pc = "idle"
  BY DEF Init
<1> QED
  BY <1>1, <1>2, CopyInvInit DEF LimitInv, CreatesAlone, Creating

LEMMA LimitInvNext == LimitInv /\ [Next]_vars => LimitInv'
<1> SUFFICES ASSUME LimitInv, [Next]_vars PROVE LimitInv'
  OBVIOUS
<1>1. CopyInv /\ CopyInv' /\ TypeInv /\ RowsPast
  BY CopyInvNext DEF LimitInv, CopyInv, FireInv
<1>2. /\ task \in [Deliveries -> Task] /\ req \in [Requests -> Job]
      /\ db \in [AlertIds -> Alert \cup {Null}]
  BY <1>1 DEF TypeInv, TypeOK
<1>3. UNCHANGED db => \A u : ActiveOf(u)' = ActiveOf(u)
  BY DEF ActiveOf, Visible, Stored
<1>4. ASSUME UNCHANGED <<db, raced, revived>>,
             \A t \in Requests : req'[t] = req[t] \/ req'[t].pc # "creating"
      PROVE  LimitInv'
  BY <1>1, <1>3, <1>4, NoMoreActive
<1>5. ASSUME NEW d \in Deliveries,
             MarketEvent(d) \/ Load(d) \/ PassOver(d) \/ Trigger(d) \/ Publish(d) \/ Ack(d) \/ LoadFails(d)
                \/ PublishFails(d)
      PROVE  LimitInv'
  BY <1>4, <1>5 DEF MarketEvent, Load, PassOver, Trigger, Publish, Ack, LoadFails, PublishFails, rowVars
<1>6. ASSUME NEW d \in Deliveries, SaveTriggered(d) \/ SaveFails(d) PROVE LimitInv'
  <2>1. task[d].pc = "saving" /\ UNCHANGED <<now, req, raced>>
    BY <1>6 DEF SaveTriggered, SaveFails
  <2>2. CASE UNCHANGED rowVars
    BY <1>4, <2>1, <2>2 DEF rowVars
  <2>3. CASE Write(task[d].write.id, task[d].write.row)
    <3>1. /\ task[d].write.id \in AlertIds /\ task[d].write.row \in Alert /\ Stored(task[d].write.id)
          /\ task[d].write.row.owner = db[task[d].write.id].owner /\ task[d].write.row.last <= now
      BY <1>1, <2>1, SavingType DEF CopyInv, HoldsCopies, Stored
    <3>2. /\ revived \subseteq revived'
          /\ \A u \in Users \ revived' : ActiveOf(u)' \subseteq ActiveOf(u)
      BY <1>1, <2>1, <2>3, <3>1, WriteKeeps
    <3> QED
      BY <1>1, <2>1, <3>2, NoMoreActive
  <2> QED
    BY <1>6, <2>2, <2>3 DEF SaveTriggered, SaveFails
<1>7. ASSUME NEW t \in Requests, UpdateFind(t) \/ DeleteFind(t) \/ RequestFails(t) PROVE LimitInv'
  <2>1. UNCHANGED <<db, raced, revived>>
    BY <1>7 DEF UpdateFind, DeleteFind, RequestFails, rowVars
  <2>2. \A o \in Requests : req'[o] = req[o] \/ req'[o].pc # "creating"
    BY <1>2, <1>7 DEF UpdateFind, DeleteFind, RequestFails, Finished
  <2> QED
    BY <1>4, <2>1, <2>2
<1>8. ASSUME NEW t \in Requests, UpdateSave(t) PROVE LimitInv'
  <2>1. /\ req[t].id \in AlertIds /\ Stored(req[t].id) /\ req[t].row.owner = db[req[t].id].owner
        /\ Write(req[t].id, req[t].row) /\ req[t].row \in Alert /\ req[t].row.last <= now
    BY <1>1, <1>8, EditType DEF UpdateSave, CopyInv, HoldsEdit, TypeInv, SavesStored, Stored
  <2>2. UNCHANGED <<now, raced>> /\ req' = [req EXCEPT ![t] = Finished]
    BY <1>8 DEF UpdateSave
  <2>3. /\ revived \subseteq revived'
        /\ \A u \in Users \ revived' : ActiveOf(u)' \subseteq ActiveOf(u)
    BY <1>1, <2>1, <2>2, WriteKeeps
  <2>4. \A o \in Requests : req'[o] = req[o] \/ req'[o].pc # "creating"
    BY <1>2, <2>2 DEF Finished
  <2> QED
    BY <1>1, <2>2, <2>3, <2>4, NoMoreActive
<1>9. ASSUME NEW t \in Requests, DeleteSave(t) PROVE LimitInv'
  <2>1. /\ db' = [db EXCEPT ![req[t].id].deleted = TRUE] /\ UNCHANGED <<raced, revived>>
        /\ req' = [req EXCEPT ![t] = Finished]
    BY <1>9 DEF DeleteSave
  <2>2. req[t].id \in AlertIds /\ db[req[t].id] \in Alert
    BY <1>1, <1>9, EditType DEF DeleteSave
  <2>3. db'[req[t].id].deleted /\ \A b \in AlertIds : b # req[t].id => db'[b] = db[b]
    BY <1>2, <2>1, <2>2 DEF Alert
  <2>4. \A u : ActiveOf(u)' \subseteq ActiveOf(u)
    BY <2>3 DEF ActiveOf, Visible, Stored
  <2>5. \A o \in Requests : req'[o] = req[o] \/ req'[o].pc # "creating"
    BY <1>2, <2>1 DEF Finished
  <2> QED
    BY <1>1, <2>1, <2>4, <2>5, NoMoreActive
<1>10. ASSUME NEW t \in Requests, CreateCheck(t) PROVE LimitInv'
  <2>1. UNCHANGED <<db, revived>> /\ req[t].pc = "idle"
    BY <1>10 DEF CreateCheck, rowVars
  <2>2. PICK u \in Users, rule \in Rules, recurring \in BOOLEAN :
          /\ BelowLimit(u)
          /\ req' = [req EXCEPT ![t] = [pc |-> "creating", id |-> Null,
                                        row |-> NewAlert(u, rule, recurring), read |-> 0]]
          /\ raced' = IF \E o \in Requests : req[o].pc = "creating" /\ req[o].row.owner = u
                      THEN raced \cup {u} ELSE raced
    BY <1>10 DEF CreateCheck
  <2>3. /\ \A o \in Requests : o # t => req'[o] = req[o]
        /\ req'[t].pc = "creating" /\ req'[t].row.owner = u
    BY <1>2, <2>2 DEF NewAlert
  <2>4. \A v \in Users \ (raced' \cup revived') : v \in Users \ (raced \cup revived)
    BY <2>1, <2>2
  <2>5. u \notin raced' => \A o \in Requests : ~Creating(o, u)
    BY <2>2 DEF Creating
  <2>6. \A o \in Requests : \A v : Creating(o, v)' => Creating(o, v) \/ (o = t /\ v = u)
    BY <2>3 DEF Creating
  <2>7. \A v : ActiveOf(v)' = ActiveOf(v)
    BY <1>3, <2>1
  <2>8. Cardinality(ActiveOf(u)) < MaxActive
    BY <2>2 DEF BelowLimit
  <2>9. CreatesAlone'
    <3> SUFFICES ASSUME NEW v \in Users \ (raced' \cup revived')
                 PROVE  /\ Cardinality(ActiveOf(v)') <= MaxActive
                        /\ \A p \in Requests : Creating(p, v)' =>
                              /\ Cardinality(ActiveOf(v)') < MaxActive
                              /\ \A o \in Requests : Creating(o, v)' => o = p
      BY DEF CreatesAlone
    <3>1. /\ Cardinality(ActiveOf(v)) <= MaxActive
          /\ \A p \in Requests : Creating(p, v) =>
                /\ Cardinality(ActiveOf(v)) < MaxActive
                /\ \A o \in Requests : Creating(o, v) => o = p
      BY <2>4 DEF LimitInv, CreatesAlone
    <3> QED
      BY <2>5, <2>6, <2>7, <2>8, <3>1
  <2> QED
    BY <1>1, <2>9 DEF LimitInv
<1>11. ASSUME NEW t \in Requests, CreateSave(t) PROVE LimitInv'
  <2>1. /\ req[t].pc = "creating" /\ UNCHANGED <<raced, revived>>
        /\ req' = [req EXCEPT ![t] = Finished]
    BY <1>11 DEF CreateSave
  <2>2. PICK a \in AlertIds : ~Stored(a) /\ db' = [db EXCEPT ![a] = req[t].row]
    BY <1>11 DEF CreateSave
  <2>b. PICK u \in Users : u = req[t].row.owner
    BY <1>1, <2>1, EditType DEF Alert
  <2>3. db'[a] = req[t].row /\ \A b \in AlertIds : b # a => db'[b] = db[b]
    BY <1>2, <2>2
  <2>4. /\ ActiveOf(u)' \subseteq ActiveOf(u) \cup {a}
        /\ \A v : v # u => ActiveOf(v)' \subseteq ActiveOf(v)
    <3>1. \A v : ActiveOf(v)' \subseteq ActiveOf(v) \cup {a}
      BY <2>3 DEF ActiveOf, Visible, Stored
    <3>2. \A v : v # u => a \notin ActiveOf(v)'
      BY <2>3, <2>b DEF ActiveOf
    <3> QED
      BY <3>1, <3>2
  <2>5. \A o \in Requests : \A v : Creating(o, v)' => Creating(o, v) /\ o # t
    BY <1>2, <2>1 DEF Creating, Finished
  <2>6. Creating(t, u)
    BY <2>1, <2>b DEF Creating
  <2>7. ASSUME NEW v \in Users \ (raced' \cup revived')
        PROVE  /\ Cardinality(ActiveOf(v)') <= MaxActive
               /\ \A p \in Requests : Creating(p, v)' =>
                     /\ Cardinality(ActiveOf(v)') < MaxActive
                     /\ \A o \in Requests : Creating(o, v)' => o = p
    <3>1. v \in Users \ (raced \cup revived)
      BY <2>1
    <3>2. /\ Cardinality(ActiveOf(v)) <= MaxActive
          /\ \A p \in Requests : Creating(p, v) =>
                /\ Cardinality(ActiveOf(v)) < MaxActive
                /\ \A o \in Requests : Creating(o, v) => o = p
      BY <3>1 DEF LimitInv, CreatesAlone
    <3>3. IsFiniteSet(ActiveOf(v)) /\ Cardinality(ActiveOf(v)) \in Nat
      BY ActiveFinite
    <3>4. CASE v = u
      <4>1. Cardinality(ActiveOf(v)) < MaxActive /\ \A o \in Requests : ~Creating(o, v)'
        BY <2>5, <2>6, <3>2, <3>4
      <4>2. /\ IsFiniteSet(ActiveOf(v) \cup {a})
            /\ Cardinality(ActiveOf(v) \cup {a}) \in {Cardinality(ActiveOf(v)), Cardinality(ActiveOf(v)) + 1}
        BY <3>3, FS_AddElement
      <4>a. ActiveOf(v)' \in SUBSET (ActiveOf(v) \cup {a})
        BY <2>4, <3>4
      <4>3. Cardinality(ActiveOf(v)') <= Cardinality(ActiveOf(v) \cup {a}) /\ IsFiniteSet(ActiveOf(v)')
        BY <4>2, <4>a, FS_Subset
      <4>4. Cardinality(ActiveOf(v)') \in Nat
        BY <4>3, FS_CardinalityType
      <4> DEFINE m == Cardinality(ActiveOf(v))
                 n == Cardinality(ActiveOf(v)')
                 k == Cardinality(ActiveOf(v) \cup {a})
      <4>5. m < MaxActive /\ k \in {m, m + 1} /\ n <= k /\ m \in Nat /\ n \in Nat
        BY <3>3, <4>1, <4>2, <4>3, <4>4
      <4> HIDE DEF m, n, k
      <4>6. n <= MaxActive
        BY <4>5, EngineAssumption
      <4> QED
        BY <4>1, <4>6 DEF n
    <3>5. CASE v # u
      <4>1. Cardinality(ActiveOf(v)') <= Cardinality(ActiveOf(v)) /\ IsFiniteSet(ActiveOf(v)')
        BY <2>4, <3>3, <3>5, FS_Subset
      <4>2. Cardinality(ActiveOf(v)') \in Nat
        BY <4>1, FS_CardinalityType
      <4> DEFINE m == Cardinality(ActiveOf(v))
                 n == Cardinality(ActiveOf(v)')
      <4>3. n <= m /\ m \in Nat /\ n \in Nat /\ m <= MaxActive
        BY <3>2, <3>3, <4>1, <4>2
      <4>4. \A p \in Requests : Creating(p, v) => m < MaxActive
        BY <3>2
      <4> HIDE DEF m, n
      <4>5. n <= MaxActive /\ \A p \in Requests : Creating(p, v) => n < MaxActive
        BY <4>3, <4>4, EngineAssumption
      <4> QED
        BY <2>5, <3>2, <4>5 DEF n
    <3> QED
      BY <3>4, <3>5
  <2>8. CreatesAlone'
    BY <2>7 DEF CreatesAlone
  <2> QED
    BY <1>1, <2>8 DEF LimitInv
<1>12. CASE Tick
  BY <1>4, <1>12 DEF Tick, rowVars
<1>13. CASE Crash
  <2>1. UNCHANGED <<db, raced, revived>> /\ \A t \in Requests : req'[t] = req[t] \/ req'[t].pc # "creating"
    BY <1>13 DEF Crash, rowVars, Finished
  <2> QED
    BY <1>4, <2>1
<1>14. CASE UNCHANGED vars
  BY <1>4, <1>14 DEF vars
<1> QED
  BY <1>5, <1>6, <1>7, <1>8, <1>9, <1>10, <1>11, <1>12, <1>13, <1>14 DEF Next, Handle, Serve

\* However requests, triggers, failures and restarts interleave, a user passes the limit
\* on active alerts only after two of their creates were past the check at once, or after
\* an alert of theirs was written back to ACTIVE, which no handler checks.
\* (AlertService.createAlert and changeStatus, countActiveByUserId.)
THEOREM LimitKept == Spec => []LimitHoldsUnlessRaced
<1>1. LimitInv => LimitHoldsUnlessRaced
  BY DEF LimitInv, CreatesAlone, LimitHoldsUnlessRaced
<1> QED
  BY <1>1, LimitInvInit, LimitInvNext, PTL DEF Spec
=============================================================================
