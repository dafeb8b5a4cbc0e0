----------------------------- MODULE UpsertRows -----------------------------
(***************************************************************************)
(* The tables whose writers look for a row and then create or update it,   *)
(* under a unique index: user_preferences by user, notification_templates  *)
(* by event type.  save of a row that exists reads it a second time, and   *)
(* updates the columns that differ from what this read returned.           *)
(***************************************************************************)
EXTENDS Naturals, FiniteSets

CONSTANTS
    Users, EventTypes, \* the keys of user_preferences and of notification_templates
    Fields, Values,    \* their columns and what may stand in one
    Saves,             \* PUT /preferences and POST /templates
    Nothing

ASSUME RowsAssumption ==
    /\ Users \cap EventTypes = {}
    /\ Nothing \notin Users \cup EventTypes \cup [Fields -> Values]

VARIABLES
    row,     \* key -> the columns of its row, Nothing if there is none
    save,    \* save -> where its handler is, what it was sent, what it will change
    latest,  \* history: key -> what the last save to write it was sent
    torn     \* history: keys whose row was last updated from a read that was no longer true

rowsVars == <<row, save, latest, torn>>

Keys == Users \cup EventTypes
Row == [Fields -> Values]

Idle == [pc |-> "new", key |-> Nothing, sent |-> Nothing, base |-> Nothing]

RowsInit ==
    /\ row \in [Keys -> Row \cup {Nothing}]
    /\ save = [s \in Saves |-> Idle]
    /\ latest = row
    /\ torn = {}

Step(s, pc) == save' = [save EXCEPT ![s].pc = pc]
-----------------------------------------------------------------------------
(* PUT /preferences and POST /templates. *)

\* The repository finds the row of the key, or none.
Look(s, k) ==
    /\ save[s].pc = "new"
    /\ \E sent \in Row :
          save' = [save EXCEPT ![s] = [pc |-> IF row[k] = Nothing THEN "insert" ELSE "read",
                                       key |-> k, sent |-> sent, base |-> Nothing]]
    /\ UNCHANGED <<row, latest, torn>>

\* PUT /preferences, whose body was validated: findOne by user.
FindPreferences(s) == \E u \in Users : Look(s, u)

\* POST /templates with the right key: findOne by event type.
FindTemplate(s) == \E e \in EventTypes : Look(s, e)

\* POST /templates without the right key, or not configured: nothing is read.
DenyTemplate(s) ==
    /\ save[s].pc = "new"
    /\ Step(s, "denied")
    /\ UNCHANGED <<row, latest, torn>>

\* INSERT; the unique index refuses the second of two first saves.
InsertRow(s) ==
    /\ save[s].pc = "insert"
    /\ LET k == save[s].key IN
          IF row[k] = Nothing
          THEN /\ row' = [row EXCEPT ![k] = save[s].sent]
               /\ latest' = [latest EXCEPT ![k] = save[s].sent]
               /\ Step(s, "saved")
          ELSE Step(s, "refused") /\ UNCHANGED <<row, latest>>
    /\ UNCHANGED torn

\* Mutant of Assigned: a column is forgotten.
Assigned_Forgets == Fields \ {CHOOSE f \in Fields : TRUE}

\* The columns of the loaded row that the request overwrites.
Assigned == Fields

\* repository.save of a row with an id reads it again.
ReadAgain(s) ==
    /\ save[s].pc = "read"
    /\ save' = [save EXCEPT ![s].pc = "update", ![s].base = row[save[s].key]]
    /\ UNCHANGED <<row, latest, torn>>

\* UPDATE of the columns in which the request differs from that read.
UpdateRow(s) ==
    /\ save[s].pc = "update"
    /\ LET k == save[s].key
           differs == {f \in Assigned : save[s].sent[f] # save[s].base[f]}
       IN  /\ row' = [row EXCEPT ![k] = [f \in Fields |-> IF f \in differs THEN save[s].sent[f] ELSE @[f]]]
           /\ latest' = [latest EXCEPT ![k] = save[s].sent]
           /\ torn' = IF row[k] = save[s].base THEN torn \ {k} ELSE torn \cup {k}
    /\ Step(s, "saved")

\* A query fails.
SaveStops(s) ==
    /\ save[s].pc \in {"insert", "read", "update"}
    /\ Step(s, "failed")
    /\ UNCHANGED <<row, latest, torn>>

RowsNext ==
    \/ \E s \in Saves :
          \/ FindPreferences(s) \/ FindTemplate(s) \/ DenyTemplate(s)
          \/ InsertRow(s) \/ ReadAgain(s) \/ UpdateRow(s) \/ SaveStops(s)

RowsSpec == RowsInit /\ [][RowsNext]_rowsVars
-----------------------------------------------------------------------------
(* Types: the rows of both tables and the handlers of their writers. *)
RowsTypeOK ==
    /\ row \in [Keys -> Row \cup {Nothing}]
    /\ save \in [Saves -> [pc : {"new", "insert", "read", "update", "saved", "refused", "denied", "failed"},
                           key : Keys \cup {Nothing}, sent : Row \cup {Nothing}, base : Row \cup {Nothing}]]
    /\ torn \subseteq Keys

\* PreferencesRepository.save, TemplateRepository.save: a row is what the last save to write
\* it was sent, column for column.  Only an update that read the row before another one
\* changed it leaves columns of two requests, until the next save of that key.
RowIsLatestSave == \A k \in Keys \ torn : row[k] = latest[k]
=============================================================================
