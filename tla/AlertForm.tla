----------------------------- MODULE AlertForm -----------------------------
(***************************************************************************)
(* The dialog of the alerts page that creates and edits alerts, and what   *)
(* the server takes of it.  The form holds values; its two menus, for the  *)
(* type and the condition, show the item picked last, whatever the form    *)
(* holds since.  Saving does not wait: the form goes back to what the      *)
(* dialog began with, and the page closes the dialog, whichever is open    *)
(* then, when the server answers that the alert is saved.                  *)
(***************************************************************************)
EXTENDS Naturals, FiniteSets

CONSTANTS
    Alerts,      \* rows of the alerts table, of one user
    Presses,     \* presses of the button that saves
    Asked,       \* those alerts that the user has when the page comes up
    AlertTypes,  \* the types and conditions that occur
    Conditions,
    NewAlert,    \* null as alertToEdit: the dialog creates
    NoRow,
    MaxListed,   \* 20, the active alerts a user may have
    MaxPicks     \* bound: values the user picks

ASSUME FormAssumption ==
    /\ IsFiniteSet(Alerts) /\ Asked \subseteq Alerts
    /\ NewAlert \notin Alerts
    /\ AlertTypes \subseteq {"PRICE", "PCT_CHANGE", "DOLLAR", "RISK", "PORTFOLIO"}
    /\ Conditions \subseteq {"ABOVE", "BELOW", "CROSSES", "PCT_UP", "PCT_DOWN"}
    /\ "PRICE" \in AlertTypes /\ "ABOVE" \in Conditions
    /\ MaxListed \in Nat /\ MaxPicks \in Nat

VARIABLES
    saved,   \* alert -> its row: what can be edited
    dialog,  \* the dialog
    press,   \* press -> its request
    picks,
    shownAs, \* history: alert -> what the form showed when its last edit was sent, NoRow before
             \* there was such an alert
    reset    \* history: alerts of which a form was sent that a save had reset

formVars == <<saved, dialog, press, picks, shownAs, reset>>

OnAsset == {"PRICE", "PCT_CHANGE"}

\* What the user can write as the asset: nothing, a ticker, or the id of an asset.
AssetTexts == {"", "ticker", "id"}

\* The threshold stands for channels and recurrence too: they are held and shown alike.
Thresholds3 == 0..2
Form == [type : AlertTypes, condition : Conditions, asset : AssetTexts, threshold : Thresholds3]

ASSUME NoRowAssumption == NoRow \notin Form

\* defaultValues.
Defaults == [type |-> "PRICE", condition |-> "ABOVE", asset |-> "", threshold |-> 0]

\* What the reset at the opening of the dialog fills in: null as asset is "" in the form.
Filled(target) == IF target = NewAlert THEN Defaults ELSE saved[target]

Closed == [open |-> FALSE, target |-> NewAlert, held |-> Defaults, begun |-> Defaults,
           type |-> Defaults.type, condition |-> Defaults.condition, sent |-> FALSE]

NotPressed == [pc |-> "new", target |-> NewAlert, body |-> Defaults]

FormInit ==
    /\ \E a \in [Asked -> {f \in Form : f.threshold = 1 /\ (f.asset = "id" <=> f.type \in OnAsset) /\ f.asset # "ticker"
                                        /\ (f.condition \in {"PCT_UP", "PCT_DOWN"} <=> f.type = "PCT_CHANGE")}] :
          saved = [x \in Alerts |-> IF x \in Asked THEN a[x] ELSE NoRow]
    /\ dialog = Closed
    /\ press = [p \in Presses |-> NotPressed]
    /\ picks = 0
    /\ shownAs = saved
    /\ reset = {}

Rows == {a \in Alerts : saved[a] # NoRow}
-----------------------------------------------------------------------------
(* The dialog. *)

\* alertToEdit and open change, and the effect resets the form; the menus come up anew.
Begin(target) ==
    LET f == Filled(target) IN
    dialog' = [open |-> TRUE, target |-> target, held |-> f, begun |-> f,
               type |-> f.type, condition |-> f.condition, sent |-> FALSE]

\* handleCreate counts the active alerts of the list.
OpenToCreate ==
    /\ ~dialog.open
    /\ Cardinality(Rows) < MaxListed
    /\ Begin(NewAlert)
    /\ UNCHANGED <<saved, press, picks, shownAs, reset>>

OpenToEdit(a) ==
    /\ ~dialog.open
    /\ a \in Rows
    /\ Begin(a)
    /\ UNCHANGED <<saved, press, picks, shownAs, reset>>

Cancel ==
    /\ dialog.open
    /\ dialog' = [dialog EXCEPT !.open = FALSE]
    /\ UNCHANGED <<saved, press, picks, shownAs, reset>>

Picks ==
    /\ dialog.open
    /\ picks < MaxPicks /\ picks' = picks + 1
    /\ UNCHANGED <<saved, press, shownAs, reset>>

\* A menu says nothing when the item it shows is picked again.
PickType(t) ==
    /\ Picks
    /\ t # dialog.type
    /\ dialog' = [dialog EXCEPT !.held.type = t, !.type = t]

\* The conditions that the menu has for the type held.
ConditionsOf(t) == IF t = "PCT_CHANGE" THEN {"PCT_UP", "PCT_DOWN"} ELSE {"ABOVE", "BELOW", "CROSSES"}

PickCondition(c) ==
    /\ Picks
    /\ c \in ConditionsOf(dialog.held.type)
    /\ c # dialog.condition
    /\ dialog' = [dialog EXCEPT !.held.condition = c, !.condition = c]

WriteAsset(x) ==
    /\ Picks
    /\ dialog.held.type \in OnAsset
    /\ dialog' = [dialog EXCEPT !.held.asset = x]

WriteThreshold(v) ==
    /\ Picks
    /\ dialog' = [dialog EXCEPT !.held.threshold = v]
-----------------------------------------------------------------------------
(* Saving. *)

\* alertFormSchema, and what onSubmit asks for.
FormTakes(f) == f.threshold > 0 /\ (f.type \in OnAsset => f.asset # "")

\* What the user sees: the inputs show what is held, the menus what was picked.
Shown == [dialog.held EXCEPT !.type = dialog.type, !.condition = dialog.condition]

\* handleSubmit and onSubmit: onSave is not awaited, and the form is reset at once.
Save(p) ==
    /\ dialog.open
    /\ press[p].pc = "new"
    /\ FormTakes(dialog.held)
    /\ press' = [press EXCEPT ![p] = [pc |-> "sent", target |-> dialog.target, body |-> dialog.held]]
    /\ dialog' = [dialog EXCEPT !.held = dialog.begun, !.sent = TRUE]
    /\ IF dialog.target = NewAlert THEN UNCHANGED <<shownAs, reset>>
       ELSE /\ shownAs' = [shownAs EXCEPT ![dialog.target] = Shown]
            /\ reset' = IF dialog.sent \/ \E q \in Presses : press[q].pc = "sent" /\ press[q].target = dialog.target
                        THEN reset \cup {dialog.target} ELSE reset
    /\ UNCHANGED <<saved, picks>>

\* CreateAlertRequest and UpdateAlertRequest: "" is not left out, and neither it nor a
\* ticker is a UUID.
RequestTakes(f) == f.asset = "id"

\* createAlert: below the limit, the row has the values of the body.
Created(p) ==
    /\ press[p].pc = "sent" /\ press[p].target = NewAlert
    /\ RequestTakes(press[p].body)
    /\ Cardinality(Rows) < MaxListed
    /\ \E a \in {x \in Alerts : shownAs[x] = NoRow} :
          /\ saved' = [saved EXCEPT ![a] = press[p].body]
          /\ shownAs' = [shownAs EXCEPT ![a] = press[p].body]
    /\ press' = [press EXCEPT ![p].pc = "stored"]
    /\ UNCHANGED <<dialog, picks, reset>>

\* Mutant of Merged: the condition of the row stays.
Merged_Partly(row, f) == [f EXCEPT !.condition = row.condition]

\* updateAlert merges: the form sends every field, so each becomes that of the body.
Merged(row, f) == f

Updated(p) ==
    /\ press[p].pc = "sent" /\ press[p].target \in Rows
    /\ RequestTakes(press[p].body)
    /\ saved' = [saved EXCEPT ![press[p].target] = Merged(@, press[p].body)]
    /\ press' = [press EXCEPT ![p].pc = "stored"]
    /\ UNCHANGED <<dialog, picks, shownAs, reset>>

\* Another tab of the user, or handleDelete.
DeleteAlert(a) ==
    /\ a \in Rows
    /\ saved' = [saved EXCEPT ![a] = NoRow]
    /\ UNCHANGED <<dialog, press, picks, shownAs, reset>>

\* handleSave: whatever dialog is open now is closed.
SaveSucceeds(p) ==
    /\ press[p].pc = "stored"
    /\ press' = [press EXCEPT ![p].pc = "ok"]
    /\ dialog' = [dialog EXCEPT !.open = FALSE]
    /\ UNCHANGED <<saved, picks, shownAs, reset>>

\* The request is refused or its answer is lost: the dialog stays, with the form reset.
SaveFails(p) ==
    /\ press[p].pc \in {"sent", "stored"}
    /\ press' = [press EXCEPT ![p].pc = "failed"]
    /\ UNCHANGED <<saved, dialog, picks, shownAs, reset>>

FormNext ==
    \/ OpenToCreate \/ Cancel
    \/ \E a \in Alerts : OpenToEdit(a) \/ DeleteAlert(a)
    \/ \E t \in AlertTypes : PickType(t)
    \/ \E c \in Conditions : PickCondition(c)
    \/ \E x \in AssetTexts : WriteAsset(x)
    \/ \E v \in Thresholds3 : WriteThreshold(v)
    \/ \E p \in Presses : Save(p) \/ Created(p) \/ Updated(p) \/ SaveSucceeds(p) \/ SaveFails(p)

FormSpec == FormInit /\ [][FormNext]_formVars
-----------------------------------------------------------------------------
(* Types: rows, dialog and requests. *)
FormTypeOK ==
    /\ saved \in [Alerts -> Form \cup {NoRow}]
    /\ dialog \in [open : BOOLEAN, target : Alerts \cup {NewAlert}, held : Form, begun : Form,
                   type : AlertTypes, condition : Conditions, sent : BOOLEAN]
    /\ press \in [Presses -> [pc : {"new", "sent", "stored", "ok", "failed"},
                              target : Alerts \cup {NewAlert}, body : Form]]
    /\ reset \subseteq Alerts

\* onSubmit and the effect of the dialog: when the page says that an edit was saved, and no
\* other save of that alert is open, its row is what the form showed when the user pressed
\* the button, unless they pressed it again on a form that the first press had reset, or
\* with another save of the alert still on its way.
EditsAreShown ==
    \A a \in Rows \ reset :
        (/\ \E p \in Presses : press[p].target = a /\ press[p].pc = "ok"
         /\ \A p \in Presses : press[p].target = a => press[p].pc = "ok")
            => saved[a] = shownAs[a]
=============================================================================
