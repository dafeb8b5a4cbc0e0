----------------------------- MODULE MCAccounts -----------------------------
(***************************************************************************)
(* Accounts and what their users send, for TLC: the login lockout, the     *)
(* upserted rows of preferences and templates, the watchlist, the demo     *)
(* account, the session and the forms of the web client, and the ingestion *)
(* of events.  They share no state, so a behaviour is about one of them,   *)
(* its focus, and the others keep an initial state.                        *)
(***************************************************************************)
EXTENDS LoginLockout, UpsertRows, WatchlistRows, DemoAccount, SessionClient,
        AlertForm, EntryForms, IdempotentIngestion

VARIABLE focus

dataVars == <<lockoutVars, rowsVars, watchlistVars, demoVars>>
pageVars == <<formVars, entryVars>>
accountsVars == <<focus, dataVars, sessionVars, pageVars, vars>>

AccountsInit ==
    /\ focus \in {"lockout", "rows", "watchlist", "demo", "session", "forms", "entries", "ingestion"}
    /\ LockoutInit /\ RowsInit /\ WatchlistInit /\ DemoInit /\ SessionInit
    /\ FormInit /\ EntryInit /\ Init
    /\ focus # "lockout" => ~registered
    /\ focus # "rows" => \A k \in Keys : row[k] = Nothing
    /\ focus # "demo" => clock = 0
    /\ focus # "forms" => saved = [a \in Alerts |-> IF a \in Asked THEN [Defaults EXCEPT !.asset = "id", !.threshold = 1]
                                                    ELSE NoRow]

AccountsNext ==
    /\ \/ /\ focus = "lockout" /\ LockoutNext
          /\ UNCHANGED <<rowsVars, watchlistVars, demoVars, sessionVars, pageVars, vars>>
       \/ /\ focus = "rows" /\ RowsNext
          /\ UNCHANGED <<lockoutVars, watchlistVars, demoVars, sessionVars, pageVars, vars>>
       \/ /\ focus = "watchlist" /\ WatchlistNext
          /\ UNCHANGED <<lockoutVars, rowsVars, demoVars, sessionVars, pageVars, vars>>
       \/ /\ focus = "demo" /\ DemoNext
          /\ UNCHANGED <<lockoutVars, rowsVars, watchlistVars, sessionVars, pageVars, vars>>
       \/ focus = "session" /\ SessionNext /\ UNCHANGED <<dataVars, pageVars, vars>>
       \/ focus = "forms" /\ FormNext /\ UNCHANGED <<dataVars, sessionVars, entryVars, vars>>
       \/ focus = "entries" /\ EntryNext /\ UNCHANGED <<dataVars, sessionVars, formVars, vars>>
       \/ focus = "ingestion" /\ Next /\ UNCHANGED <<dataVars, sessionVars, pageVars>>
    /\ UNCHANGED focus

AccountsSpec == AccountsInit /\ [][AccountsNext]_accountsVars /\ SessionFairness

(* Types of all components. *)
AccountsTypeOK ==
    /\ LockoutTypeOK /\ RowsTypeOK /\ WatchlistTypeOK /\ DemoTypeOK /\ SessionTypeOK
    /\ FormTypeOK /\ EntryTypeOK /\ TypeOK

\* The forms of the web client: what was shown when a save was asked for is what is saved, and
\* what was written is not lost before the server has it.
FormsKeepWord == EditsAreShown /\ WrittenStays
=============================================================================
