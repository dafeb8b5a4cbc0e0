----------------------------- MODULE EntryForms -----------------------------
(***************************************************************************)
(* The other forms of the web client: a trade, a new portfolio, a ticker   *)
(* for the watchlist, which wait for the server and keep what was written  *)
(* until it has it; and those that only pretend: the settings, a forgotten *)
(* password, and the buttons of an asset's page.                           *)
(***************************************************************************)
EXTENDS Naturals, FiniteSets

CONSTANTS
    Texts,      \* what the user may write, each once
    Overlong,   \* those of them that the form takes and the server refuses
    Submits,    \* presses of a button
    Empty,      \* what a form takes for nothing: blanks, zero
    Views       \* bound: how often the user opens or closes a dialog

ASSUME EntryAssumption ==
    /\ IsFiniteSet(Texts) /\ Overlong \subseteq Texts
    /\ Empty \notin Texts
    /\ Views \in Nat

VARIABLES
    entry,     \* form -> what its inputs hold
    shown,     \* form -> its dialog is open; the ticker's input always is
    submit,    \* press -> its request
    recorded,  \* rows that the server has: the press that made each
    views,
    wrote,     \* history: form -> what the user wrote in it last
    overtaken, \* history: forms that were written in while a press of theirs was on its way
    told,      \* pretended saves: what the page says it did
    busy       \* pretended saves: under way

entryVars == <<entry, shown, submit, recorded, views, wrote, overtaken, told, busy>>
pretendedVars == <<told, busy>>

Forms == {"trade", "portfolio", "ticker"}
Pretended == {"settings", "forgot", "watchlisted", "alert"}
NotSent == [pc |-> "new", form |-> "ticker", text |-> Empty]

EntryInit ==
    /\ entry = [f \in Forms |-> Empty]
    /\ shown = [f \in Forms |-> f = "ticker"]
    /\ submit = [s \in Submits |-> NotSent]
    /\ recorded = {}
    /\ views = 0
    /\ wrote = entry
    /\ overtaken = {}
    /\ told = {} /\ busy = {}

OnItsWay(f) == \E s \in Submits : submit[s].form = f /\ submit[s].pc \in {"sent", "stored"}
-----------------------------------------------------------------------------
\* The dialogs keep what was written when they are closed.
OpenOrClose(f) ==
    /\ f # "ticker"
    /\ views < Views /\ views' = views + 1
    /\ shown' = [shown EXCEPT ![f] = ~@]
    /\ UNCHANGED <<entry, submit, recorded, wrote, overtaken, pretendedVars>>

Write(f, t) ==
    /\ shown[f]
    /\ t \notin {wrote[g] : g \in Forms} \cup {submit[s].text : s \in Submits}
    /\ entry' = [entry EXCEPT ![f] = t]
    /\ wrote' = [wrote EXCEPT ![f] = t]
    /\ overtaken' = IF OnItsWay(f) THEN overtaken \cup {f} ELSE overtaken
    /\ UNCHANGED <<shown, submit, recorded, views, pretendedVars>>

\* The button stays enabled while the request is on its way.
Press(s, f) ==
    /\ shown[f] /\ entry[f] # Empty
    /\ submit[s].pc = "new"
    /\ submit' = [submit EXCEPT ![s] = [pc |-> "sent", form |-> f, text |-> entry[f]]]
    /\ UNCHANGED <<entry, shown, recorded, views, wrote, overtaken, pretendedVars>>

\* onSubmit of the dialog of trades, with currency ARS added by the portfolio's page.
PressTrade(s) == Press(s, "trade")

\* handleCreatePortfolio trims the name.
PressPortfolio(s) == Press(s, "portfolio")

\* handleAddTicker trims the ticker and makes it upper case.
PressTicker(s) == Press(s, "ticker")

\* The server has a row with what the press sent.
HasRow(s) == \E r \in recorded : submit[r].form = submit[s].form /\ submit[r].text = submit[s].text

\* RecordTradeRequest, CreatePortfolioRequest, AddWatchlistItemRequest.  Portfolios and trades
\* are made as often as they are asked for; a watchlist has an asset once, and the request for
\* one that is listed is answered with its row.
Recorded(s) ==
    /\ submit[s].pc = "sent"
    /\ submit[s].text \notin Overlong
    /\ recorded' = IF submit[s].form = "ticker" /\ HasRow(s) THEN recorded ELSE recorded \cup {s}
    /\ submit' = [submit EXCEPT ![s].pc = "stored"]
    /\ UNCHANGED <<entry, shown, views, wrote, overtaken, pretendedVars>>

Succeeds(s) ==
    /\ submit[s].pc = "stored"
    /\ submit' = [submit EXCEPT ![s].pc = "ok"]
    /\ entry' = [entry EXCEPT ![submit[s].form] = Empty]
    /\ UNCHANGED <<recorded, views, wrote, overtaken, pretendedVars>>

\* The dialog is closed and the form reset.
TradeRecorded(s) == submit[s].form = "trade" /\ Succeeds(s) /\ shown' = [shown EXCEPT !["trade"] = FALSE]
PortfolioCreated(s) == submit[s].form = "portfolio" /\ Succeeds(s) /\ shown' = [shown EXCEPT !["portfolio"] = FALSE]
TickerAdded(s) == submit[s].form = "ticker" /\ Succeeds(s) /\ UNCHANGED shown

\* Mutant of AfterFailure: the form is reset after a failure too, as the dialog of alerts does.
AfterFailure_Reset(s) == [entry EXCEPT ![submit[s].form] = Empty]

\* The reset and the closing come after the await, which throws.
AfterFailure(s) == entry

\* The request is refused, or its answer is lost.
Fails(s) ==
    /\ submit[s].pc \in {"sent", "stored"}
    /\ submit' = [submit EXCEPT ![s].pc = "failed"]
    /\ entry' = AfterFailure(s)
    /\ UNCHANGED <<shown, recorded, views, wrote, overtaken, pretendedVars>>
-----------------------------------------------------------------------------
(* What pretends: no request is made. *)

\* onSubmit of the settings and of the forgotten password wait a second.  The form of the
\* password is gone once the page has said that the mail was sent.
Pretend(x) ==
    /\ x \in {"settings", "forgot"} \ busy
    /\ x = "forgot" => x \notin told
    /\ busy' = busy \cup {x}
    /\ UNCHANGED <<entry, shown, submit, recorded, views, wrote, overtaken, told>>

Pretends(x) ==
    /\ x \in busy
    /\ busy' = busy \ {x}
    /\ told' = told \cup {x}
    /\ UNCHANGED <<entry, shown, submit, recorded, views, wrote, overtaken>>

\* handleToggleWatchlist and handleCreateAlert, for a user who is signed in.
PretendWatchlist ==
    /\ told' = IF "watchlisted" \in told THEN told \ {"watchlisted"} ELSE told \cup {"watchlisted"}
    /\ UNCHANGED <<entry, shown, submit, recorded, views, wrote, overtaken, busy>>

PretendAlert ==
    /\ told' = told \cup {"alert"}
    /\ UNCHANGED <<entry, shown, submit, recorded, views, wrote, overtaken, busy>>

EntryNext ==
    \/ \E f \in Forms : OpenOrClose(f) \/ \E t \in Texts : Write(f, t)
    \/ \E s \in Submits :
          \/ PressTrade(s) \/ PressPortfolio(s) \/ PressTicker(s) \/ Recorded(s)
          \/ TradeRecorded(s) \/ PortfolioCreated(s) \/ TickerAdded(s) \/ Fails(s)
    \/ \E x \in Pretended : Pretend(x) \/ Pretends(x)
    \/ PretendWatchlist \/ PretendAlert

EntrySpec == EntryInit /\ [][EntryNext]_entryVars
-----------------------------------------------------------------------------
(* Types: inputs, dialogs and requests. *)
EntryTypeOK ==
    /\ entry \in [Forms -> Texts \cup {Empty}] /\ wrote \in [Forms -> Texts \cup {Empty}]
    /\ shown \in [Forms -> BOOLEAN]
    /\ submit \in [Submits -> [pc : {"new", "sent", "stored", "ok", "failed"}, form : Forms,
                               text : Texts \cup {Empty}]]
    /\ recorded \subseteq Submits
    /\ told \subseteq Pretended /\ busy \subseteq Pretended

\* The handlers of the forms: what the user wrote last stays in the form until the server has
\* it, through failures and through closing its dialog, unless they wrote it while an
\* earlier press was on its way, whose success empties the form.
WrittenStays ==
    \A f \in Forms \ overtaken :
        \/ entry[f] = wrote[f]
        \/ \E s \in recorded : submit[s].form = f /\ submit[s].text = wrote[f]
=============================================================================
