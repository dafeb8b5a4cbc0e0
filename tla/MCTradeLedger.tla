---------------------------- MODULE MCTradeLedger ----------------------------
(***************************************************************************)
(* Portfolios for TLC: the trades of one, and what a user is shown of the  *)
(* value of what one holds.  The views price the quantities that the       *)
(* trades leave, so a behaviour is about one of the two, its focus.        *)
(***************************************************************************)
EXTENDS TradeLedger, PortfolioReads, TLC

VARIABLE focus

LedgerInit ==
    /\ focus \in {"trades", "views"}
    /\ Init /\ ReadsInit
    /\ focus # "views" => held = {}

LedgerNext ==
    /\ \/ focus = "trades" /\ Next /\ UNCHANGED readsVars
       \/ focus = "views" /\ ReadsNext /\ UNCHANGED vars
    /\ UNCHANGED focus

LedgerSpec == LedgerInit /\ [][LedgerNext]_<<focus, vars, readsVars>>

\* Requests, and assets, are interchangeable: no property orders or chooses them.
LedgerSymmetry == Permutations(Requests) \cup Permutations(Assets)

(* Types of both. *)
LedgerTypeOK == TypeOK /\ ReadsTypeOK

\* What a user is shown of a portfolio is what its trades made of it: the quantities, and their
\* value on the chart of the same request.
PortfolioShowsTrades == HoldingsShowNet /\ ChartMeetsHoldings
=============================================================================
