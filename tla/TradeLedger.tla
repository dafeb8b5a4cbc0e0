----------------------------- MODULE TradeLedger -----------------------------
(***************************************************************************)
(* One portfolio and its trades: TradeService.recordTrade checks a sale    *)
(* against the trades it reads and saves it after further awaits, and      *)
(* HoldingsCalculator turns the trades into lots, first in first out, in   *)
(* the order of their dates, which is not the order they were recorded in. *)
(***************************************************************************)
EXTENDS Integers, SequencesExt

CONSTANTS
    Assets,
    Requests,   \* REST requests, each with its handler
    Quantities, \* quantities that requests name
    Null,
    MaxTime     \* bound: the clock stops here

ASSUME LedgerAssumption ==
    /\ Quantities \subseteq Nat \ {0}
    /\ MaxTime \in Nat
    /\ Null \notin Nat

VARIABLES
    now,
    live,     \* the portfolio is not deleted
    trades,   \* the rows of trades, in the order they were inserted
    req,
    sales,    \* history: asset -> how many sales were inserted
    overtaken \* history: assets with a sale inserted after another one its check did not see

vars == <<now, live, trades, req, sales, overtaken>>

Sides == {"BUY", "SELL"}
Trade == [asset: Assets, side: Sides, quantity: Quantities, executedAt: Nat]

\* What a body asks for: executedAt may be missing.
Order == [asset: Assets, side: Sides, quantity: Quantities, executedAt: Nat \cup {Null}]

Job == [pc: {"idle", "opened", "saving", "deleting", "done"},
        order: Order \cup {Null}, read: Nat]

Finished == [pc |-> "done", order |-> Null, read |-> 0]

-----------------------------------------------------------------------------
(* HoldingsCalculator. *)

Signed(trade) == IF trade.side = "BUY" THEN trade.quantity ELSE -trade.quantity
NetOf(s) == FoldLeft(LAMBDA sum, trade : sum + Signed(trade), 0, s)
TradesOf(asset) == FoldLeft(LAMBDA s, trade : IF trade.asset = asset THEN Append(s, trade) ELSE s, <<>>, trades)

Lesser(x, y) == IF x <= y THEN x ELSE y

\* Mutant of Consume: the last purchase is sold first.
Consume_Lifo(lots, quantity) ==
    Reverse(FoldRight(LAMBDA lot, acc :
                LET used == Lesser(acc.remaining, lot.quantity) IN
                [remaining |-> acc.remaining - used,
                 kept |-> IF used = lot.quantity THEN acc.kept
                          ELSE Append(acc.kept, [lot EXCEPT !.quantity = @ - used])],
            lots, [remaining |-> quantity, kept |-> <<>>]).kept)

\* A sale takes from the head lot until nothing remains to be sold, or no lot;
\* what it could not take is forgotten.
Consume(lots, quantity) ==
    FoldLeft(LAMBDA acc, lot :
                LET used == Lesser(acc.remaining, lot.quantity) IN
                [remaining |-> acc.remaining - used,
                 kept |-> IF used = lot.quantity THEN acc.kept
                          ELSE Append(acc.kept, [lot EXCEPT !.quantity = @ - used])],
             [remaining |-> quantity, kept |-> <<>>], lots).kept

\* calculateHoldings for one asset, over trades already sorted.  A lot is known
\* by the place of its purchase, which stands for its unit cost.
Lots(sorted) ==
    FoldLeft(LAMBDA lots, i :
                IF sorted[i].side = "BUY"
                THEN Append(lots, [of |-> i, quantity |-> sorted[i].quantity])
                ELSE Consume(lots, sorted[i].quantity),
             <<>>, [i \in DOMAIN sorted |-> i])

\* Mutant of InOrder: the comparison is the wrong way round.
InOrder_Descending(s) == \A i, j \in DOMAIN s : i < j => s[i].executedAt >= s[j].executedAt

InOrder(s) == \A i, j \in DOMAIN s : i < j => s[i].executedAt <= s[j].executedAt

\* The sort is stable, but the query leaves trades of one date in any order.
Sorted(asset) ==
    LET s == TradesOf(asset)
        sortings == {p \in [DOMAIN s -> DOMAIN s] :
                        IsInjective(p) /\ InOrder([i \in DOMAIN s |-> s[p[i]]])}
    IN  {[i \in DOMAIN s |-> s[p[i]]] : p \in sortings}

Held(lots) == FoldLeft(LAMBDA sum, lot : sum + lot.quantity, 0, lots)

-----------------------------------------------------------------------------
(* recordTrade. *)

\* getPortfolioDetail finds the portfolio.
Open(t) ==
    /\ req[t].pc = "idle"
    /\ live
    /\ \E order \in [asset: Assets, side: Sides, quantity: Quantities,
                     executedAt: 0 .. MaxTime \cup {Null}] :
          req' = [req EXCEPT ![t] = [pc |-> "opened", order |-> order, read |-> 0]]
    /\ UNCHANGED <<now, live, trades, sales, overtaken>>

\* Mutant of Available: every asset's trades count.
Available_AnyAsset(asset) == NetOf(trades)

\* What findByPortfolioId says can be sold, whatever its date.
Available(asset) == NetOf(TradesOf(asset))

\* Mutant of Dated: a trade without a date keeps none.
Dated_Missing(order) == order

Dated(order) == [order EXCEPT !.executedAt = IF @ = Null THEN now ELSE @]

\* A sale is covered, the date is not in the future, the trade is made.
Check(t) ==
    LET order == req[t].order IN
    /\ req[t].pc = "opened"
    /\ order.side = "SELL" => Available(order.asset) >= order.quantity
    /\ order.executedAt # Null => order.executedAt <= now
    /\ req' = [req EXCEPT ![t] = [pc |-> "saving", order |-> Dated(order), read |-> sales[order.asset]]]
    /\ UNCHANGED <<now, live, trades, sales, overtaken>>

\* The row is inserted.  A deleted portfolio keeps its row, so nothing refuses it.
Insert(t) ==
    LET order == req[t].order IN
    /\ trades' = Append(trades, order)
    /\ IF order.side = "SELL"
       THEN /\ sales' = [sales EXCEPT ![order.asset] = @ + 1]
            /\ overtaken' = IF req[t].read # sales[order.asset]
                            THEN overtaken \cup {order.asset} ELSE overtaken
       ELSE UNCHANGED <<sales, overtaken>>

\* save answers, or its answer is lost; the request ends either way.
Save(t) ==
    /\ req[t].pc = "saving"
    /\ Insert(t)
    /\ req' = [req EXCEPT ![t] = Finished]
    /\ UNCHANGED <<now, live>>

\* Insufficient holdings, a date in the future, no such asset, or the database
\* refuses.
Refuse(t) ==
    /\ req[t].pc \in {"opened", "saving", "deleting"}
    /\ req' = [req EXCEPT ![t] = Finished]
    /\ UNCHANGED <<now, live, trades, sales, overtaken>>

\* deletePortfolio finds the portfolio, and soft-deletes it.
DeleteFind(t) ==
    /\ req[t].pc = "idle"
    /\ live
    /\ req' = [req EXCEPT ![t].pc = "deleting"]
    /\ UNCHANGED <<now, live, trades, sales, overtaken>>

DeleteSave(t) ==
    /\ req[t].pc = "deleting"
    /\ live' = FALSE
    /\ req' = [req EXCEPT ![t] = Finished]
    /\ UNCHANGED <<now, trades, sales, overtaken>>

Tick ==
    /\ now < MaxTime
    /\ now' = now + 1
    /\ UNCHANGED <<live, trades, req, sales, overtaken>>

Init ==
    /\ now = 0
    /\ live = TRUE
    /\ trades = <<>>
    /\ req = [t \in Requests |-> [pc |-> "idle", order |-> Null, read |-> 0]]
    /\ sales = [a \in Assets |-> 0]
    /\ overtaken = {}

Next ==
    \/ \E t \in Requests : Open(t) \/ Check(t) \/ Save(t) \/ Refuse(t) \/ DeleteFind(t) \/ DeleteSave(t)
    \/ Tick

Spec == Init /\ [][Next]_vars

-----------------------------------------------------------------------------
(* Properties. *)

\* The type invariant; every row has a date.
TypeOK ==
    /\ now \in 0 .. MaxTime
    /\ live \in BOOLEAN
    /\ trades \in Seq(Trade)
    /\ req \in [Requests -> Job]
    /\ \A t \in Requests : req[t].pc = "saving" => req[t].order \in Trade
    /\ sales \in [Assets -> Nat]
    /\ overtaken \in SUBSET Assets

\* No more of an asset is sold than was bought, unless a sale was inserted after
\* another one that its check did not see.  (recordTrade: the check and the save
\* are separate awaits.)
SolventUnlessOvertaken ==
    \A a \in Assets \ overtaken : NetOf(TradesOf(a)) >= 0

\* Whatever was sold and in which order, overdrawn or not, the lots a user sees
\* are the latest purchases in their order, whole but for the oldest of them: no
\* purchase is missing from the oldest lot on.  (The FIFO loop of
\* calculateHoldings.)
LotsAreLatestPurchases ==
    \A a \in Assets : \A s \in Sorted(a) :
        LET lots == Lots(s) IN
        /\ \A i \in DOMAIN lots :
              /\ lots[i].of \in DOMAIN s /\ s[lots[i].of].side = "BUY"
              /\ lots[i].quantity \in 1 .. s[lots[i].of].quantity
              /\ i > 1 => /\ lots[i].quantity = s[lots[i].of].quantity
                          /\ lots[i - 1].of < lots[i].of
        /\ \A k \in DOMAIN s :
              s[k].side = "BUY" /\ lots # <<>> /\ lots[1].of <= k => \E i \in DOMAIN lots : lots[i].of = k

\* A sale recorded after a purchase but not dated after it.
BackdatedSale(a) ==
    \E i, j \in DOMAIN TradesOf(a) :
        /\ i < j
        /\ TradesOf(a)[i].side = "BUY" /\ TradesOf(a)[j].side = "SELL"
        /\ TradesOf(a)[j].executedAt <= TradesOf(a)[i].executedAt

\* What a user is shown to hold is what was bought less what was sold, although
\* the check runs in the order of recording and the lots in that of the dates,
\* unless a sale is dated no later than a purchase recorded before it, or was
\* overtaken.
HoldingsShowNet ==
    \A a \in Assets \ overtaken : \A s \in Sorted(a) :
        ~BackdatedSale(a) => Held(Lots(s)) = NetOf(s)
=============================================================================
