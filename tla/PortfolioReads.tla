--------------------------- MODULE PortfolioReads ---------------------------
(***************************************************************************)
(* What a user is shown of a portfolio: the holdings with the latest price *)
(* of each asset, the distribution over the kinds of assets, and the chart *)
(* that values the holdings of today on every day of a period.  Prices and *)
(* chart come from separate queries of the stored quotes, or else from the *)
(* provider, while jobs store quotes and assets leave the catalog.         *)
(***************************************************************************)
EXTENDS Integers, FiniteSets, FiniteSetsExt

CONSTANTS
    Papers,   \* assets, one of each held: the quantities are TradeLedger's
    Prices,   \* prices that quotes have
    Cost,     \* what each of them was bought for
    NoQuote,  \* no row for that day
    Period,   \* days that the chart is about
    LastDay   \* bound: the clock stops here

ASSUME ReadsAssumption ==
    /\ IsFiniteSet(Papers)
    /\ Prices \subseteq Nat /\ 0 \in Prices
    /\ Cost \in Nat \ {0}
    /\ NoQuote \notin Nat
    /\ Period \in Nat \ {0} /\ LastDay \in Nat

VARIABLES
    held,    \* papers that the portfolio has
    catalog, \* papers that are active
    quotes,  \* paper -> day -> its row of market_quotes
    today,
    look,    \* a request that reads the portfolio
    shaken   \* history: papers whose rows or catalog entry changed, or for which the day did, after
             \* the request had begun to price them

readsVars == <<held, catalog, quotes, today, look, shaken>>

Days == 0..LastDay
Series == [Days -> Prices \cup {NoQuote}]
NoSeries == [d \in Days |-> NoQuote]

DaysOf(s) == {d \in Days : s[d] # NoQuote}
Within(s, back) == [d \in Days |-> IF today - back <= d /\ d <= today THEN s[d] ELSE NoQuote]

\* asked: the paper the provider is being asked for.  dated: the day of the quote that gave the
\* price, -1 if none did.
NotLooking == [pc |-> "idle", view |-> "holdings", left |-> {}, asked |-> {},
               price |-> [p \in Papers |-> 0], dated |-> [p \in Papers |-> -1],
               series |-> [p \in Papers |-> NoSeries], end |-> 0, groups |-> {}]

ReadsInit ==
    /\ held \in SUBSET Papers
    /\ catalog = Papers
    /\ quotes = [p \in Papers |-> NoSeries]
    /\ today = 0
    /\ look = NotLooking
    /\ shaken = {}

\* Papers that the request has begun to price.
Begun == IF look.pc \in {"pricing", "charting"} THEN held \ (look.left \ look.asked) ELSE {}
Priced == IF look.pc = "charting" THEN held ELSE Begun
-----------------------------------------------------------------------------
(* The market. *)

\* A refresh stores the quote of today, a backfill older ones: a row for asset and day is
\* overwritten.
StoreRow(p, d, v) ==
    /\ d <= today
    /\ quotes[p][d] # v
    /\ quotes' = [quotes EXCEPT ![p][d] = v]
    /\ shaken' = IF p \in Priced THEN shaken \cup {p} ELSE shaken
    /\ UNCHANGED <<held, catalog, today, look>>

LeaveCatalog(p) ==
    /\ p \in catalog
    /\ catalog' = catalog \ {p}
    /\ shaken' = IF p \in Priced THEN shaken \cup {p} ELSE shaken
    /\ UNCHANGED <<held, quotes, today, look>>

NextDay ==
    /\ today < LastDay
    /\ today' = today + 1
    /\ shaken' = shaken \cup Priced
    /\ UNCHANGED <<held, catalog, quotes, look>>
-----------------------------------------------------------------------------
(* Pricing the holdings. *)

\* getPortfolioHoldings reads trades and assets.  A paper that is not in the catalog keeps its
\* average cost as its price.
Look(view) ==
    /\ look.pc = "idle"
    /\ look' = [NotLooking EXCEPT !.pc = "pricing", !.view = view, !.left = held \cap catalog,
                                  !.price = [p \in Papers |-> IF p \in catalog THEN 0 ELSE Cost]]
    /\ shaken' = {}
    /\ UNCHANGED <<held, catalog, quotes, today>>

\* Mutant of LatestOf: the oldest of them.
LatestOf_Oldest(s) == Min(DaysOf(s))

LatestOf(s) == Max(DaysOf(s))

\* resolveQuotePrice of the latest quote, 0 without one.
PricedBy(p, s) ==
    LET known == DaysOf(s) # {} IN
    look' = [look EXCEPT !.left = @ \ {p}, !.asked = {},
                         !.price[p] = IF known THEN s[LatestOf(s)] ELSE 0,
                         !.dated[p] = IF known THEN LatestOf(s) ELSE -1]

\* getLatestPersistedAssetQuote: whatever its age.
PriceFromRows(p) ==
    /\ look.pc = "pricing" /\ p \in look.left /\ look.asked = {}
    /\ p \in catalog /\ DaysOf(quotes[p]) # {}
    /\ PricedBy(p, quotes[p])
    /\ UNCHANGED <<held, catalog, quotes, today, shaken>>

AskForPrice(p) ==
    /\ look.pc = "pricing" /\ p \in look.left /\ look.asked = {}
    /\ p \in catalog /\ DaysOf(quotes[p]) = {}
    /\ look' = [look EXCEPT !.asked = {p}]
    /\ UNCHANGED <<held, catalog, quotes, today, shaken>>

\* getAssetQuotes saves what the provider answers, row by row over those there are.
Upserted(p, s) == [quotes EXCEPT ![p] = [d \in Days |-> IF s[d] # NoQuote THEN s[d] ELSE @[d]]]

Answers(back) == {s \in Series : s = Within(s, back)}

ProviderPrices(p) ==
    /\ look.pc = "pricing" /\ p \in look.asked
    /\ \E s \in Answers(2) : quotes' = Upserted(p, s) /\ PricedBy(p, s)
    /\ UNCHANGED <<held, catalog, today, shaken>>

\* The provider, or the upsert, fails: rows that were stored meanwhile serve.  Otherwise, or for
\* a paper that left the catalog, the price is 0.
PricingFails(p) ==
    /\ look.pc = "pricing" /\ p \in look.left
    /\ \/ p \in look.asked /\ PricedBy(p, Within(quotes[p], 2))
       \/ look.asked = {} /\ p \notin catalog /\ PricedBy(p, NoSeries)
    /\ UNCHANGED <<held, catalog, quotes, today, shaken>>

Answer ==
    /\ look.pc = "pricing" /\ look.left = {}
    /\ look.view = "holdings"
    /\ look' = [look EXCEPT !.pc = "done"]
    /\ UNCHANGED <<held, catalog, quotes, today, shaken>>

\* getPortfolioDistribution reads the assets again, and groups by what it finds: papers that
\* have left the catalog are UNKNOWN, in ARS.
Distribute ==
    /\ look.pc = "pricing" /\ look.left = {}
    /\ look.view = "distribution"
    /\ look' = [look EXCEPT !.pc = "done", !.groups = {held \cap catalog, held \ catalog} \ {{}}]
    /\ UNCHANGED <<held, catalog, quotes, today, shaken>>
-----------------------------------------------------------------------------
(* The chart. *)

\* getPortfolioPerformance: the period ends now.  Without holdings there is one point, of 0.
BeginChart ==
    /\ look.pc = "pricing" /\ look.left = {}
    /\ look.view = "performance"
    /\ look' = [look EXCEPT !.pc = IF held = {} THEN "done" ELSE "charting", !.left = held, !.end = today]
    /\ UNCHANGED <<held, catalog, quotes, today, shaken>>

Charted(p, s) ==
    look' = [look EXCEPT !.left = @ \ {p}, !.asked = {},
                         !.series[p] = [d \in Days |-> IF s[d] = 0 THEN NoQuote ELSE s[d]]]

RowsOfPeriod(p) ==
    [d \in Days |-> IF look.end - Period <= d /\ d <= look.end THEN quotes[p][d] ELSE NoQuote]

ChartFromRows(p) ==
    /\ look.pc = "charting" /\ p \in look.left /\ look.asked = {}
    /\ p \in catalog /\ DaysOf(RowsOfPeriod(p)) # {}
    /\ Charted(p, RowsOfPeriod(p))
    /\ UNCHANGED <<held, catalog, quotes, today, shaken>>

AskForChart(p) ==
    /\ look.pc = "charting" /\ p \in look.left /\ look.asked = {}
    /\ p \in catalog /\ DaysOf(RowsOfPeriod(p)) = {}
    /\ look' = [look EXCEPT !.asked = {p}]
    /\ UNCHANGED <<held, catalog, quotes, today, shaken>>

\* The provider is asked for two days more than the period.
ProviderCharts(p) ==
    /\ look.pc = "charting" /\ p \in look.asked
    /\ \E s \in Answers(Period + 2) : quotes' = Upserted(p, s) /\ Charted(p, s)
    /\ UNCHANGED <<held, catalog, today, shaken>>

\* Rows of the two days more serve too; a paper that is not in the catalog has no series.
ChartingFails(p) ==
    /\ look.pc = "charting" /\ p \in look.left
    /\ \/ p \in look.asked /\ Charted(p, Within(quotes[p], Period + 2))
       \/ look.asked = {} /\ p \notin catalog /\ Charted(p, NoSeries)
    /\ UNCHANGED <<held, catalog, quotes, today, shaken>>

\* Mutant of Carried: the quote of the day itself does not count.
Carried_Before(p, day) ==
    LET s == look.series[p]
        known == {d \in DaysOf(s) : d < day}
    IN  IF DaysOf(s) = {} THEN look.price[p]
        ELSE IF known # {} THEN s[Max(known)] ELSE s[Min(DaysOf(s))]

\* resolveInterpolatedPrice: the last price up to that day, before the first the first, and
\* without any that of the holding.
Carried(p, day) ==
    LET s == look.series[p]
        known == {d \in DaysOf(s) : d <= day}
    IN  IF DaysOf(s) = {} THEN look.price[p]
        ELSE IF known # {} THEN s[Max(known)] ELSE s[Min(DaysOf(s))]

\* The value of the holdings of today on that day.
Point(day) == MapThenSumSet(LAMBDA p : Carried(p, day), held)

Draw ==
    /\ look.pc = "charting" /\ look.left = {}
    /\ look' = [look EXCEPT !.pc = "done"]
    /\ UNCHANGED <<held, catalog, quotes, today, shaken>>

Leave == look.pc = "done" /\ look' = NotLooking /\ shaken' = {} /\ UNCHANGED <<held, catalog, quotes, today>>

ReadsNext ==
    \/ \E p \in Papers :
          \/ \E d \in Days, v \in Prices : StoreRow(p, d, v)
          \/ LeaveCatalog(p)
          \/ PriceFromRows(p) \/ AskForPrice(p) \/ ProviderPrices(p) \/ PricingFails(p)
          \/ ChartFromRows(p) \/ AskForChart(p) \/ ProviderCharts(p) \/ ChartingFails(p)
    \/ \E view \in {"holdings", "distribution", "performance"} : Look(view)
    \/ NextDay \/ Answer \/ Distribute \/ BeginChart \/ Draw \/ Leave

ReadsSpec == ReadsInit /\ [][ReadsNext]_readsVars
-----------------------------------------------------------------------------
(* Types: catalog, quotes and the request. *)
ReadsTypeOK ==
    /\ held \subseteq Papers /\ catalog \subseteq Papers /\ shaken \subseteq Papers
    /\ quotes \in [Papers -> Series]
    /\ today \in Days
    /\ look \in [pc : {"idle", "pricing", "charting", "done"}, view : {"holdings", "distribution", "performance"},
                 left : SUBSET Papers, asked : SUBSET Papers, price : [Papers -> Nat],
                 dated : [Papers -> Days \cup {-1}], series : [Papers -> Series], end : Days,
                 groups : SUBSET SUBSET Papers]

\* Papers whose price cannot differ between the two queries: nothing changed between them, and
\* the quote that gave the price is one of the period and more than 0, or the paper was not in
\* the catalog and stands at its cost.
Settled(p) ==
    /\ p \notin shaken
    /\ look.price[p] > 0
    /\ look.dated[p] = -1 \/ look.dated[p] >= look.end - Period

\* getPortfolioHoldings and getPortfolioPerformance: the chart ends where the holdings of the
\* same request stand, unless a quote was stored or the day changed in between, the latest
\* quote is older than the period, or its price is 0, which the chart leaves out.
ChartMeetsHoldings ==
    (look.pc = "done" /\ look.view = "performance" /\ \A p \in held : Settled(p)) =>
        Point(look.end) = MapThenSumSet(LAMBDA p : look.price[p], held)
=============================================================================
