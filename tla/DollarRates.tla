----------------------------- MODULE DollarRates -----------------------------
(***************************************************************************)
(* Dollar rates and country risk: MultiSourceDollarClient asks four        *)
(* sources and agrees on a rate per type, RiskProviderClient asks three in *)
(* turn, MEPCCLCalculationService divides bond prices; MarketDataService   *)
(* stores what it got, or else shows what is stored, and the jobs push it. *)
(* Buy and sell rates are treated alike and one stands for both.  Times    *)
(* are the sources' own: the latest row is not the row saved last.         *)
(***************************************************************************)
EXTENDS Naturals, FiniteSets

CONSTANTS
    Quotes,      \* the quotes of one type that the four sources may give between them: dolarapi
                 \* and argentinadatos answer with lists, in which a type may appear twice
    RateTypes,   \* types that the sources quote
    Rates,       \* numbers that a source may quote
    MaxDeviation,\* per cent off the median that still counts as agreement
    MaxSourceAge,
    RateCalls,   \* runs of a job or of a handler
    Rows,        \* bound: how many rows are stored
    LastDay      \* bound: the clock

ASSUME RatesAssumption ==
    /\ IsFiniteSet(Quotes) /\ IsFiniteSet(RateTypes) /\ Rates \subseteq Nat \ {0}
    /\ RateTypes \cap {"calc", "risk"} = {}
    /\ MaxDeviation \in Nat /\ MaxSourceAge \in Nat /\ Rows \in Nat /\ LastDay \in Nat

VARIABLES
    day,
    rateRow,  \* dollar_quotes and country_risk
    rateCall, \* call -> what it is, where it stands, and the rows it has
    board     \* what the server pushed last of each type

ratesVars == <<day, rateRow, rateCall, board>>

\* "calc" stands for the two types computed from bonds, "risk" for the table of the country risk.
RowTypes == RateTypes \cup {"calc", "risk"}

\* double is twice the rate, for the median of an even number lies between two.  The others are
\* history: how many fresh quotes there were, the second lowest and the second highest.
NewRow(t, double, at, count, low, high) ==
    [type |-> t, double |-> double, at |-> at, count |-> count, low |-> low, high |-> high]
OtherRow(t, double, at) == NewRow(t, double, at, 0, 0, 0)

RatesInit ==
    /\ day = 0
    /\ rateRow = {}
    /\ rateCall = [c \in RateCalls |-> [kind |-> "none", pc |-> "new", has |-> {}]]
    /\ board = {}

On(c, pc) == rateCall[c].pc = pc
To(c, pc, has) == rateCall' = [rateCall EXCEPT ![c].pc = pc, ![c].has = has]

-----------------------------------------------------------------------------
\* A source that fails, or an entry of its list without a known type or a number.
NoQuote == [rate |-> 0, at |-> 0]

\* createQuote, parseDate, parseNumber: a quote without a date is dated now.
Quoted == [rate : Rates, at : 0..day]

\* What the lists of the sources come to, for each type.
SourceAnswers == [RateTypes -> [Quotes -> Quoted \cup {NoQuote}]]

\* What a source of the risk comes to: a value it does not give is 0.
RiskAnswer == [rate : Rates \cup {0}, at : 0..day]

\* The k-th lowest of the rates quoted, and twice their median.
Nth(quote, k) ==
    CHOOSE n \in Rates : /\ Cardinality({q \in DOMAIN quote : quote[q].rate < n}) < k
                         /\ Cardinality({q \in DOMAIN quote : quote[q].rate <= n}) >= k
\* Mutant of Middle: twice the middle of the range.
Middle_Range(quote) == Nth(quote, 1) + Nth(quote, Cardinality(DOMAIN quote))

Middle(quote) ==
    LET n == Cardinality(DOMAIN quote) IN Nth(quote, (n + 1) \div 2) + Nth(quote, n \div 2 + 1)

\* isWithinDeviation.
Near(rate, double) ==
    LET off == IF 2 * rate > double THEN 2 * rate - double ELSE double - 2 * rate
    IN off * 100 <= MaxDeviation * double

\* buildConsensusQuote: the rate is the median of all fresh quotes; those near it, when there
\* are two, only give the row its time.  A type with fewer than two fresh quotes is left out.
Agreed(t, answer) ==
    LET fresh == {q \in Quotes : answer[q] # NoQuote /\ day - answer[q].at <= MaxSourceAge}
        quote == [q \in fresh |-> answer[q]]
        near == {q \in fresh : Near(quote[q].rate, Middle(quote))}
        used == IF Cardinality(near) >= 2 THEN near ELSE fresh
        n == Cardinality(fresh)
    IN IF n < 2 THEN {}
       ELSE {NewRow(t, Middle(quote),
                    CHOOSE d \in 0..day : /\ \E q \in used : quote[q].at = d
                                          /\ \A q \in used : quote[q].at <= d,
                    n, Nth(quote, 2), Nth(quote, n - 1))}

\* fetchAllDollarQuotes: once all sources answered or failed.  The reference of the BCRA is only
\* compared and logged.
AskSources(c) ==
    /\ On(c, "ask") /\ rateCall[c].kind \in {"dollars", "again", "request"}
    /\ \E answer \in SourceAnswers :
          LET agreed == UNION {Agreed(t, answer[t]) : t \in RateTypes}
          IN To(c, IF agreed = {} THEN "stored" ELSE "save", agreed)
    /\ UNCHANGED <<day, rateRow, board>>

\* fetchCountryRisk: the first of three sources that answers.
AskRisk(c) ==
    /\ On(c, "ask") /\ rateCall[c].kind = "risk"
    /\ \/ \E a \in RiskAnswer : To(c, "save", {OtherRow("risk", 2 * a.rate, a.at)})
       \/ To(c, "stored", {})
    /\ UNCHANGED <<day, rateRow, board>>

\* pickPrice, safeDivide: the quotient of two bond prices.
Implied == Rates

\* calculateAndPersist: four bond prices are fetched at once; without one of them the run ends.
\* The row is dated by the moment the run began.
FetchBondPrices(c) ==
    /\ On(c, "ask") /\ rateCall[c].kind = "bonds"
    /\ \/ \E rate \in Implied, at \in 0..day : To(c, "save", {OtherRow("calc", 2 * rate, at)})
       \/ To(c, "end", {})
    /\ UNCHANGED <<day, rateRow, board>>

\* saveMany, in one transaction.
SaveRates(c) ==
    /\ On(c, "save")
    /\ Cardinality(rateRow \cup rateCall[c].has) <= Rows
    /\ rateRow' = rateRow \cup rateCall[c].has
    /\ To(c, IF rateCall[c].kind = "bonds" THEN "validate" ELSE "served", rateCall[c].has)
    /\ UNCHANGED <<day, board>>

\* The save fails: what was fetched is dropped, and what is stored is shown instead.
SaveFails(c) ==
    /\ On(c, "save")
    /\ To(c, IF rateCall[c].kind = "bonds" THEN "end" ELSE "stored", {})
    /\ UNCHANGED <<day, rateRow, board>>

\* Mutant of LatestOf: all rows with the latest time.
LatestOf_Ties(types) ==
    {{r \in rateRow : r.type \in types /\ \A s \in rateRow : s.type = r.type => s.at <= r.at}}

\* findLatestByType: one row of each type with the latest time; findLatest of the risk.
LatestOf(types) ==
    {rs \in SUBSET {r \in rateRow : r.type \in types} :
        /\ \A t \in {r.type : r \in rateRow} \cap types : Cardinality({r \in rs : r.type = t}) = 1
        /\ \A r \in rs, s \in rateRow : s.type = r.type => s.at <= r.at}

ReadStored(c) ==
    /\ On(c, "stored")
    /\ \E latest \in LatestOf(IF rateCall[c].kind = "risk" THEN {"risk"} ELSE RowTypes \ {"risk"}) :
          To(c, IF latest = {} THEN "end" ELSE "served", latest)
    /\ UNCHANGED <<day, rateRow, board>>

\* DollarFetchJob.handle: the event goes out, then the sources are asked a second time, and
\* that second answer is pushed.  The event is published after a fallback, too.
DollarJobPublishes(c) ==
    /\ On(c, "served") /\ rateCall[c].kind = "dollars"
    /\ rateCall' = [rateCall EXCEPT ![c] = [kind |-> "again", pc |-> "ask", has |-> {}]]
    /\ UNCHANGED <<day, rateRow, board>>

\* RiskFetchJob.handle: the event and the push are of one answer.
RiskJobPublishes(c) ==
    /\ On(c, "served") /\ rateCall[c].kind = "risk"
    /\ To(c, "emit", rateCall[c].has)
    /\ UNCHANGED <<day, rateRow, board>>

\* crossValidate only compares with the stored rates of the sources.
CrossValidate(c) ==
    /\ On(c, "validate")
    /\ To(c, "emit", rateCall[c].has)
    /\ UNCHANGED <<day, rateRow, board>>

\* The second answer of the job is pushed; that of a GET went to its client.
SecondAnswer(c) ==
    /\ On(c, "served") /\ rateCall[c].kind = "again"
    /\ To(c, "emit", rateCall[c].has)
    /\ UNCHANGED <<day, rateRow, board>>

\* MarketGateway.emitDollar pushes the rates that it has, emitRisk the risk.
EmitRates(c) ==
    /\ On(c, "emit")
    /\ LET has == rateCall[c].has
       IN /\ board' = {r \in board : \A n \in has : n.type # r.type} \cup has
          /\ To(c, "end", {})
    /\ UNCHANGED <<day, rateRow>>

\* The database or the queue fails at a step that nothing catches but the job.
RatesStop(c) ==
    /\ rateCall[c].pc \in {"stored", "served", "validate"}
    /\ To(c, "end", {})
    /\ UNCHANGED <<day, rateRow, board>>

\* A job or a handler begins.
BeginCall(c) ==
    /\ On(c, "new")
    /\ \E kind \in {"dollars", "request", "risk", "bonds"} :
          rateCall' = [rateCall EXCEPT ![c] = [kind |-> kind, pc |-> "ask", has |-> {}]]
    /\ UNCHANGED <<day, rateRow, board>>

DayPasses ==
    /\ day < LastDay
    /\ day' = day + 1
    /\ UNCHANGED <<rateRow, rateCall, board>>

RatesNext ==
    \/ \E c \in RateCalls :
          \/ BeginCall(c) \/ AskSources(c) \/ AskRisk(c) \/ FetchBondPrices(c) \/ SaveRates(c)
          \/ SaveFails(c) \/ ReadStored(c) \/ DollarJobPublishes(c) \/ RiskJobPublishes(c)
          \/ CrossValidate(c) \/ SecondAnswer(c) \/ EmitRates(c) \/ RatesStop(c)
    \/ DayPasses

RatesSpec == RatesInit /\ [][RatesNext]_ratesVars
-----------------------------------------------------------------------------
Shown == rateRow \cup board \cup UNION {rateCall[c].has : c \in RateCalls}

(* Types: no row is dated in the future, and a push shows each type at most once. *)
RatesTypeOK ==
    /\ day \in 0..LastDay
    /\ \A r \in Shown : /\ r.type \in RowTypes /\ r.double \in Nat /\ r.at \in 0..day
                        /\ r.count \in 0..Cardinality(Quotes)
    /\ Cardinality(rateRow) <= Rows
    /\ \A r, s \in board : r.type = s.type => r = s

\* MultiSourceDollarClient.buildConsensusQuote: whatever is stored, handed out or pushed, after
\* failures and fallbacks as well, a rate of the sources rests on two fresh quotes; and of three
\* or more no single one, however wrong, takes the rate out of the range of the others.
OneQuoteCannotMove ==
    \A r \in Shown : r.type \in RateTypes =>
        /\ r.count >= 2
        /\ r.count >= 3 => 2 * r.low <= r.double /\ r.double <= 2 * r.high
=============================================================================
