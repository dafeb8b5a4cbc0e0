--------------------------- MODULE QuoteProviders ---------------------------
(***************************************************************************)
(* Where a quote comes from: ProviderOrchestrator tries the providers of   *)
(* an asset's type in the order of their scores; each client asks its site *)
(* through ProviderHealthTracker.  Data912QuoteClient keeps a snapshot for *)
(* all callers, RavaScraperClient keeps robots.txt and the moment of its   *)
(* last request.  Fetches overlap: a refresh asks for a chunk of assets at *)
(* once, and the MEP/CCL job for four bonds.                               *)
(***************************************************************************)
EXTENDS Naturals

CONSTANTS
    Fetches,     \* calls of fetchQuote
    Symbols,     \* tickers of the assets in question
    SnapshotTtl, \* how long a snapshot of data912 is used
    RobotsTtl,   \* how long an answer of robots.txt is used
    RateLimit,   \* the least time between two requests to rava
    Timeout,     \* how long a request that has a timeout may take, with the save of its check
    LastInstant  \* bound: the clock

ASSUME ProvidersAssumption ==
    /\ SnapshotTtl \in Nat \ {0} /\ RobotsTtl \in Nat \ {0} /\ RateLimit \in Nat \ {0}
    /\ Timeout \in Nat \ {0} /\ LastInstant \in Nat
    /\ RobotsTtl >= RateLimit

VARIABLES
    instant,
    snapshot,    \* data912: the symbols it has, when it was asked for, until when it is used
    robots,      \* rava: when robots.txt was asked for, and whether it closes the page
    lastRequest, \* rava: when the last request passed the rate limit
    fetch        \* fetch -> its symbol, the providers not tried yet, the one tried, and where it stands

providersVars == <<instant, snapshot, robots, lastRequest, fetch>>

\* getProviderCandidates: of shares and CEDEARs, and of the other types.
ShareProviders == {"data912.com", "rava.com", "open.bymadata.com.ar", "yahoo-finance"}
BondProviders == {"data912.com", "yahoo-finance"}

FetchSteps == {"new", "next", "asks", "robots", "rate", "found", "failed"}
NoSnapshot == [symbols |-> {}, asked |-> 0, until |-> 0]

\* since is when the request under way was sent, or when the wait for the rate limit ends;
\* age is how long ago the data of the quote found had been asked for.
NewFetch(s) == [pc |-> "new", symbol |-> s, left |-> {}, provider |-> "none", since |-> 0, age |-> 0]

ProvidersInit ==
    /\ instant = RobotsTtl + 1
    /\ snapshot = NoSnapshot
    /\ robots = [asked |-> 0, closed |-> FALSE]
    /\ lastRequest = 0
    /\ fetch \in [Fetches -> {NewFetch(s) : s \in Symbols}]

\* The fetch waits at pc; for how long, or since when, is since.
Put(f, pc, since) == fetch' = [fetch EXCEPT ![f].pc = pc, ![f].since = since]

\* The providers are tried in the order of their scores: the uptime, the errors, the latency
\* and the age of the checks are left open, so any provider may be the next one.
Turn(f, p) == fetch[f].pc = "next" /\ p \in fetch[f].left
Try(f, p, pc, since) ==
    fetch' = [fetch EXCEPT ![f].pc = pc, ![f].provider = p, ![f].left = @ \ {p}, ![f].since = since]

\* A provider throws: those left are tried, and after the last one its error is thrown.
Missed(f, left) ==
    fetch' = [fetch EXCEPT ![f] = [NewFetch(@.symbol) EXCEPT !.pc = IF left = {} THEN "failed" ELSE "next",
                                                             !.left = left]]

\* Provider p has the symbol; asked is when its data was asked for.
Found(f, p, asked) ==
    fetch' = [fetch EXCEPT ![f] = [NewFetch(@.symbol) EXCEPT !.pc = "found", !.provider = p,
                                                             !.age = instant - asked]]

-----------------------------------------------------------------------------
\* scoreProviders reads the health of the providers; when that fails nothing is tried.
Score(f) ==
    /\ fetch[f].pc = "new"
    /\ \/ \E candidates \in {ShareProviders, BondProviders} : Missed(f, candidates)
       \/ Missed(f, {})
    /\ UNCHANGED <<instant, snapshot, robots, lastRequest>>

\* Mutant of SnapshotUsable: a snapshot is used until it is replaced.
SnapshotUsable_Always == snapshot.until > 0

SnapshotUsable == instant < snapshot.until

\* The snapshot serves all fetches until it expires.
UseSnapshot(f) ==
    /\ Turn(f, "data912.com")
    /\ SnapshotUsable
    /\ IF fetch[f].symbol \in snapshot.symbols
       THEN Found(f, "data912.com", snapshot.asked) ELSE Missed(f, fetch[f].left \ {"data912.com"})
    /\ UNCHANGED <<instant, snapshot, robots, lastRequest>>

\* getSnapshot asks for four lists at once.
AskLists(f) ==
    /\ Turn(f, "data912.com")
    /\ ~SnapshotUsable
    /\ Try(f, "data912.com", "asks", instant)
    /\ UNCHANGED <<instant, snapshot, robots, lastRequest>>

\* What did come of the lists, rows without a price apart, is the new snapshot, even when
\* lists are missing, and even when it was asked for before the present one.  A snapshot
\* without a row is refused (RequestFails); one may have none of the symbols in question.
ListsCome(f) ==
    /\ fetch[f].pc = "asks" /\ fetch[f].provider = "data912.com"
    /\ \E got \in SUBSET Symbols :
          /\ snapshot' = [symbols |-> got, asked |-> fetch[f].since, until |-> instant + SnapshotTtl]
          /\ IF fetch[f].symbol \in got THEN Found(f, "data912.com", fetch[f].since)
             ELSE Missed(f, fetch[f].left)
    /\ UNCHANGED <<instant, robots, lastRequest>>

\* The table of BYMA and the quote of Yahoo are asked for by each fetch.
Ask(f, p) ==
    /\ Turn(f, p) /\ Try(f, p, "asks", instant)
    /\ UNCHANGED <<instant, snapshot, robots, lastRequest>>

AskByma(f) == Ask(f, "open.bymadata.com.ar")
AskYahoo(f) == Ask(f, "yahoo-finance")

\* An answer that has the symbol, with a price.
Comes(f, p) ==
    /\ fetch[f].pc = "asks" /\ fetch[f].provider = p
    /\ Found(f, p, fetch[f].since)
    /\ UNCHANGED <<instant, snapshot, robots, lastRequest>>

BymaComes(f) == Comes(f, "open.bymadata.com.ar")
YahooComes(f) == Comes(f, "yahoo-finance")

\* The rows of the page of rava.
PageComes(f) == Comes(f, "rava.com")

\* The request fails or times out, track cannot save the check of it, or no row is usable.
RequestFails(f) ==
    /\ fetch[f].pc \in {"asks", "robots"}
    /\ Missed(f, fetch[f].left)
    /\ UNCHANGED <<instant, snapshot, robots, lastRequest>>

\* ensureRobotsAllows, before the page: robots.txt is asked for when the last answer is old.
\* waitForRateLimit reads lastRequestAt once, when the wait begins.
CheckRobots(f) ==
    /\ Turn(f, "rava.com")
    /\ IF instant - robots.asked > RobotsTtl
       THEN Try(f, "rava.com", "robots", instant)
       ELSE IF robots.closed THEN Missed(f, fetch[f].left \ {"rava.com"})
       ELSE Try(f, "rava.com", "rate", lastRequest + RateLimit)
    /\ UNCHANGED <<instant, snapshot, robots, lastRequest>>

RobotsComes(f) ==
    /\ fetch[f].pc = "robots"
    /\ \E closed \in BOOLEAN :
          /\ robots' = [asked |-> fetch[f].since, closed |-> closed]
          /\ IF closed THEN Missed(f, fetch[f].left) ELSE Put(f, "rate", lastRequest + RateLimit)
    /\ UNCHANGED <<instant, snapshot, lastRequest>>

\* The wait is over: the page is asked for.
AskPage(f) ==
    /\ fetch[f].pc = "rate"
    /\ instant >= fetch[f].since
    /\ lastRequest' = instant
    /\ Put(f, "asks", instant)
    /\ UNCHANGED <<instant, snapshot, robots>>

\* The requests to data912, BYMA and rava are given a timeout, those to Yahoo are not.
Timed(f) == fetch[f].pc = "robots" \/ (fetch[f].pc = "asks" /\ fetch[f].provider # "yahoo-finance")

\* No request outlives its timeout; that track saves its check within that time, too, is
\* assumed of the database.
InstantPasses ==
    /\ instant < LastInstant
    /\ \A f \in Fetches : Timed(f) => instant - fetch[f].since < Timeout
    /\ instant' = instant + 1
    /\ UNCHANGED <<snapshot, robots, lastRequest, fetch>>

ProvidersNext ==
    \/ \E f \in Fetches :
          \/ Score(f) \/ UseSnapshot(f) \/ AskLists(f) \/ ListsCome(f)
          \/ AskByma(f) \/ BymaComes(f) \/ AskYahoo(f) \/ YahooComes(f) \/ RequestFails(f)
          \/ CheckRobots(f) \/ RobotsComes(f) \/ AskPage(f) \/ PageComes(f)
    \/ InstantPasses

ProvidersSpec == ProvidersInit /\ [][ProvidersNext]_providersVars
-----------------------------------------------------------------------------
(* Types: the shared snapshot and robots.txt, and the fetches under way. *)
ProvidersTypeOK ==
    /\ instant \in Nat
    /\ snapshot \in [symbols : SUBSET Symbols, asked : Nat, until : Nat]
    /\ robots \in [asked : Nat, closed : BOOLEAN]
    /\ lastRequest \in Nat
    /\ fetch \in [Fetches -> [pc : FetchSteps, symbol : Symbols, left : SUBSET ShareProviders,
                              provider : ShareProviders \cup {"none"}, since : Nat, age : Nat]]

\* Data912QuoteClient.getSnapshot: a quote is dated by the moment it is handed out; however
\* the callers of the shared snapshot overlap, the data behind it was asked for less than the
\* life of a snapshot and one request earlier.  Nothing bounds that for a quote of Yahoo, which
\* is dated after an answer that has all the time it wants.
QuoteDataRecent ==
    \A f \in Fetches :
        (fetch[f].pc = "found" /\ fetch[f].provider # "yahoo-finance") => fetch[f].age < SnapshotTtl + Timeout
=============================================================================
