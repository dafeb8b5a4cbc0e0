---------------------------- MODULE QuoteRefresh ----------------------------
(***************************************************************************)
(* Who stores quotes and who tells the clients: the refresh jobs of        *)
(* MarketDataService (chunk by chunk, the assets of a chunk at once), the  *)
(* GET of an asset's quotes, which stores what it fetched, and the daily   *)
(* backfill.  A row is the quote of an asset and a date; a quote is known  *)
(* by the moment it was fetched.                                           *)
(***************************************************************************)
EXTENDS Naturals, FiniteSets

CONSTANTS
    Assets,
    QuoteJobs,   \* runs of a job or of a handler
    ChunkSize,
    DayLength,   \* how many moments have the same date
    StatusTtl,   \* market.statusCacheTtlSeconds
    LastNow      \* bound: the clock

ASSUME QuotesAssumption ==
    /\ IsFiniteSet(Assets) /\ ChunkSize \in Nat \ {0} /\ DayLength \in Nat \ {0}
    /\ StatusTtl \in Nat /\ LastNow \in Nat \ {0}

VARIABLES
    now,
    active,    \* the assets whose row is active
    quoteRow,  \* market_quotes: asset -> date -> when the quote was fetched, 0 if there is no row
    quoteJob,  \* run -> its kind, where it stands, the assets left, and what it will push
    task,      \* run -> asset -> where the fetch of the asset stands
    status,    \* market:status in Redis: when it was made, and until when it is used
    events,    \* market.quote.updated, as published
    shown,     \* asset -> the quote last pushed to the clients, 0 if none
    everStored,\* history: quotes that were in the database
    silent,    \* history: assets whose last stored quote no push will show
    crossed    \* history: assets whose last quotes were stored by runs that overlapped

quotesVars == <<now, active, quoteRow, quoteJob, task, status, events, shown, everStored, silent, crossed>>
quotesHistory == <<everStored, silent, crossed>>

DateOf(t) == t \div DayLength
Dates == 0..DateOf(LastNow)
Kinds == {"none", "refresh", "view", "backfill"}
NoTask == [pc |-> "out", at |-> 0, dates |-> {}]

QuotesInit ==
    /\ now = 1
    /\ active = Assets
    /\ quoteRow = [a \in Assets |-> [d \in Dates |-> 0]]
    /\ quoteJob = [j \in QuoteJobs |-> [kind |-> "none", pc |-> "new", left |-> {}, updates |-> {}]]
    /\ task = [j \in QuoteJobs |-> [a \in Assets |-> NoTask]]
    /\ status = [made |-> 0, until |-> 0]
    /\ events = {}
    /\ shown = [a \in Assets |-> 0]
    /\ everStored = {} /\ silent = {} /\ crossed = {}

At(j, a, pc) == task[j][a].pc = pc
Refreshes(j) == quoteJob[j].kind = "refresh"
TaskTo(j, a, pc) == task' = [task EXCEPT ![j][a].pc = pc]
TaskEnds(j, a) == task' = [task EXCEPT ![j][a] = NoTask]
Quote(a, t) == [asset |-> a, at |-> t]

\* Runs that have stored a quote of the asset and have yet to push it.
Pending(a) ==
    {j \in QuoteJobs : /\ Refreshes(j) /\ quoteJob[j].pc = "chunks"
                       /\ At(j, a, "publish") \/ \E u \in quoteJob[j].updates : u.asset = a}

\* What findLatestByAsset returns.
Latest(a) ==
    LET dates == {d \in Dates : quoteRow[a][d] # 0}
    IN IF dates = {} THEN 0 ELSE quoteRow[a][CHOOSE d \in dates : \A e \in dates : e <= d]

-----------------------------------------------------------------------------
\* refreshStockQuotes and its like: the active assets of some types.
StartRefresh(j) ==
    /\ quoteJob[j].pc = "new"
    /\ \E assets \in SUBSET active :
          quoteJob' = [quoteJob EXCEPT ![j] = [@ EXCEPT !.kind = "refresh", !.pc = "chunks", !.left = assets]]
    /\ UNCHANGED <<now, active, quoteRow, task, status, events, shown, quotesHistory>>

\* getAssetQuotes: one active asset.
StartView(j) ==
    /\ quoteJob[j].pc = "new"
    /\ \E a \in active :
          quoteJob' = [quoteJob EXCEPT ![j] = [@ EXCEPT !.kind = "view", !.pc = "chunks", !.left = {a}]]
    /\ UNCHANGED <<now, active, quoteRow, task, status, events, shown, quotesHistory>>

\* runDailyBackfill: the prioritized assets of two types.
StartBackfill(j) ==
    /\ quoteJob[j].pc = "new"
    /\ \E assets \in SUBSET active :
          quoteJob' = [quoteJob EXCEPT ![j] = [@ EXCEPT !.kind = "backfill", !.pc = "chunks", !.left = assets]]
    /\ UNCHANGED <<now, active, quoteRow, task, status, events, shown, quotesHistory>>

\* Mutant of Collected: a new chunk begins with no updates.
Collected_Reset(j) == {}

\* The updates of all chunks are collected, and pushed after the last one.
Collected(j) == quoteJob[j].updates

\* The next chunk begins when all assets of the one before are through.
NextChunk(j) ==
    /\ quoteJob[j].pc = "chunks" /\ quoteJob[j].left # {}
    /\ \A a \in Assets : At(j, a, "out")
    /\ \E chunk \in SUBSET quoteJob[j].left :
          /\ Cardinality(chunk) = IF Cardinality(quoteJob[j].left) < ChunkSize
                                  THEN Cardinality(quoteJob[j].left) ELSE ChunkSize
          /\ quoteJob' = [quoteJob EXCEPT ![j].left = @ \ chunk, ![j].updates = Collected(j)]
          /\ task' = [task EXCEPT ![j] = [a \in Assets |-> IF a \in chunk THEN [NoTask EXCEPT !.pc = "fetch"] ELSE @[a]]]
    /\ UNCHANGED <<now, active, quoteRow, status, events, shown, quotesHistory>>

\* fetchQuoteWithRetry: the quote is dated when it is handed out.  data912 answers a request
\* for history with that one quote.
FetchQuote(j, a) ==
    /\ At(j, a, "fetch")
    /\ task' = [task EXCEPT ![j][a] = [pc |-> "save", at |-> now, dates |-> {DateOf(now)}]]
    /\ UNCHANGED <<now, active, quoteRow, quoteJob, status, events, shown, quotesHistory>>

\* fetchHistoricalWithFallback: when data912 fails, Yahoo has a quote for each day.
FetchHistory(j, a) ==
    /\ At(j, a, "fetch") /\ quoteJob[j].kind = "backfill"
    /\ task' = [task EXCEPT ![j][a] = [pc |-> "save", at |-> now, dates |-> 0..DateOf(now)]]
    /\ UNCHANGED <<now, active, quoteRow, quoteJob, status, events, shown, quotesHistory>>

\* No provider has the quote: a refresh goes on without it, a backfill lists the ticker as
\* failed, and a GET shows what is stored.
FetchMisses(j, a) ==
    /\ At(j, a, "fetch")
    /\ TaskEnds(j, a)
    /\ UNCHANGED <<now, active, quoteRow, quoteJob, status, events, shown, quotesHistory>>

\* saveBulkQuotes: an upsert by asset and date, whoever comes last.
SaveQuote(j, a) ==
    /\ At(j, a, "save")
    /\ LET t == task[j][a]
       IN /\ quoteRow' = [quoteRow EXCEPT ![a] = [d \in Dates |-> IF d \in t.dates THEN t.at ELSE @[d]]]
          /\ everStored' = everStored \cup {Quote(a, t.at)}
          /\ crossed' = IF Pending(a) \ {j} # {} \/ t.at < Latest(a) THEN crossed \cup {a} ELSE crossed \ {a}
    /\ IF Refreshes(j)
       THEN TaskTo(j, a, "publish") /\ silent' = silent \ {a}
       ELSE TaskEnds(j, a) /\ silent' = silent \cup {a}
    /\ UNCHANGED <<now, active, quoteJob, status, events, shown>>

\* Mutant of SaveMisses: the error of a save is logged and the update goes on.
SaveMisses_Logged(j, a) ==
    /\ At(j, a, "save")
    /\ IF Refreshes(j) THEN TaskTo(j, a, "publish") ELSE TaskEnds(j, a)
    /\ UNCHANGED <<now, active, quoteRow, quoteJob, status, events, shown, quotesHistory>>

\* A refresh catches the error for that asset, and so does a GET; it ends a backfill, whose
\* other assets of the chunk go on.
SaveMisses(j, a) ==
    /\ At(j, a, "save")
    /\ TaskEnds(j, a)
    /\ IF quoteJob[j].kind = "backfill"
       THEN quoteJob' = [quoteJob EXCEPT ![j].pc = "end", ![j].left = {}] ELSE UNCHANGED quoteJob
    /\ UNCHANGED <<now, active, quoteRow, status, events, shown, quotesHistory>>

\* The event goes out before the update is kept for the push.
PublishQuote(j, a) ==
    /\ At(j, a, "publish")
    /\ events' = events \cup {Quote(a, task[j][a].at)}
    /\ quoteJob' = [quoteJob EXCEPT ![j].updates = @ \cup {Quote(a, task[j][a].at)}]
    /\ TaskEnds(j, a)
    /\ UNCHANGED <<now, active, quoteRow, status, shown, quotesHistory>>

\* The queue fails: the quote is stored, and nobody is told.
PublishMisses(j, a) ==
    /\ At(j, a, "publish")
    /\ TaskEnds(j, a)
    /\ silent' = silent \cup {a}
    /\ UNCHANGED <<now, active, quoteRow, quoteJob, status, events, shown, everStored, crossed>>

Through(j) == quoteJob[j].pc = "chunks" /\ quoteJob[j].left = {} /\ \A a \in Assets : At(j, a, "out")

\* The jobs' handle: emitQuoteUpdated for each update of the run.
PushUpdates(j) ==
    /\ Through(j) /\ Refreshes(j)
    /\ LET updates == quoteJob[j].updates
       IN shown' = [a \in Assets |-> IF \E u \in updates : u.asset = a
                                     THEN (CHOOSE u \in updates : u.asset = a).at ELSE shown[a]]
    /\ quoteJob' = [quoteJob EXCEPT ![j].pc = "status", ![j].updates = {}]
    /\ UNCHANGED <<now, active, quoteRow, task, status, events, quotesHistory>>

\* HistoricalDataJob waits for three refreshes: when one throws, the other two go on to store
\* and to publish, and nothing is pushed.
Orphaned(j) ==
    /\ Through(j) /\ Refreshes(j)
    /\ quoteJob' = [quoteJob EXCEPT ![j].pc = "end", ![j].updates = {}]
    /\ silent' = silent \cup {u.asset : u \in quoteJob[j].updates}
    /\ UNCHANGED <<now, active, quoteRow, task, status, events, shown, everStored, crossed>>

EndRun(j) ==
    /\ Through(j) /\ ~Refreshes(j)
    /\ quoteJob' = [quoteJob EXCEPT ![j].pc = "end"]
    /\ UNCHANGED <<now, active, quoteRow, task, status, events, shown, quotesHistory>>

\* getMarketStatus, before emitMarketStatus: from Redis, or made anew and kept.
GetMarketStatus(j) ==
    /\ quoteJob[j].pc = "status"
    /\ status' = IF now < status.until THEN status ELSE [made |-> now, until |-> now + StatusTtl]
    /\ quoteJob' = [quoteJob EXCEPT ![j].pc = "end"]
    /\ UNCHANGED <<now, active, quoteRow, task, events, shown, quotesHistory>>

\* CatalogMaintenanceJob.handle: an asset past its maturity is no longer active.
Deactivate(a) ==
    /\ a \in active
    /\ active' = active \ {a}
    /\ UNCHANGED <<now, quoteRow, quoteJob, task, status, events, shown, quotesHistory>>

NowPasses ==
    /\ now < LastNow
    /\ now' = now + 1
    /\ UNCHANGED <<active, quoteRow, quoteJob, task, status, events, shown, quotesHistory>>

QuotesNext ==
    \/ \E j \in QuoteJobs :
          \/ StartRefresh(j) \/ StartView(j) \/ StartBackfill(j) \/ NextChunk(j) \/ PushUpdates(j)
          \/ Orphaned(j) \/ EndRun(j) \/ GetMarketStatus(j)
          \/ \E a \in Assets :
                \/ FetchQuote(j, a) \/ FetchHistory(j, a) \/ FetchMisses(j, a) \/ SaveQuote(j, a)
                \/ SaveMisses(j, a) \/ PublishQuote(j, a) \/ PublishMisses(j, a)
    \/ \E a \in Assets : Deactivate(a)
    \/ NowPasses

QuotesSpec == QuotesInit /\ [][QuotesNext]_quotesVars
-----------------------------------------------------------------------------
StoredQuotes == [asset : Assets, at : 1..LastNow]

(* Types; a row's quote was not fetched before the row's date. *)
QuotesTypeOK ==
    /\ now \in 1..LastNow /\ active \subseteq Assets
    /\ \A a \in Assets, d \in Dates : quoteRow[a][d] \in 0..now /\ (quoteRow[a][d] # 0 => DateOf(quoteRow[a][d]) >= d)
    /\ \A j \in QuoteJobs : /\ quoteJob[j].kind \in Kinds /\ quoteJob[j].pc \in {"new", "chunks", "status", "end"}
                            /\ quoteJob[j].left \subseteq Assets /\ quoteJob[j].updates \subseteq StoredQuotes
                            /\ \A a \in Assets : task[j][a].pc \in {"out", "fetch", "save", "publish"}
    /\ status.made \in 0..now /\ events \subseteq StoredQuotes /\ shown \in [Assets -> 0..LastNow]

\* MarketDataService.refreshQuotesByTypes: whatever fails and however runs overlap, no event
\* and no push tells of a quote that was never stored, nor a push of one without an event.
AnnouncedWasStored ==
    /\ events \subseteq everStored
    /\ \A a \in Assets : shown[a] # 0 => Quote(a, shown[a]) \in events

\* The jobs' handle: once no run has an asset's quote still to push, the clients have been
\* shown the latest stored one, unless it was stored by a run that never pushes (a GET, a
\* backfill, a refresh whose event failed), or by runs that overlapped.
ClientsShowStored ==
    \A a \in Assets \ (silent \cup crossed) : Pending(a) = {} => shown[a] = Latest(a)
=============================================================================
