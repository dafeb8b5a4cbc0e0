------------------------------ MODULE NewsFeed ------------------------------
(***************************************************************************)
(* News: NewsAggregationJob runs FetchLatestNewsUseCase, which asks the    *)
(* RSS feeds, stores the articles it does not have, deletes the old ones   *)
(* and announces those it stored.  A run may overlap with the one of a     *)
(* second instance of the service.                                         *)
(***************************************************************************)
EXTENDS Naturals, FiniteSets

CONSTANTS
    Dated,       \* articles whose feed gives their date
    Undated,     \* articles without one: each reading dates them anew
    Overlong,    \* articles whose title or URL does not fit the column
    Instances,   \* instances of the service, each with its job
    Retention,   \* market.newsRetentionDays
    FirstToday,  \* the day on which the behaviour begins
    LastToday    \* bound: the clock

ASSUME NewsAssumption ==
    /\ Dated \cap Undated = {} /\ Overlong \subseteq Dated \cup Undated
    /\ Retention \in Nat /\ FirstToday \in Nat /\ LastToday \in Nat /\ FirstToday <= LastToday

VARIABLES
    today,
    published, \* the dates that the feeds give
    news,      \* the rows of news_articles: URLs with the date they were stored with
    run,       \* instance -> where its run is, and what it has
    announced, \* history: the articles announced so far
    repeated   \* history: dated articles announced again within the retention

newsVars == <<today, published, news, run, announced, repeated>>

Articles == Dated \cup Undated
Item == [url : Articles, at : 0..LastToday]
Urls(items) == {i.url : i \in items}

NewsInit ==
    /\ today = FirstToday
    /\ published \in [Dated -> 0..LastToday]
    /\ news = {}
    /\ run = [r \in Instances |-> [pc |-> "off", has |-> {}]]
    /\ announced = {} /\ repeated = {}

Stays(r, pc, has) == run' = [run EXCEPT ![r] = [pc |-> pc, has |-> has]]

-----------------------------------------------------------------------------
\* onModuleInit registers the job; onModuleDestroy stops it, and a run under way goes on.
StartJob(r) ==
    /\ run[r].pc = "off"
    /\ Stays(r, "idle", {})
    /\ UNCHANGED <<today, published, news, announced, repeated>>

StopJob(r) ==
    /\ run[r].pc = "idle"
    /\ Stays(r, "off", {})
    /\ UNCHANGED <<today, published, news, announced, repeated>>

\* An item of a feed, RSS or Atom, as an article; without a date it is dated now.
Parsed(a) == [url |-> a, at |-> IF a \in Dated THEN published[a] ELSE today]

\* fetchLatestNews: the feeds one after the other, each may fail and each lists what it likes
\* of what is out, old articles too.
FetchLatestNews(r) ==
    /\ run[r].pc = "idle"
    /\ \E urls \in SUBSET {a \in Articles : a \in Dated => published[a] <= today} :
          Stays(r, "fetched", {Parsed(a) : a \in urls})
    /\ UNCHANGED <<today, published, news, announced, repeated>>

\* findExistingUrls, and the filter on its answer.
KeepNew(r) ==
    /\ run[r].pc = "fetched"
    /\ LET new == {i \in run[r].has : i.url \notin Urls(news)}
       IN Stays(r, IF new = {} THEN "clean" ELSE "save", new)
    /\ UNCHANGED <<today, published, news, announced, repeated>>

\* saveMany is one transaction: an article that does not fit, or one that the other instance
\* stored meanwhile, fails them all, and with them the run.
SaveMany(r) ==
    /\ run[r].pc = "save"
    /\ IF Urls(run[r].has) \cap (Urls(news) \cup Overlong) = {}
       THEN /\ news' = news \cup run[r].has
            /\ Stays(r, "clean", run[r].has)
       ELSE Stays(r, "idle", {}) /\ UNCHANGED news
    /\ UNCHANGED <<today, published, announced, repeated>>

\* Mutant of Outdated: the last day of the retention is deleted, too.
Outdated_Early(at) == at + Retention <= today

Outdated(at) == at + Retention < today

\* deleteOlderThan: what was just stored goes as well if it is old.
DeleteOlderThan(r) ==
    /\ run[r].pc = "clean"
    /\ news' = {i \in news : ~Outdated(i.at)}
    /\ Stays(r, IF run[r].has = {} THEN "idle" ELSE "announce", run[r].has)
    /\ UNCHANGED <<today, published, announced, repeated>>

\* emitLatest.
EmitLatest(r) ==
    /\ run[r].pc = "announce"
    /\ announced' = announced \cup Urls(run[r].has)
    /\ repeated' = repeated \cup {i.url : i \in {i \in run[r].has : /\ i.url \in announced \cap Dated
                                                                 /\ i.at + Retention >= today}}
    /\ Stays(r, "idle", {})
    /\ UNCHANGED <<today, published, news>>

\* The database fails: what the run stored stays, and will not be announced.
NewsRunFails(r) ==
    /\ run[r].pc \in {"fetched", "save", "clean"}
    /\ Stays(r, "idle", {})
    /\ UNCHANGED <<today, published, news, announced, repeated>>

TodayPasses ==
    /\ today < LastToday
    /\ today' = today + 1
    /\ UNCHANGED <<published, news, run, announced, repeated>>

NewsNext ==
    \/ \E r \in Instances :
          \/ StartJob(r) \/ StopJob(r) \/ FetchLatestNews(r) \/ KeepNew(r) \/ SaveMany(r)
          \/ DeleteOlderThan(r) \/ EmitLatest(r) \/ NewsRunFails(r)
    \/ TodayPasses

NewsSpec == NewsInit /\ [][NewsNext]_newsVars
-----------------------------------------------------------------------------
(* Types, and the unique index on the URL. *)
NewsTypeOK ==
    /\ today \in 0..LastToday
    /\ news \subseteq Item
    /\ \A i, j \in news : i.url = j.url => i = j
    /\ run \in [Instances -> [pc : {"off", "idle", "fetched", "save", "clean", "announce"}, has : SUBSET Item]]
    /\ announced \subseteq Articles /\ repeated \subseteq Dated

\* FetchLatestNewsUseCase.execute: while a dated article is within the retention, no second run,
\* of this or another instance, announces it again, however often the feeds list it.
RecentNewsOnce == repeated = {}
=============================================================================
