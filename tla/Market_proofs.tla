---------------------------- MODULE Market_proofs ----------------------------
(***************************************************************************)
(* Proofs about the server's market data, for every number of articles,    *)
(* instances, fetches, sites, sources, assets and runs, and any lengths of *)
(* time: what the news announce, how old the data of a quote is, what the  *)
(* record of the providers' health has, what a dollar rate rests on, which *)
(* quotes the clients end up with, what the market's clock says of the     *)
(* next opening, what the movers of the day are, and what an answer from a *)
(* cache was; that every part keeps its types; and that all of it holds of *)
(* the parts running side by side.                                         *)
(***************************************************************************)
EXTENDS ClientLists_proofs, FoldLaws

-----------------------------------------------------------------------------
(* The news. *)

NewsRun == [pc : {"off", "idle", "fetched", "save", "clean", "announce"}, has : SUBSET [url : Articles, at : Nat]]

\* Items of dated articles have their date.
AsPublished(items) == \A i \in items : i.url \in Dated => i.at = published[i.url]

\* A dated article within the retention, and the runs that stored it.
Recent(a) == a \in Dated /\ published[a] + Retention >= today
StoredBy(r, a) == run[r].pc \in {"clean", "announce"} /\ a \in Urls(run[r].has)

\* A recent article that was announced, or is about to be, is in the table, so that no other run
\* can store it; and one run stored it, and will announce it once.
NewsInv ==
    /\ today \in Nat /\ published \in [Dated -> Nat]
    /\ run \in [Instances -> NewsRun]
    /\ AsPublished(news) /\ \A r \in Instances : AsPublished(run[r].has)
    /\ \A a \in announced : Recent(a) => a \in Urls(news)
    /\ \A r \in Instances, a \in Dated : StoredBy(r, a) /\ Recent(a) =>
          /\ a \in Urls(news) /\ a \notin announced
          /\ \A s \in Instances : StoredBy(s, a) => s = r
    /\ RecentNewsOnce

LEMMA NewsInvInit == NewsInit => NewsInv
<1> SUFFICES ASSUME NewsInit PROVE NewsInv
  OBVIOUS
<1>1. today \in Nat /\ published \in [Dated -> Nat]
  BY NewsAssumption DEF NewsInit
<1>2. run \in [Instances -> NewsRun]
  BY DEF NewsInit, NewsRun
<1> QED
  BY <1>1, <1>2 DEF NewsInit, NewsInv, AsPublished, StoredBy, Urls, RecentNewsOnce

\* A step of a run that neither stores, deletes nor announces.
LEMMA NewsStays ==
  ASSUME NewsInv, NEW r \in Instances, NEW pc \in {"off", "idle", "fetched", "save", "clean"},
         NEW has \in SUBSET [url : Articles, at : Nat], Stays(r, pc, has), AsPublished(has),
         pc = "clean" => has = {}, UNCHANGED <<today, published, news, announced, repeated>>
  PROVE  NewsInv'
<1>1. run' \in [Instances -> NewsRun] /\ run'[r].pc = pc /\ run'[r].has = has
      /\ \A s \in Instances \ {r} : run'[s] = run[s]
  BY DEF Stays, NewsInv, NewsRun
<1>2. \A s \in Instances : AsPublished(run[s].has)'
  BY <1>1 DEF NewsInv, AsPublished
<1>3. \A s \in Instances : \A a : StoredBy(s, a)' => StoredBy(s, a)
  BY <1>1 DEF StoredBy, Urls
<1> QED
  BY <1>1, <1>2, <1>3 DEF NewsInv, AsPublished, Recent, Urls, RecentNewsOnce

LEMMA NewsSaved ==
  ASSUME NewsInv, NEW r \in Instances, run[r].pc = "save", Urls(run[r].has) \cap Urls(news) = {},
         news' = news \cup run[r].has, Stays(r, "clean", run[r].has),
         UNCHANGED <<today, published, announced, repeated>>
  PROVE  NewsInv'
<1>1. run' \in [Instances -> NewsRun] /\ run'[r].pc = "clean" /\ run'[r].has = run[r].has
      /\ \A s \in Instances \ {r} : run'[s] = run[s]
  BY DEF Stays, NewsInv, NewsRun
<1>2. AsPublished(news)' /\ \A s \in Instances : AsPublished(run[s].has)'
  BY <1>1 DEF NewsInv, AsPublished
<1>3. Urls(news') = Urls(news) \cup Urls(run[r].has)
  BY DEF Urls
<1>4. \A s \in Instances : \A a : StoredBy(s, a)' <=> StoredBy(s, a) \/ (s = r /\ a \in Urls(run[r].has))
  BY <1>1 DEF StoredBy
<1>5. \A a : Recent(a)' <=> Recent(a)
  BY DEF Recent
<1>6. ASSUME NEW a \in Urls(run[r].has), Recent(a)
      PROVE  a \notin announced /\ \A s \in Instances : ~StoredBy(s, a)
  BY <1>6 DEF NewsInv, Recent
<1>7. ASSUME NEW s \in Instances, NEW a \in Dated, StoredBy(s, a)', Recent(a)
      PROVE  a \in Urls(news') /\ a \notin announced /\ \A o \in Instances : StoredBy(o, a)' => o = s
  <2>1. CASE a \in Urls(run[r].has)
    BY <1>3, <1>4, <1>6, <1>7, <2>1
  <2>2. CASE a \notin Urls(run[r].has)
    BY <1>3, <1>4, <1>7, <2>2 DEF NewsInv
  <2> QED
    BY <2>1, <2>2
<1>8. Urls(news)' = Urls(news')
  BY DEF Urls
<1>9. \A a \in announced' : Recent(a)' => a \in Urls(news)'
  BY <1>3, <1>5, <1>8 DEF NewsInv
<1>10. today' \in Nat /\ published' \in [Dated -> Nat] /\ RecentNewsOnce'
  BY DEF NewsInv, RecentNewsOnce
<1> QED
  BY <1>1, <1>2, <1>5, <1>7, <1>8, <1>9, <1>10 DEF NewsInv

\* What is deleted is not recent.
LEMMA NewsDeleted ==
  ASSUME NewsInv, NEW r \in Instances, DeleteOlderThan(r)
  PROVE  NewsInv'
<1>1. /\ run[r].pc = "clean" /\ news' = {i \in news : ~Outdated(i.at)}
      /\ Stays(r, IF run[r].has = {} THEN "idle" ELSE "announce", run[r].has)
      /\ UNCHANGED <<today, published, announced, repeated>>
  BY DEF DeleteOlderThan
<1>2. /\ run' \in [Instances -> NewsRun] /\ run'[r].pc \in {"idle", "announce"} /\ run'[r].has = run[r].has
      /\ \A s \in Instances \ {r} : run'[s] = run[s]
  BY <1>1 DEF Stays, NewsInv, NewsRun
<1>3. AsPublished(news)' /\ \A s \in Instances : AsPublished(run[s].has)'
  BY <1>1, <1>2 DEF NewsInv, AsPublished
<1>4. \A s \in Instances : \A a : StoredBy(s, a)' => StoredBy(s, a)
  BY <1>1, <1>2 DEF StoredBy
<1>5. ASSUME NEW a \in Dated, Recent(a), a \in Urls(news)
      PROVE  a \in Urls(news)'
  <2>1. PICK i \in news : i.url = a
    BY <1>5 DEF Urls
  <2>2. i.at = published[a] /\ published[a] \in Nat /\ today \in Nat
    BY <2>1 DEF NewsInv, AsPublished
  <2>3. i \in news'
    BY <1>1, <1>5, <2>1, <2>2, NewsAssumption DEF Recent, Outdated
  <2> QED
    BY <2>1, <2>3 DEF Urls
<1>6. \A a : Recent(a)' <=> Recent(a)
  BY <1>1 DEF Recent
<1>7. \A a \in announced' : Recent(a)' => a \in Urls(news)'
  BY <1>1, <1>5, <1>6 DEF NewsInv, Recent
<1>8. today' \in Nat /\ published' \in [Dated -> Nat] /\ RecentNewsOnce'
  BY <1>1 DEF NewsInv, RecentNewsOnce
<1>9. \A s \in Instances, a \in Dated : StoredBy(s, a)' /\ Recent(a)' =>
        /\ a \in Urls(news)' /\ a \notin announced'
        /\ \A o \in Instances : StoredBy(o, a)' => o = s
  BY <1>1, <1>4, <1>5, <1>6 DEF NewsInv
<1> QED
  BY <1>2, <1>3, <1>7, <1>8, <1>9 DEF NewsInv

LEMMA NewsEmitted ==
  ASSUME NewsInv, NEW r \in Instances, EmitLatest(r)
  PROVE  NewsInv'
<1>1. /\ run[r].pc = "announce" /\ announced' = announced \cup Urls(run[r].has) /\ Stays(r, "idle", {})
      /\ UNCHANGED <<today, published, news>>
  BY DEF EmitLatest
<1>2. /\ run' \in [Instances -> NewsRun] /\ run'[r].pc = "idle" /\ run'[r].has = {}
      /\ \A s \in Instances \ {r} : run'[s] = run[s]
  BY <1>1 DEF Stays, NewsInv, NewsRun
<1>3. AsPublished(news)' /\ \A s \in Instances : AsPublished(run[s].has)'
  BY <1>1, <1>2 DEF NewsInv, AsPublished
<1>4. \A s \in Instances : \A a : StoredBy(s, a)' <=> StoredBy(s, a) /\ s # r
  BY <1>1, <1>2 DEF StoredBy
<1>5. \A a \in Urls(run[r].has) : StoredBy(r, a)
  BY <1>1 DEF StoredBy
<1>6. \A a : Recent(a)' <=> Recent(a)
  BY <1>1 DEF Recent
<1>7. Urls(news)' = Urls(news)
  BY <1>1 DEF Urls
<1>8. \A i \in run[r].has : ~(i.url \in announced \cap Dated /\ i.at + Retention >= today)
  <2> SUFFICES ASSUME NEW i \in run[r].has, i.url \in announced, i.url \in Dated, i.at + Retention >= today PROVE FALSE
    OBVIOUS
  <2>1. i.url \in Urls(run[r].has) /\ i.at = published[i.url]
    BY DEF Urls, NewsInv, AsPublished
  <2>2. Recent(i.url)
    BY <2>1 DEF Recent
  <2> QED
    BY <1>5, <2>1, <2>2 DEF NewsInv
<1>9. RecentNewsOnce'
  BY <1>8 DEF EmitLatest, NewsInv, RecentNewsOnce
<1>10. \A a \in announced' : Recent(a)' => a \in Urls(news)'
  BY <1>1, <1>5, <1>6, <1>7 DEF NewsInv, Recent
<1>11. ASSUME NEW s \in Instances, NEW a \in Dated, StoredBy(s, a)', Recent(a)'
       PROVE  /\ a \in Urls(news)' /\ a \notin announced'
              /\ \A o \in Instances : StoredBy(o, a)' => o = s
  BY <1>1, <1>4, <1>5, <1>6, <1>7, <1>11 DEF NewsInv
<1>12. today' \in Nat /\ published' \in [Dated -> Nat]
  BY <1>1 DEF NewsInv
<1> QED
  BY <1>2, <1>3, <1>9, <1>10, <1>11, <1>12 DEF NewsInv

LEMMA NewsInvNext == NewsInv /\ [NewsNext]_newsVars => NewsInv'
<1> SUFFICES ASSUME NewsInv, [NewsNext]_newsVars PROVE NewsInv'
  OBVIOUS
<1>1. ASSUME NEW r \in Instances, StartJob(r) \/ StopJob(r) \/ NewsRunFails(r) PROVE NewsInv'
  <2>1. AsPublished({})
    BY DEF AsPublished
  <2> QED
    BY <1>1, <2>1, NewsStays DEF StartJob, StopJob, NewsRunFails
<1>2. ASSUME NEW r \in Instances, FetchLatestNews(r) PROVE NewsInv'
  <2>1. PICK urls \in SUBSET Articles : Stays(r, "fetched", {Parsed(a) : a \in urls})
    BY <1>2 DEF FetchLatestNews
  <2> DEFINE has == {Parsed(a) : a \in urls}
  <2>2. \A a \in urls : Parsed(a) \in [url : Articles, at : Nat] /\ Parsed(a).url = a
                        /\ (a \in Dated => Parsed(a).at = published[a])
    BY DEF Parsed, NewsInv
  <2>3. has \in SUBSET [url : Articles, at : Nat] /\ AsPublished(has)
    BY <2>2 DEF AsPublished
  <2>4. UNCHANGED <<today, published, news, announced, repeated>>
    BY <1>2 DEF FetchLatestNews
  <2> HIDE DEF has
  <2>5. Stays(r, "fetched", has)
    BY <2>1 DEF has
  <2> QED
    BY <2>3, <2>4, <2>5, NewsStays
<1>3. ASSUME NEW r \in Instances, KeepNew(r) PROVE NewsInv'
  <2> DEFINE has == {i \in run[r].has : i.url \notin Urls(news)}
             pc == IF has = {} THEN "clean" ELSE "save"
  <2>1. Stays(r, pc, has) /\ UNCHANGED <<today, published, news, announced, repeated>>
    BY <1>3 DEF KeepNew
  <2>2. has \in SUBSET [url : Articles, at : Nat] /\ AsPublished(has) /\ pc \in {"clean", "save"} /\ (pc = "clean" => has = {})
    BY DEF NewsInv, NewsRun, AsPublished
  <2> HIDE DEF has, pc
  <2> QED
    BY <2>1, <2>2, NewsStays
<1>4. ASSUME NEW r \in Instances, SaveMany(r) PROVE NewsInv'
  <2>1. CASE Urls(run[r].has) \cap (Urls(news) \cup Overlong) = {}
    BY <1>4, <2>1, NewsSaved DEF SaveMany
  <2>2. CASE Urls(run[r].has) \cap (Urls(news) \cup Overlong) # {}
    <3>1. AsPublished({})
      BY DEF AsPublished
    <3>2. Stays(r, "idle", {}) /\ UNCHANGED <<today, published, news, announced, repeated>>
      BY <1>4, <2>2 DEF SaveMany
    <3> QED
      BY <3>1, <3>2, NewsStays
  <2> QED
    BY <2>1, <2>2
<1>5. CASE TodayPasses
  <2>1. today' = today + 1 /\ today' \in Nat /\ UNCHANGED <<published, news, run, announced, repeated>>
    BY <1>5 DEF TodayPasses, NewsInv
  <2>2. \A a : Recent(a)' => Recent(a)
    BY <2>1, NewsAssumption DEF Recent, NewsInv
  <2> QED
    BY <2>1, <2>2 DEF NewsInv, AsPublished, StoredBy, Urls, RecentNewsOnce
<1>6. CASE UNCHANGED newsVars
  BY <1>6 DEF newsVars, NewsInv, AsPublished, StoredBy, Recent, Urls, RecentNewsOnce
<1> QED
  BY <1>1, <1>2, <1>3, <1>4, <1>5, <1>6, NewsDeleted, NewsEmitted DEF NewsNext

\* FetchLatestNewsUseCase and the two instances of its job, for any articles, feeds, instances and
\* retention: no dated article is announced again while it is within the retention.
THEOREM NewsToldOnce == NewsSpec => []RecentNewsOnce
<1>1. NewsInv => RecentNewsOnce
  BY DEF NewsInv
<1> QED
  BY NewsInvInit, NewsInvNext, <1>1, PTL DEF NewsSpec

-----------------------------------------------------------------------------
(* The providers of quotes. *)

FetchRec == [pc : FetchSteps, symbol : Symbols, left : SUBSET ShareProviders,
             provider : ShareProviders \cup {"none"}, since : Nat, age : Nat]

\* No request that has a timeout is older than it, so that a snapshot was asked for at most one
\* timeout before it was made; what was found was no older than that and the life of a snapshot.
ProvidersInv ==
    /\ instant \in Nat
    /\ snapshot \in [symbols : SUBSET Symbols, asked : Nat, until : Nat]
    /\ snapshot.asked <= instant /\ snapshot.until <= snapshot.asked + Timeout + SnapshotTtl
    /\ robots \in [asked : Nat, closed : BOOLEAN] /\ lastRequest \in Nat
    /\ fetch \in [Fetches -> FetchRec]
    /\ \A f \in Fetches : fetch[f].pc \in {"asks", "robots"} =>
          fetch[f].since <= instant /\ (Timed(f) => instant <= fetch[f].since + Timeout)
    /\ QuoteDataRecent

LEMMA ProvidersInvInit == ProvidersInit => ProvidersInv
<1> SUFFICES ASSUME ProvidersInit PROVE ProvidersInv
  OBVIOUS
<1>1. fetch \in [Fetches -> FetchRec] /\ \A f \in Fetches : fetch[f].pc = "new"
  BY DEF ProvidersInit, NewFetch, FetchRec, FetchSteps, ShareProviders
<1>2. instant \in Nat /\ snapshot = NoSnapshot /\ robots = [asked |-> 0, closed |-> FALSE] /\ lastRequest = 0
  BY ProvidersAssumption DEF ProvidersInit
<1> QED
  BY <1>1, <1>2, ProvidersAssumption DEF ProvidersInv, QuoteDataRecent, NoSnapshot, Timed

\* One fetch changes: what it asks is asked now, and what it found was asked for recently.
LEMMA FetchChanges ==
  ASSUME ProvidersInv, NEW f \in Fetches, NEW h \in FetchRec, fetch' = [fetch EXCEPT ![f] = h],
         h.pc \in {"asks", "robots"} => h.since = instant,
         (h.pc = "found" /\ h.provider # "yahoo-finance") => h.age < SnapshotTtl + Timeout,
         UNCHANGED instant,
         snapshot' \in [symbols : SUBSET Symbols, asked : Nat, until : Nat], snapshot'.asked <= instant,
         snapshot'.until <= snapshot'.asked + Timeout + SnapshotTtl,
         robots' \in [asked : Nat, closed : BOOLEAN], lastRequest' \in Nat
  PROVE  ProvidersInv'
<1>1. fetch' \in [Fetches -> FetchRec] /\ fetch'[f] = h /\ \A g \in Fetches \ {f} : fetch'[g] = fetch[g]
  BY DEF ProvidersInv
<1>2. \A g \in Fetches : fetch'[g].pc \in {"asks", "robots"} =>
         fetch'[g].since <= instant' /\ (Timed(g)' => instant' <= fetch'[g].since + Timeout)
  BY <1>1, ProvidersAssumption DEF ProvidersInv, Timed
<1>3. QuoteDataRecent'
  BY <1>1 DEF ProvidersInv, QuoteDataRecent
<1> QED
  BY <1>1, <1>2, <1>3 DEF ProvidersInv

LEMMA FetchGoesOn ==
  ASSUME ProvidersInv, NEW f \in Fetches, NEW rest \in SUBSET ShareProviders, Missed(f, rest),
         UNCHANGED <<instant, lastRequest>>,
         snapshot' \in [symbols : SUBSET Symbols, asked : Nat, until : Nat], snapshot'.asked <= instant,
         snapshot'.until <= snapshot'.asked + Timeout + SnapshotTtl,
         robots' \in [asked : Nat, closed : BOOLEAN]
  PROVE  ProvidersInv'
<1> DEFINE pc == IF rest = {} THEN "failed" ELSE "next"
           h == [NewFetch(fetch[f].symbol) EXCEPT !.pc = pc, !.left = rest]
<1>1. fetch' = [fetch EXCEPT ![f] = h]
  BY DEF Missed, ProvidersInv
<1>2. pc \in {"failed", "next"} /\ fetch[f].symbol \in Symbols
  BY DEF ProvidersInv, FetchRec
<1> HIDE DEF pc
<1>3. h \in FetchRec /\ h.pc = pc
  BY <1>2 DEF NewFetch, FetchRec, FetchSteps
<1> HIDE DEF h
<1> QED
  BY <1>1, <1>2, <1>3, FetchChanges DEF ProvidersInv

LEMMA FetchFinds ==
  ASSUME ProvidersInv, NEW f \in Fetches, NEW p \in ShareProviders, NEW asked \in Nat, Found(f, p, asked),
         asked <= instant, p # "yahoo-finance" => instant < asked + SnapshotTtl + Timeout,
         UNCHANGED <<instant, robots, lastRequest>>,
         snapshot' \in [symbols : SUBSET Symbols, asked : Nat, until : Nat], snapshot'.asked <= instant,
         snapshot'.until <= snapshot'.asked + Timeout + SnapshotTtl
  PROVE  ProvidersInv'
<1> DEFINE age == instant - asked
           h == [NewFetch(fetch[f].symbol) EXCEPT !.pc = "found", !.provider = p, !.age = age]
<1>1. fetch' = [fetch EXCEPT ![f] = h]
  BY DEF Found, ProvidersInv
<1>2. age \in Nat /\ (p # "yahoo-finance" => age < SnapshotTtl + Timeout) /\ fetch[f].symbol \in Symbols
  BY ProvidersAssumption DEF ProvidersInv, FetchRec
<1> HIDE DEF age
<1>3. h \in FetchRec /\ h.pc = "found" /\ h.provider = p /\ h.age = age
  BY <1>2 DEF NewFetch, FetchRec, FetchSteps, ShareProviders
<1> HIDE DEF h
<1> QED
  BY <1>1, <1>2, <1>3, FetchChanges DEF ProvidersInv

\* A provider is tried.
LEMMA FetchTries ==
  ASSUME ProvidersInv, NEW f \in Fetches, NEW p \in ShareProviders, NEW pc \in {"asks", "robots", "rate"}, NEW since \in Nat,
         Try(f, p, pc, since), pc # "rate" => since = instant,
         UNCHANGED <<instant, snapshot, robots, lastRequest>>
  PROVE  ProvidersInv'
<1> DEFINE h == [fetch[f] EXCEPT !.pc = pc, !.provider = p, !.left = @ \ {p}, !.since = since]
<1>1. fetch[f] \in FetchRec
  BY DEF ProvidersInv
<1>2. fetch' = [fetch EXCEPT ![f] = h]
  BY DEF Try, ProvidersInv
<1>3. h \in FetchRec /\ h.pc = pc /\ h.since = since
  BY <1>1 DEF FetchRec, FetchSteps
<1> HIDE DEF h
<1> QED
  BY <1>2, <1>3, FetchChanges DEF ProvidersInv

LEMMA FetchWaits ==
  ASSUME ProvidersInv, NEW f \in Fetches, NEW pc \in {"asks", "rate"}, NEW since \in Nat, Put(f, pc, since),
         pc = "asks" => since = instant, UNCHANGED <<instant, snapshot>>,
         robots' \in [asked : Nat, closed : BOOLEAN], lastRequest' \in Nat
  PROVE  ProvidersInv'
<1> DEFINE h == [fetch[f] EXCEPT !.pc = pc, !.since = since]
<1>1. fetch[f] \in FetchRec
  BY DEF ProvidersInv
<1>2. fetch' = [fetch EXCEPT ![f] = h]
  BY DEF Put, ProvidersInv
<1>3. h \in FetchRec /\ h.pc = pc /\ h.since = since
  BY <1>1 DEF FetchRec, FetchSteps
<1> HIDE DEF h
<1> QED
  BY <1>2, <1>3, FetchChanges DEF ProvidersInv

LEMMA ProvidersInvNext == ProvidersInv /\ [ProvidersNext]_providersVars => ProvidersInv'
<1> SUFFICES ASSUME ProvidersInv, [ProvidersNext]_providersVars PROVE ProvidersInv'
  OBVIOUS
<1>1. /\ instant \in Nat /\ lastRequest \in Nat /\ robots \in [asked : Nat, closed : BOOLEAN]
      /\ snapshot \in [symbols : SUBSET Symbols, asked : Nat, until : Nat] /\ snapshot.asked \in Nat /\ snapshot.until \in Nat
      /\ snapshot.asked <= instant /\ snapshot.until <= snapshot.asked + Timeout + SnapshotTtl
  BY DEF ProvidersInv
<1>2. \A f \in Fetches : fetch[f].left \subseteq ShareProviders /\ fetch[f].since \in Nat
  BY DEF ProvidersInv, FetchRec
<1>3. \A f \in Fetches : fetch[f].pc \in {"asks", "robots"} =>
          fetch[f].since <= instant /\ (Timed(f) => instant <= fetch[f].since + Timeout)
  BY DEF ProvidersInv
<1>4. ASSUME NEW f \in Fetches, Score(f) PROVE ProvidersInv'
  <2>1. PICK c \in SUBSET ShareProviders : Missed(f, c)
    BY <1>4 DEF Score, ShareProviders, BondProviders
  <2> QED
    BY <1>1, <1>4, <2>1, FetchGoesOn DEF Score
<1>5. ASSUME NEW f \in Fetches, UseSnapshot(f) PROVE ProvidersInv'
  <2>1. UNCHANGED <<instant, snapshot, robots, lastRequest>> /\ instant < snapshot.until
    BY <1>5 DEF UseSnapshot, SnapshotUsable
  <2>2. CASE Found(f, "data912.com", snapshot.asked)
    <3>1. instant < snapshot.asked + SnapshotTtl + Timeout
      BY <1>1, <2>1, ProvidersAssumption
    <3> QED
      BY <1>1, <2>1, <2>2, <3>1, FetchFinds DEF ShareProviders
  <2>3. CASE Missed(f, fetch[f].left \ {"data912.com"})
    BY <1>1, <1>2, <2>1, <2>3, FetchGoesOn
  <2> QED
    BY <1>5, <2>2, <2>3 DEF UseSnapshot
<1>6. ASSUME NEW f \in Fetches, ListsCome(f) PROVE ProvidersInv'
  <2>1. PICK got \in SUBSET Symbols :
           /\ snapshot' = [symbols |-> got, asked |-> fetch[f].since, until |-> instant + SnapshotTtl]
           /\ IF fetch[f].symbol \in got THEN Found(f, "data912.com", fetch[f].since) ELSE Missed(f, fetch[f].left)
    BY <1>6 DEF ListsCome
  <2>2. fetch[f].since \in Nat /\ fetch[f].since <= instant /\ instant <= fetch[f].since + Timeout
        /\ UNCHANGED <<instant, robots, lastRequest>>
    BY <1>2, <1>3, <1>6 DEF ListsCome, Timed
  <2>3. /\ snapshot' \in [symbols : SUBSET Symbols, asked : Nat, until : Nat] /\ snapshot'.asked <= instant
        /\ snapshot'.until <= snapshot'.asked + Timeout + SnapshotTtl
    BY <1>1, <2>1, <2>2, ProvidersAssumption
  <2>4. instant < fetch[f].since + SnapshotTtl + Timeout
    <3> DEFINE n == fetch[f].since
    <3>1. n \in Nat /\ instant \in Nat /\ instant <= n + Timeout
      BY <1>1, <2>2
    <3> HIDE DEF n
    <3>2. instant < n + SnapshotTtl + Timeout
      BY <3>1, ProvidersAssumption
    <3> QED
      BY <3>2 DEF n
  <2>5. CASE Found(f, "data912.com", fetch[f].since)
    BY <1>1, <2>2, <2>3, <2>4, <2>5, FetchFinds DEF ShareProviders
  <2>6. CASE Missed(f, fetch[f].left)
    BY <1>1, <1>2, <2>2, <2>3, <2>6, FetchGoesOn
  <2> QED
    BY <2>1, <2>5, <2>6
<1>7. ASSUME NEW f \in Fetches, NEW p \in ShareProviders, Turn(f, p), Try(f, p, "asks", instant),
             UNCHANGED <<instant, snapshot, robots, lastRequest>>
      PROVE  ProvidersInv'
  BY <1>1, <1>7, FetchTries
<1>8. ASSUME NEW f \in Fetches, AskLists(f) \/ AskByma(f) \/ AskYahoo(f) PROVE ProvidersInv'
  BY <1>7, <1>8 DEF AskLists, AskByma, AskYahoo, Ask, ShareProviders
<1>9. ASSUME NEW f \in Fetches, BymaComes(f) \/ YahooComes(f) \/ PageComes(f) PROVE ProvidersInv'
  <2>1. PICK p \in ShareProviders : fetch[f].pc = "asks" /\ fetch[f].provider = p /\ Found(f, p, fetch[f].since)
                                    /\ UNCHANGED <<instant, snapshot, robots, lastRequest>>
    BY <1>9 DEF BymaComes, YahooComes, PageComes, Comes, ShareProviders
  <2>2. fetch[f].since \in Nat /\ fetch[f].since <= instant
        /\ (p # "yahoo-finance" => instant < fetch[f].since + SnapshotTtl + Timeout)
    BY <1>1, <1>2, <1>3, <2>1, ProvidersAssumption DEF Timed
  <2> QED
    BY <1>1, <2>1, <2>2, FetchFinds
<1>10. ASSUME NEW f \in Fetches, RequestFails(f) PROVE ProvidersInv'
  BY <1>1, <1>2, <1>10, FetchGoesOn DEF RequestFails
<1>11. ASSUME NEW f \in Fetches, CheckRobots(f) PROVE ProvidersInv'
  <2>1. UNCHANGED <<instant, snapshot, robots, lastRequest>> /\ "rava.com" \in ShareProviders
    BY <1>11 DEF CheckRobots, ShareProviders
  <2>2. lastRequest + RateLimit \in Nat
    BY <1>1, ProvidersAssumption
  <2>3. CASE Try(f, "rava.com", "robots", instant)
    BY <1>1, <2>1, <2>3, FetchTries
  <2>4. CASE Missed(f, fetch[f].left \ {"rava.com"})
    BY <1>1, <1>2, <2>1, <2>4, FetchGoesOn
  <2>5. CASE Try(f, "rava.com", "rate", lastRequest + RateLimit)
    BY <1>1, <2>1, <2>2, <2>5, FetchTries
  <2> QED
    BY <1>11, <2>3, <2>4, <2>5 DEF CheckRobots
<1>12. ASSUME NEW f \in Fetches, RobotsComes(f) PROVE ProvidersInv'
  <2>1. PICK closed \in BOOLEAN : /\ robots' = [asked |-> fetch[f].since, closed |-> closed]
                                  /\ IF closed THEN Missed(f, fetch[f].left) ELSE Put(f, "rate", lastRequest + RateLimit)
    BY <1>12 DEF RobotsComes
  <2>2. UNCHANGED <<instant, snapshot, lastRequest>> /\ lastRequest + RateLimit \in Nat
        /\ robots' \in [asked : Nat, closed : BOOLEAN]
    BY <1>1, <1>2, <1>12, <2>1, ProvidersAssumption DEF RobotsComes
  <2>3. Missed(f, fetch[f].left) \/ Put(f, "rate", lastRequest + RateLimit)
    BY <2>1
  <2> QED
    BY <1>1, <1>2, <2>2, <2>3, FetchGoesOn, FetchWaits
<1>13. ASSUME NEW f \in Fetches, AskPage(f) PROVE ProvidersInv'
  BY <1>1, <1>13, FetchWaits DEF AskPage
<1>14. CASE InstantPasses
  <2>1. instant' = instant + 1 /\ UNCHANGED <<snapshot, robots, lastRequest, fetch>>
        /\ \A f \in Fetches : Timed(f) => instant - fetch[f].since < Timeout
    BY <1>14 DEF InstantPasses
  <2>2. \A f \in Fetches : fetch[f].pc \in {"asks", "robots"} =>
          fetch[f].since <= instant + 1 /\ (Timed(f) => instant + 1 <= fetch[f].since + Timeout)
    BY <1>1, <1>2, <1>3, <2>1, ProvidersAssumption
  <2> QED
    BY <1>1, <2>1, <2>2 DEF ProvidersInv, QuoteDataRecent, Timed
<1>15. CASE UNCHANGED providersVars
  BY <1>15 DEF providersVars, ProvidersInv, QuoteDataRecent, Timed
<1> QED
  BY <1>4, <1>5, <1>6, <1>8, <1>9, <1>10, <1>11, <1>12, <1>13, <1>14, <1>15 DEF ProvidersNext

\* ProviderOrchestrator and the snapshot of Data912QuoteClient, for any fetches, life of a snapshot
\* and timeout, and providers in any order: the data of a quote, unless it is one of Yahoo's, was
\* asked for less than that life and one request before the quote is handed out.
THEOREM QuotesAreRecent == ProvidersSpec => []QuoteDataRecent
<1>1. ProvidersInv => QuoteDataRecent
  BY DEF ProvidersInv
<1> QED
  BY ProvidersInvInit, ProvidersInvNext, <1>1, PTL DEF ProvidersSpec

-----------------------------------------------------------------------------
(* The record of the providers' health. *)

CheckRec == [site : Sites, call : Calls, ok : BOOLEAN, at : Nat]
TrackRec == [site : Sites, pc : {"new", "asked", "succeeded", "failed", "handed", "thrown"}, at : Nat]

\* A request has no check before it ended; one whose answer was handed on has its success, dated
\* by that moment, for as long as the retention.
HealthInv ==
    /\ tick \in Nat
    /\ checks \subseteq CheckRec
    /\ tracked \in [Calls -> TrackRec]
    /\ \A k \in checks : /\ tracked[k.call].pc \in {"failed", "handed", "thrown"}
                         /\ tracked[k.call].pc = "handed" => k.ok
    /\ \A c \in Calls : tracked[c].pc = "handed" /\ tracked[c].at >= tick - KeepChecks =>
          \E k \in checks : k.call = c /\ k.ok /\ k.at = tracked[c].at

LEMMA HealthInvInit == HealthInit => HealthInv
  BY HealthAssumption DEF HealthInit, HealthInv, TrackRec

\* A request goes a step further, but is not handed on, and may leave a check.
LEMMA TrackMoves ==
  ASSUME HealthInv, NEW c \in Calls, NEW pc \in {"asked", "succeeded", "failed", "thrown"},
         tracked[c].pc # "handed", TrackedTo(c, pc), UNCHANGED tick,
         \A k \in checks : k.call = c => pc \in {"failed", "thrown"},
         \/ UNCHANGED checks
         \/ pc \in {"failed", "thrown"} /\ \E ok \in BOOLEAN : checks' = checks \cup {Check(c, ok)}
  PROVE  HealthInv'
<1>0. \A ok \in BOOLEAN : Check(c, ok) \in CheckRec /\ Check(c, ok).call = c
  BY DEF Check, CheckRec, HealthInv, TrackRec
<1>1. /\ tracked' \in [Calls -> TrackRec] /\ tracked'[c].pc = pc
      /\ \A d \in Calls \ {c} : tracked'[d] = tracked[d]
  BY DEF TrackedTo, HealthInv, TrackRec
<1>2. /\ checks' \subseteq CheckRec /\ tick' \in Nat /\ checks \subseteq checks'
      /\ \A k \in checks' \ checks : k.call = c /\ pc \in {"failed", "thrown"}
  BY <1>0 DEF HealthInv
<1>3. \A k \in checks' : k.call \in Calls
  BY <1>2 DEF CheckRec
<1>4. \A k \in checks' : /\ tracked'[k.call].pc \in {"failed", "handed", "thrown"}
                         /\ tracked'[k.call].pc = "handed" => k.ok
  BY <1>1, <1>2, <1>3 DEF HealthInv
<1>5. \A d \in Calls : tracked'[d].pc = "handed" => d # c
  BY <1>1
<1> QED
  BY <1>1, <1>2, <1>4, <1>5 DEF HealthInv

LEMMA TrackSucceeds ==
  ASSUME HealthInv, NEW c \in Calls, SaveSuccess(c)
  PROVE  HealthInv'
<1> DEFINE k0 == Check(c, TRUE)
<1>1. /\ tracked[c].pc = "succeeded" /\ checks' = checks \cup {k0} /\ UNCHANGED tick
      /\ tracked' = [tracked EXCEPT ![c] = [tracked[c] EXCEPT !.pc = "handed", !.at = tick]]
  BY DEF SaveSuccess, HealthInv
<1>2. tracked[c] \in TrackRec /\ tick \in Nat
  BY DEF HealthInv
<1>3. [tracked[c] EXCEPT !.pc = "handed", !.at = tick] \in TrackRec
  BY <1>2 DEF TrackRec
<1>4. /\ tracked' \in [Calls -> TrackRec] /\ tracked'[c].pc = "handed" /\ tracked'[c].at = tick
      /\ \A d \in Calls \ {c} : tracked'[d] = tracked[d]
  BY <1>1, <1>2, <1>3 DEF HealthInv, TrackRec
<1>5. k0 \in CheckRec /\ k0.call = c /\ k0.ok /\ k0.at = tick
  BY <1>2 DEF Check, CheckRec, TrackRec
<1> HIDE DEF k0
<1>6. checks' \subseteq CheckRec
  BY <1>1, <1>5 DEF HealthInv
<1>7. \A k \in checks : k.call \in Calls \ {c}
  BY <1>1 DEF HealthInv, CheckRec
<1>8. \A k \in checks' : /\ tracked'[k.call].pc \in {"failed", "handed", "thrown"}
                         /\ tracked'[k.call].pc = "handed" => k.ok
  BY <1>1, <1>4, <1>5, <1>7 DEF HealthInv
<1>9. \A d \in Calls : tracked'[d].pc = "handed" /\ tracked'[d].at >= tick' - KeepChecks =>
          \E k \in checks' : k.call = d /\ k.ok /\ k.at = tracked'[d].at
  BY <1>1, <1>4, <1>5 DEF HealthInv
<1> QED
  BY <1>1, <1>2, <1>4, <1>6, <1>8, <1>9 DEF HealthInv

LEMMA HealthInvNext == HealthInv /\ [HealthNext]_healthVars => HealthInv'
<1> SUFFICES ASSUME HealthInv, [HealthNext]_healthVars PROVE HealthInv'
  OBVIOUS
<1>2. ASSUME NEW c \in Calls, Track(c) \/ OperationEnds(c) PROVE HealthInv'
  <2>1. PICK pc \in {"asked", "succeeded", "failed"} : TrackedTo(c, pc)
    BY <1>2 DEF Track, OperationEnds
  <2>2. tracked[c].pc \in {"new", "asked"} /\ UNCHANGED <<tick, checks>>
    BY <1>2 DEF Track, OperationEnds
  <2>3. \A k \in checks : k.call # c
    BY <2>2 DEF HealthInv
  <2> QED
    BY <2>1, <2>2, <2>3, TrackMoves
<1>3. ASSUME NEW c \in Calls, SuccessIsLost(c) PROVE HealthInv'
  <2>1. /\ tracked[c].pc = "succeeded" /\ TrackedTo(c, "failed") /\ UNCHANGED tick
        /\ checks' \in {checks, checks \cup {Check(c, TRUE)}}
    BY <1>3 DEF SuccessIsLost, AfterLostCheck, TrackedTo
  <2> QED
    BY <2>1, TrackMoves
<1>4. ASSUME NEW c \in Calls, SaveFailure(c) PROVE HealthInv'
  <2>1. /\ tracked[c].pc = "failed" /\ TrackedTo(c, "thrown") /\ UNCHANGED tick
        /\ checks' \in {checks, checks \cup {Check(c, FALSE)}}
    BY <1>4 DEF SaveFailure
  <2> QED
    BY <2>1, TrackMoves
<1>5. CASE CleanUp
  <2>1. checks' \in {checks \ Expired, checks} /\ UNCHANGED <<tick, tracked>>
    BY <1>5 DEF CleanUp
  <2>2. checks' \subseteq checks
    BY <2>1
  <2>3. ASSUME NEW k \in checks, k.at >= tick - KeepChecks PROVE k \in checks'
    <3>1. k.at \in Nat /\ tick \in Nat /\ KeepChecks \in Nat
      BY HealthAssumption DEF HealthInv, CheckRec
    <3> QED
      BY <2>1, <2>3, <3>1 DEF Expired
  <2>4. ASSUME NEW c \in Calls, tracked[c].pc = "handed", tracked[c].at >= tick - KeepChecks
        PROVE  \E k \in checks' : k.call = c /\ k.ok /\ k.at = tracked[c].at
    BY <2>3, <2>4 DEF HealthInv
  <2> QED
    BY <2>1, <2>2, <2>4 DEF HealthInv
<1>6. CASE TickPasses
  <2>1. tick' = tick + 1 /\ tick \in Nat /\ KeepChecks \in Nat /\ UNCHANGED <<checks, tracked>>
    BY <1>6, HealthAssumption DEF TickPasses, HealthInv
  <2>2. \A c \in Calls : tracked[c].at \in Nat
    BY DEF HealthInv, TrackRec
  <2>3. \A c \in Calls : tracked[c].at >= tick' - KeepChecks => tracked[c].at >= tick - KeepChecks
    BY <2>1, <2>2
  <2> QED
    BY <2>1, <2>3 DEF HealthInv
<1>7. ASSUME UNCHANGED <<tick, checks, tracked>> PROVE HealthInv'
  BY <1>7 DEF HealthInv
<1>8. ASSUME NEW r \in Readers, QuerySummaries(r) \/ KeepSnapshot(r) \/ QueryFails(r) PROVE HealthInv'
  BY <1>7, <1>8 DEF QuerySummaries, KeepSnapshot, QueryFails
<1>9. CASE ShowSnapshot \/ UNCHANGED healthVars
  BY <1>7, <1>9 DEF ShowSnapshot, healthVars
<1> QED
  BY <1>2, <1>3, <1>4, <1>5, <1>6, <1>8, <1>9, TrackSucceeds DEF HealthNext

\* ProviderHealthTracker.track and the clean-up, for any sites, requests and retention: an answer
\* that was handed on has its success on record for that long, and never a failure.
THEOREM ChecksAreKept == HealthSpec => []HandedOnIsOnRecord
<1>1. HealthInv => HandedOnIsOnRecord
  BY DEF HealthInv, HandedOnIsOnRecord
<1> QED
  BY HealthInvInit, HealthInvNext, <1>1, PTL DEF HealthSpec

-----------------------------------------------------------------------------
(* The rates. *)

\* Of the sets of a nonempty family of subsets of a finite set, one has no other within it.
LEMMA SmallestSet ==
    ASSUME NEW S, IsFiniteSet(S), NEW F \in SUBSET SUBSET S, F # {}
    PROVE  \E A \in F : \A B \in F : B \subseteq A => B = A
<1>1. IsWellFoundedOn(StrictSubsetOrdering(S), SUBSET S)
  BY FS_StrictSubsetOrderingWellFounded, FS_FiniteSubsetsOfFinite
<1>2. PICK A \in F : \A B \in F : ~(<<B, A>> \in StrictSubsetOrdering(S))
  BY <1>1, WFMin
<1>3. ASSUME NEW B \in F, B \subseteq A PROVE B = A
  BY <1>2, <1>3 DEF StrictSubsetOrdering
<1> QED
  BY <1>3

\* Among finitely many quotes one is the lowest and one the highest.
LEMMA Extremes ==
    ASSUME NEW S, IsFiniteSet(S), NEW rate, \A q \in S : rate[q] \in Nat, S # {}
    PROVE  /\ \E q \in S : \A p \in S : rate[q] <= rate[p]
           /\ \E q \in S : \A p \in S : rate[p] <= rate[q]
<1>1. \E q \in S : \A p \in S : rate[q] <= rate[p]
  <2> DEFINE Under(q) == {p \in S : rate[p] < rate[q]}
             F == {Under(q) : q \in S}
  <2>0. F \in SUBSET SUBSET S /\ F # {}
    OBVIOUS
  <2>1. PICK A \in F : \A B \in F : B \subseteq A => B = A
    <3> HIDE DEF F
    <3> QED
      BY <2>0, SmallestSet
  <2>2. PICK q \in S : A = Under(q)
    OBVIOUS
  <2>3. ASSUME NEW p \in S, rate[p] < rate[q] PROVE FALSE
    <3>1. Under(p) \subseteq Under(q) /\ p \in Under(q) /\ p \notin Under(p)
      BY <2>3
    <3> QED
      BY <2>1, <2>2, <3>1
  <2>4. \A p \in S : rate[q] <= rate[p]
    BY <2>3
  <2> QED
    BY <2>4
<1>2. \E q \in S : \A p \in S : rate[p] <= rate[q]
  <2> DEFINE Above(q) == {p \in S : rate[p] > rate[q]}
             F == {Above(q) : q \in S}
  <2>0. F \in SUBSET SUBSET S /\ F # {}
    OBVIOUS
  <2>1. PICK A \in F : \A B \in F : B \subseteq A => B = A
    <3> HIDE DEF F
    <3> QED
      BY <2>0, SmallestSet
  <2>2. PICK q \in S : A = Above(q)
    OBVIOUS
  <2>3. ASSUME NEW p \in S, rate[p] > rate[q] PROVE FALSE
    <3>1. Above(p) \subseteq Above(q) /\ p \in Above(q) /\ p \notin Above(p)
      BY <2>3
    <3> QED
      BY <2>1, <2>2, <3>1
  <2>4. \A p \in S : rate[p] <= rate[q]
    BY <2>3
  <2> QED
    BY <2>4
<1> QED
  BY <1>1, <1>2

Lower(given, n) == {q \in DOMAIN given : given[q].rate < n}
UpTo(given, n) == {q \in DOMAIN given : given[q].rate <= n}

\* The k-th lowest of at least k quotes is one of their rates, and has its place among them.
LEMMA NthIsThere ==
    ASSUME NEW given, IsFiniteSet(DOMAIN given), \A q \in DOMAIN given : given[q].rate \in Rates,
           NEW k \in 1..Cardinality(DOMAIN given)
    PROVE  /\ Nth(given, k) \in Rates
           /\ Cardinality(Lower(given, Nth(given, k))) < k
           /\ Cardinality(UpTo(given, Nth(given, k))) >= k
<1> DEFINE S == DOMAIN given
           rate == [q \in S |-> given[q].rate]
           K == {q \in S : Cardinality(UpTo(given, rate[q])) >= k}
<1>1. Rates \subseteq Nat
  BY RatesAssumption
<1>2. \A q \in S : rate[q] \in Nat
  BY <1>1
<1>3. Cardinality(S) \in Nat /\ S # {}
  BY FS_CardinalityType, FS_EmptySet
<1>4. K # {}
  <2>1. PICK q \in S : \A p \in S : rate[p] <= rate[q]
    BY <1>2, <1>3, Extremes
  <2>2. UpTo(given, rate[q]) = S
    BY <2>1 DEF UpTo
  <2>3. k <= Cardinality(UpTo(given, rate[q]))
    BY <1>3, <2>2
  <2> QED
    BY <2>3
<1>5. IsFiniteSet(K) /\ K \subseteq S
  BY FS_Subset
<1>6. PICK q \in K : \A p \in K : rate[q] <= rate[p]
  BY <1>2, <1>4, <1>5, Extremes
<1> DEFINE L == Lower(given, rate[q])
<1>7. IsFiniteSet(L) /\ L \subseteq S
  BY FS_Subset DEF Lower
<1>8. Cardinality(L) < k
  <2>1. CASE L = {}
    BY <2>1, FS_EmptySet
  <2>2. CASE L # {}
    <3>0. \A o \in L : rate[o] \in Nat
      BY <1>2, <1>7
    <3>1. PICK p \in L : \A o \in L : rate[o] <= rate[p]
      <4> HIDE DEF L
      <4> QED
        BY <1>7, <2>2, <3>0, Extremes
    <3>2. rate[p] < rate[q] /\ p \in S
      BY <1>7 DEF Lower
    <3>3. UpTo(given, rate[p]) = L
      BY <1>2, <3>1, <3>2 DEF Lower, UpTo
    <3>4. p \notin K
      BY <1>2, <1>5, <1>6, <3>2
    <3> QED
      BY <1>7, <3>2, <3>3, <3>4, FS_CardinalityType
  <2> QED
    BY <2>1, <2>2
<1>9. /\ rate[q] \in Rates /\ Cardinality(Lower(given, rate[q])) < k
      /\ Cardinality(UpTo(given, rate[q])) >= k
  BY <1>5, <1>6, <1>8
<1> HIDE DEF rate, L, K, S
<1>10. \E n \in Rates : Cardinality(Lower(given, n)) < k /\ Cardinality(UpTo(given, n)) >= k
  BY <1>9
<1>11. Nth(given, k) = CHOOSE n \in Rates : Cardinality(Lower(given, n)) < k /\ Cardinality(UpTo(given, n)) >= k
  BY DEF Nth, Lower, UpTo
<1> QED
  BY <1>10, <1>11

\* What ranks higher is not less.
LEMMA NthRises ==
    ASSUME NEW given, IsFiniteSet(DOMAIN given), \A q \in DOMAIN given : given[q].rate \in Rates,
           NEW k \in 1..Cardinality(DOMAIN given), NEW l \in 1..Cardinality(DOMAIN given), k <= l
    PROVE  Nth(given, k) <= Nth(given, l)
<1> DEFINE a == Nth(given, k)
           b == Nth(given, l)
<1>1. /\ a \in Rates /\ Cardinality(Lower(given, a)) < k
      /\ b \in Rates /\ Cardinality(UpTo(given, b)) >= l
  BY NthIsThere
<1>2. Rates \subseteq Nat
  BY RatesAssumption
<1> HIDE DEF a, b
<1>3. ASSUME b < a PROVE FALSE
  <2>1. UpTo(given, b) \subseteq Lower(given, a)
    <3> SUFFICES ASSUME NEW q \in UpTo(given, b) PROVE q \in Lower(given, a)
      OBVIOUS
    <3>1. q \in DOMAIN given /\ given[q].rate <= b /\ given[q].rate \in Nat
      BY <1>2 DEF UpTo
    <3>2. given[q].rate < a
      BY <1>1, <1>2, <1>3, <3>1
    <3> QED
      BY <3>1, <3>2 DEF Lower
  <2>2. IsFiniteSet(Lower(given, a))
    BY FS_Subset DEF Lower
  <2>3. /\ Cardinality(UpTo(given, b)) <= Cardinality(Lower(given, a))
        /\ Cardinality(UpTo(given, b)) \in Nat /\ Cardinality(Lower(given, a)) \in Nat
    BY <2>1, <2>2, FS_Subset, FS_CardinalityType
  <2>4. k \in Nat /\ l \in Nat
    BY FS_CardinalityType
  <2> QED
    BY <1>1, <2>3, <2>4
<1>4. a <= b
  BY <1>1, <1>2, <1>3
<1> QED
  BY <1>4 DEF a, b

\* A row of the sources rests on two quotes, and is within what is left without either end.
RowSound(r) ==
    r.type \in RateTypes =>
        /\ r.count >= 2
        /\ r.count >= 3 => 2 * r.low <= r.double /\ r.double <= 2 * r.high

LEMMA AgreedSound ==
    ASSUME NEW t, NEW answer \in [Quotes -> Quoted \cup {NoQuote}], NEW r \in Agreed(t, answer)
    PROVE  RowSound(r)
<1> DEFINE fresh == {q \in Quotes : answer[q] # NoQuote /\ day - answer[q].at <= MaxSourceAge}
           given == [q \in fresh |-> answer[q]]
           n == Cardinality(fresh)
<1>1. IsFiniteSet(fresh) /\ n \in Nat
  BY RatesAssumption, FS_Subset, FS_CardinalityType
<1>2. /\ n >= 2 /\ r.count = n /\ r.low = Nth(given, 2) /\ r.high = Nth(given, n - 1)
      /\ r.double = Middle(given)
  <2>1. n >= 2
    BY <1>1 DEF Agreed
  <2>2. PICK at : r = NewRow(t, Middle(given), at, n, Nth(given, 2), Nth(given, n - 1))
    BY <1>1, <2>1 DEF Agreed
  <2> QED
    BY <2>1, <2>2 DEF NewRow
<1>3. DOMAIN given = fresh
  OBVIOUS
<1>4. \A q \in fresh : given[q].rate \in Rates
  <2> SUFFICES ASSUME NEW q \in fresh PROVE given[q].rate \in Rates
    OBVIOUS
  <2>1. answer[q] \in Quoted
    OBVIOUS
  <2> QED
    BY <2>1 DEF Quoted
<1> DEFINE i == (n + 1) \div 2
           j == n \div 2 + 1
<1>5. Middle(given) = Nth(given, i) + Nth(given, j)
  BY <1>3 DEF Middle
<1> HIDE DEF fresh, given, n
<1>6. ASSUME n >= 3 PROVE 2 * r.low <= r.double /\ r.double <= 2 * r.high
  <2>1. /\ i \in 1..n /\ j \in 1..n /\ 2 \in 1..n /\ n - 1 \in 1..n
        /\ 2 <= i /\ 2 <= j /\ i <= n - 1 /\ j <= n - 1
    BY <1>1, <1>6
  <2> HIDE DEF i, j
  <2>2. /\ Nth(given, 2) <= Nth(given, i) /\ Nth(given, i) <= Nth(given, n - 1)
        /\ Nth(given, 2) <= Nth(given, j) /\ Nth(given, j) <= Nth(given, n - 1)
    BY <1>1, <1>3, <1>4, <2>1, NthRises DEF n
  <2>3. /\ Nth(given, 2) \in Rates /\ Nth(given, i) \in Rates /\ Nth(given, j) \in Rates
        /\ Nth(given, n - 1) \in Rates
    BY <1>1, <1>3, <1>4, <2>1, NthIsThere DEF n
  <2>4. Rates \subseteq Nat
    BY RatesAssumption
  <2>5. /\ Nth(given, 2) \in Nat /\ Nth(given, i) \in Nat /\ Nth(given, j) \in Nat
        /\ Nth(given, n - 1) \in Nat
    BY <2>3, <2>4
  <2>6. r.low = Nth(given, 2) /\ r.high = Nth(given, n - 1) /\ r.double = Nth(given, i) + Nth(given, j)
    BY <1>2, <1>5
  <2>7. \A a, b, x, y \in Nat : a <= x /\ a <= y /\ x <= b /\ y <= b =>
          2 * a <= x + y /\ x + y <= 2 * b
    OBVIOUS
  <2> QED
    BY <2>2, <2>5, <2>6, <2>7
<1> QED
  BY <1>1, <1>2, <1>6 DEF RowSound

\* Whatever is stored, handed on or pushed came from the sources that way, or from elsewhere.
RatesInv ==
    /\ DOMAIN rateCall = RateCalls
    /\ \A c \in RateCalls : "has" \in DOMAIN rateCall[c]
    /\ \A r \in Shown : RowSound(r)

LEMMA RatesInvInit == RatesInit => RatesInv
BY DEF RatesInit, RatesInv, Shown

\* A call goes on with rows that are sound, or with those of the table.
LEMMA CallGoesOn ==
    ASSUME RatesInv, NEW c \in RateCalls, NEW pc, NEW has, To(c, pc, has),
           rateRow' = rateRow \/ rateRow' = rateRow \cup rateCall[c].has,
           board' \subseteq board \cup rateCall[c].has,
           \A r \in has : r \in Shown \/ RowSound(r)
    PROVE  RatesInv'
<1>1. /\ DOMAIN rateCall' = RateCalls
      /\ \A d \in RateCalls : "has" \in DOMAIN rateCall'[d]
      /\ rateCall'[c].has = has
      /\ \A d \in RateCalls : d # c => rateCall'[d].has = rateCall[d].has
  BY DEF To, RatesInv
<1>2. rateCall[c].has \subseteq Shown /\ rateRow \subseteq Shown /\ board \subseteq Shown
      /\ \A d \in RateCalls : rateCall[d].has \subseteq Shown
  BY DEF Shown
<1>3. \A r \in Shown' : r \in Shown \/ r \in has
  BY <1>1, <1>2 DEF Shown
<1>4. \A r : RowSound(r)' = RowSound(r)
  BY DEF RowSound
<1>5. \A r \in Shown' : RowSound(r)
  BY <1>3 DEF RatesInv
<1> QED
  BY <1>1, <1>5 DEF RatesInv, RowSound

LEMMA OtherSound ==
    ASSUME NEW t \in {"calc", "risk"}, NEW double, NEW at
    PROVE  RowSound(OtherRow(t, double, at))
BY RatesAssumption DEF RowSound, OtherRow, NewRow

LEMMA RatesInvNext == RatesInv /\ [RatesNext]_ratesVars => RatesInv'
<1> SUFFICES ASSUME RatesInv, [RatesNext]_ratesVars PROVE RatesInv'
  OBVIOUS
<1>1. ASSUME UNCHANGED <<rateRow, rateCall, board>> PROVE RatesInv'
  BY <1>1 DEF RatesInv, Shown, RowSound
<1>2. \A c \in RateCalls : rateCall[c].has \subseteq Shown
  BY DEF Shown
\* A call that begins anew has nothing.
<1>3. ASSUME NEW c \in RateCalls, NEW kind,
             rateCall' = [rateCall EXCEPT ![c] = [kind |-> kind, pc |-> "ask", has |-> {}]],
             UNCHANGED <<rateRow, board>>
      PROVE  RatesInv'
  <2>1. /\ DOMAIN rateCall' = RateCalls
        /\ \A d \in RateCalls : "has" \in DOMAIN rateCall'[d]
        /\ \A d \in RateCalls : rateCall'[d].has \subseteq rateCall[d].has
    BY <1>3 DEF RatesInv
  <2>2. \A r \in Shown' : r \in Shown
    BY <1>3, <2>1 DEF Shown
  <2> QED
    BY <2>1, <2>2 DEF RatesInv, RowSound
<1>4. ASSUME NEW c \in RateCalls, BeginCall(c) PROVE RatesInv'
  BY <1>3, <1>4 DEF BeginCall
<1>5. ASSUME NEW c \in RateCalls, AskSources(c) PROVE RatesInv'
  <2>1. PICK answer \in SourceAnswers :
          LET agreed == UNION {Agreed(t, answer[t]) : t \in RateTypes}
          IN  To(c, IF agreed = {} THEN "stored" ELSE "save", agreed)
    BY <1>5 DEF AskSources
  <2> DEFINE agreed == UNION {Agreed(t, answer[t]) : t \in RateTypes}
  <2>2. ASSUME NEW r \in agreed PROVE RowSound(r)
    <3>1. PICK t \in RateTypes : r \in Agreed(t, answer[t])
      BY <2>2
    <3>2. answer[t] \in [Quotes -> Quoted \cup {NoQuote}]
      BY DEF SourceAnswers
    <3> QED
      BY <3>1, <3>2, AgreedSound
  <2>3. PICK pc : To(c, pc, agreed)
    BY <2>1
  <2> HIDE DEF agreed
  <2> QED
    BY <1>5, <2>2, <2>3, CallGoesOn DEF AskSources
<1>6. ASSUME NEW c \in RateCalls, AskRisk(c) PROVE RatesInv'
  <2>1. CASE \E a \in RiskAnswer : To(c, "save", {OtherRow("risk", 2 * a.rate, a.at)})
    BY <1>6, <2>1, OtherSound, CallGoesOn DEF AskRisk
  <2>2. CASE To(c, "stored", {})
    BY <1>6, <2>2, CallGoesOn DEF AskRisk
  <2> QED
    BY <1>6, <2>1, <2>2 DEF AskRisk
<1>7. ASSUME NEW c \in RateCalls, FetchBondPrices(c) PROVE RatesInv'
  <2>1. CASE \E rate \in Implied, at \in 0..day : To(c, "save", {OtherRow("calc", 2 * rate, at)})
    BY <1>7, <2>1, OtherSound, CallGoesOn DEF FetchBondPrices
  <2>2. CASE To(c, "end", {})
    BY <1>7, <2>2, CallGoesOn DEF FetchBondPrices
  <2> QED
    BY <1>7, <2>1, <2>2 DEF FetchBondPrices
<1>8. ASSUME NEW c \in RateCalls, SaveRates(c) PROVE RatesInv'
  <2>1. PICK pc : To(c, pc, rateCall[c].has)
    BY <1>8 DEF SaveRates
  <2> QED
    BY <1>2, <1>8, <2>1, CallGoesOn DEF SaveRates
<1>9. ASSUME NEW c \in RateCalls, SaveFails(c) PROVE RatesInv'
  <2>1. PICK pc : To(c, pc, {})
    BY <1>9 DEF SaveFails
  <2> QED
    BY <1>9, <2>1, CallGoesOn DEF SaveFails
<1>10. ASSUME NEW c \in RateCalls, ReadStored(c) PROVE RatesInv'
  <2>1. PICK pc, types, newest : newest \in LatestOf(types) /\ To(c, pc, newest)
    BY <1>10 DEF ReadStored
  <2>2. newest \subseteq rateRow
    BY <2>1 DEF LatestOf
  <2>3. newest \subseteq Shown
    BY <2>2 DEF Shown
  <2> QED
    BY <1>10, <2>1, <2>3, CallGoesOn DEF ReadStored
<1>11. ASSUME NEW c \in RateCalls, DollarJobPublishes(c) PROVE RatesInv'
  BY <1>3, <1>11 DEF DollarJobPublishes
<1>12. ASSUME NEW c \in RateCalls, RiskJobPublishes(c) \/ CrossValidate(c) \/ SecondAnswer(c) PROVE RatesInv'
  BY <1>2, <1>12, CallGoesOn DEF RiskJobPublishes, CrossValidate, SecondAnswer
<1>13. ASSUME NEW c \in RateCalls, EmitRates(c) PROVE RatesInv'
  BY <1>13, CallGoesOn DEF EmitRates
<1>14. ASSUME NEW c \in RateCalls, RatesStop(c) PROVE RatesInv'
  BY <1>14, CallGoesOn DEF RatesStop
<1>15. CASE DayPasses
  BY <1>1, <1>15 DEF DayPasses
<1>16. CASE UNCHANGED ratesVars
  BY <1>1, <1>16 DEF ratesVars
<1> QED
  BY <1>4, <1>5, <1>6, <1>7, <1>8, <1>9, <1>10, <1>11, <1>12, <1>13, <1>14, <1>15, <1>16 DEF RatesNext

\* MultiSourceDollarClient: for any number of sources, types, rates and calls that overlap, what
\* is stored, handed out or pushed as a rate of the sources rests on two fresh quotes, and of
\* three or more no single one decides.
THEOREM RatesHold == RatesSpec => []OneQuoteCannotMove
<1>1. RatesInv => OneQuoteCannotMove
  BY DEF RatesInv, RowSound, OneQuoteCannotMove
<1> QED
  BY <1>1, RatesInvInit, RatesInvNext, PTL DEF RatesSpec

-----------------------------------------------------------------------------
(* The quotes. *)

DateSets == SUBSET Dates
TaskRec == [pc : {"out", "fetch", "save", "publish"}, at : Nat, dates : DateSets]
Started == SUBSET Assets
UpdateSets == SUBSET [asset : Assets, at : Nat]
JobRec == [kind : Kinds, pc : {"new", "chunks", "status", "end"}, left : Started, updates : UpdateSets]

\* A row's quote is of the row's date or later.
RowsDated ==
    /\ quoteRow \in [Assets -> [Dates -> Nat]]
    /\ \A a \in Assets, d \in Dates : quoteRow[a][d] # 0 => DateOf(quoteRow[a][d]) >= d

\* A run handles an asset once; what it is about to save is dated by the moment it was
\* fetched; what it is about to publish was stored, and what it will push was published.
RunInv(j) ==
    /\ quoteJob[j].pc = "new" =>
          quoteJob[j].kind = "none" /\ quoteJob[j].updates = {} /\ \A a \in Assets : At(j, a, "out")
    /\ quoteJob[j].updates # {} => Refreshes(j) /\ quoteJob[j].pc = "chunks"
    /\ quoteJob[j].updates \subseteq events
    /\ \A a \in quoteJob[j].left : At(j, a, "out") /\ \A u \in quoteJob[j].updates : u.asset # a
    /\ \A a \in Assets : ~At(j, a, "out") =>
          /\ quoteJob[j].pc = "chunks" \/ quoteJob[j].kind = "backfill"
          /\ \A u \in quoteJob[j].updates : u.asset # a
    /\ \A a \in Assets : At(j, a, "save") \/ At(j, a, "publish") =>
          /\ task[j][a].at \in 1..LastNow
          /\ DateOf(task[j][a].at) \in task[j][a].dates
          /\ \A d \in task[j][a].dates : d <= DateOf(task[j][a].at)
    /\ \A a \in Assets : At(j, a, "publish") => Refreshes(j) /\ Quote(a, task[j][a].at) \in everStored

\* What a run has stored of an asset and has yet to push.
Debt(j, a) ==
    IF Refreshes(j) /\ quoteJob[j].pc = "chunks"
    THEN {u \in quoteJob[j].updates : u.asset = a} \cup
         {q \in {Quote(a, task[j][a].at)} : At(j, a, "publish")}
    ELSE {}

\* One run at most owes the clients the latest quote of an asset; if none does, they have it.
DebtInv ==
    \A a \in Assets \ (silent \cup crossed) :
        /\ (\A j \in QuoteJobs : Debt(j, a) = {}) => shown[a] = Latest(a)
        /\ \A j \in QuoteJobs : Debt(j, a) \subseteq {Quote(a, Latest(a))}
        /\ \A j, k \in QuoteJobs : Debt(j, a) # {} /\ Debt(k, a) # {} => j = k

QuotesInv ==
    /\ now \in 1..LastNow
    /\ quoteJob \in [QuoteJobs -> JobRec]
    /\ task \in [QuoteJobs -> [Assets -> TaskRec]]
    /\ RowsDated
    /\ \A j \in QuoteJobs : RunInv(j)
    /\ AnnouncedWasStored
    /\ DebtInv

LEMMA DateType ==
    ASSUME NEW t \in Nat
    PROVE  DateOf(t) \in Nat
BY QuotesAssumption DEF DateOf

LEMMA DatesRise ==
    ASSUME NEW s \in Nat, NEW t \in Nat, s <= t
    PROVE  DateOf(s) <= DateOf(t)
<1>1. DayLength \in Nat \ {0}
  BY QuotesAssumption
<1> QED
  BY <1>1 DEF DateOf

LEMMA DatesKnown ==
    ASSUME NEW t \in 1..LastNow
    PROVE  DateOf(t) \in Nat /\ 0..DateOf(t) \subseteq Dates /\ DateOf(t) \in 0..DateOf(t)
<1>1. t \in Nat /\ LastNow \in Nat /\ t <= LastNow
  BY QuotesAssumption
<1>2. DateOf(t) \in Nat /\ DateOf(LastNow) \in Nat /\ DateOf(t) <= DateOf(LastNow)
  BY <1>1, DateType, DatesRise
<1> QED
  BY <1>2 DEF Dates

LEMMA DatesType == Dates \subseteq Nat /\ IsFiniteSet(Dates)
<1>1. DateOf(LastNow) \in Nat
  BY QuotesAssumption, DateType
<1> QED
  BY <1>1, FS_Interval DEF Dates

\* No row is dated after the latest quote.
LEMMA LatestIs ==
    ASSUME RowsDated, NEW a \in Assets
    PROVE  /\ Latest(a) \in Nat
           /\ \A d \in Dates : quoteRow[a][d] # 0 => d <= DateOf(Latest(a))
<1> DEFINE dates == {d \in Dates : quoteRow[a][d] # 0}
           last == CHOOSE d \in dates : \A e \in dates : e <= d
<1>1. CASE dates = {}
  BY <1>1 DEF Latest
<1>2. CASE dates # {}
  <2>1. dates \subseteq Dates /\ IsFiniteSet(dates)
    BY DatesType, FS_Subset
  <2> DEFINE self == [d \in dates |-> d]
  <2>2. \A d \in dates : self[d] \in Nat
    BY <2>1, DatesType
  <2>3. \E d \in dates : \A e \in dates : self[e] <= self[d]
    <3> HIDE DEF self, dates
    <3> QED
      BY <1>2, <2>1, <2>2, Extremes
  <2>4. last \in dates /\ \A e \in dates : e <= last
    BY <2>3
  <2>5. Latest(a) = quoteRow[a][last]
    BY <1>2 DEF Latest
  <2>6. last \in Dates /\ quoteRow[a][last] # 0
    BY <2>4
  <2> HIDE DEF last
  <2>7. Latest(a) \in Nat /\ DateOf(Latest(a)) >= last
    BY <2>5, <2>6 DEF RowsDated
  <2>8. last \in Nat /\ DateOf(Latest(a)) \in Nat /\ Dates \subseteq Nat
    BY <2>6, <2>7, DatesType, DateType
  <2> QED
    BY <2>4, <2>7, <2>8
<1> QED
  BY <1>1, <1>2

\* A quote that is no older than the latest one becomes it.
LEMMA LatestAfter ==
    ASSUME RowsDated, NEW a \in Assets, NEW t \in 1..LastNow, NEW D \in SUBSET Dates,
           DateOf(t) \in D, \A d \in D : d <= DateOf(t), Latest(a) <= t,
           quoteRow'[a] = [d \in Dates |-> IF d \in D THEN t ELSE quoteRow[a][d]]
    PROVE  Latest(a)' = t
<1> DEFINE dates == {d \in Dates : quoteRow'[a][d] # 0}
<1>1. t \in Nat \ {0} /\ Latest(a) \in Nat /\ DateOf(t) \in Nat /\ Dates \subseteq Nat
  BY LatestIs, DateType, DatesType, QuotesAssumption
<1>2. DateOf(Latest(a)) \in Nat /\ DateOf(Latest(a)) <= DateOf(t)
  BY <1>1, DateType, DatesRise
<1>3. DateOf(t) \in dates
  BY <1>1
<1>4. ASSUME NEW d \in dates PROVE d <= DateOf(t)
  <2>1. CASE d \in D
    BY <2>1
  <2>2. CASE d \notin D
    <3>1. d \in Dates /\ quoteRow[a][d] # 0
      BY <2>2
    <3>2. d <= DateOf(Latest(a)) /\ d \in Nat
      BY <1>1, <3>1, LatestIs
    <3> QED
      BY <1>1, <1>2, <3>2
  <2> QED
    BY <2>1, <2>2
<1>5. \A d \in dates : (\A e \in dates : e <= d) => d = DateOf(t)
  BY <1>1, <1>3, <1>4
<1>6. (CHOOSE d \in dates : \A e \in dates : e <= d) = DateOf(t)
  <2> HIDE DEF dates
  <2> QED
    BY <1>3, <1>4, <1>5
<1>7. Latest(a)' = quoteRow'[a][CHOOSE d \in dates : \A e \in dates : e <= d]
  BY <1>3 DEF Latest
<1> QED
  BY <1>3, <1>6, <1>7

LEMMA QuotesInvInit == QuotesInit => QuotesInv
<1> SUFFICES ASSUME QuotesInit PROVE QuotesInv
  OBVIOUS
<1>1. now \in 1..LastNow
  BY QuotesAssumption DEF QuotesInit
<1>2. quoteJob \in [QuoteJobs -> JobRec]
  BY DEF QuotesInit, JobRec, Kinds, Started, UpdateSets
<1>3. task \in [QuoteJobs -> [Assets -> TaskRec]]
  BY DEF QuotesInit, NoTask, TaskRec, DateSets
<1>4. RowsDated /\ \A a \in Assets, d \in Dates : quoteRow[a][d] = 0
  BY DEF QuotesInit, RowsDated
<1>5. \A j \in QuoteJobs, a \in Assets : At(j, a, "out") /\ quoteJob[j].updates = {} /\ quoteJob[j].left = {} /\ quoteJob[j].kind = "none"
  BY DEF QuotesInit, NoTask, At
<1>6. \A j \in QuoteJobs : quoteJob[j].updates = {} /\ quoteJob[j].left = {} /\ quoteJob[j].kind = "none"
  BY DEF QuotesInit
<1>7. \A j \in QuoteJobs : RunInv(j)
  BY <1>5, <1>6 DEF RunInv, At
<1>8. AnnouncedWasStored
  BY DEF QuotesInit, AnnouncedWasStored
<1>9. \A a \in Assets : Latest(a) = 0 /\ shown[a] = 0
  BY <1>4 DEF QuotesInit, Latest
<1>10. \A j \in QuoteJobs, a \in Assets : Debt(j, a) = {}
  BY <1>6 DEF Debt, Refreshes
<1> QED
  BY <1>1, <1>2, <1>3, <1>4, <1>7, <1>8, <1>9, <1>10 DEF QuotesInv, DebtInv

\* One run moves; the others keep what they have.
LEMMA RunMoves ==
    ASSUME QuotesInv, NEW j \in QuoteJobs, now' \in 1..LastNow,
           quoteJob' \in [QuoteJobs -> JobRec], task' \in [QuoteJobs -> [Assets -> TaskRec]],
           \A k \in QuoteJobs : k # j => quoteJob'[k] = quoteJob[k] /\ task'[k] = task[k],
           events \subseteq events', everStored \subseteq everStored',
           RowsDated', RunInv(j)', AnnouncedWasStored', DebtInv'
    PROVE  QuotesInv'
<1>1. ASSUME NEW k \in QuoteJobs, k # j PROVE RunInv(k)'
  <2>1. quoteJob'[k] = quoteJob[k] /\ task'[k] = task[k] /\ RunInv(k)
    BY <1>1 DEF QuotesInv
  <2> QED
    BY <2>1 DEF RunInv, At, Refreshes
<1> QED
  BY <1>1 DEF QuotesInv

\* A debt stays while the run, its assets' tasks and the database do.
LEMMA DebtsKept ==
    ASSUME QuotesInv, NEW j \in QuoteJobs,
           \A k \in QuoteJobs : k # j => quoteJob'[k] = quoteJob[k] /\ task'[k] = task[k],
           \A a \in Assets \ (silent' \cup crossed') :
              /\ a \notin silent \cup crossed
              /\ Debt(j, a)' = Debt(j, a) /\ shown'[a] = shown[a] /\ quoteRow'[a] = quoteRow[a]
    PROVE  DebtInv'
<1> SUFFICES ASSUME NEW a \in Assets \ (silent' \cup crossed')
             PROVE  /\ (\A k \in QuoteJobs : Debt(k, a)' = {}) => shown'[a] = Latest(a)'
                    /\ \A k \in QuoteJobs : Debt(k, a)' \subseteq {Quote(a, Latest(a)')}
                    /\ \A k, l \in QuoteJobs : Debt(k, a)' # {} /\ Debt(l, a)' # {} => k = l
  BY DEF DebtInv, Quote
<1>1. \A k \in QuoteJobs : k # j => Debt(k, a)' = Debt(k, a)
  BY DEF Debt, At, Refreshes
<1>2. \A k \in QuoteJobs : Debt(k, a)' = Debt(k, a)
  BY <1>1
<1>3. Latest(a)' = Latest(a)
  <2>1. quoteRow'[a] = quoteRow[a]
    OBVIOUS
  <2> QED
    BY <2>1 DEF Latest
<1> QED
  BY <1>2, <1>3 DEF QuotesInv, DebtInv

Telling == <<quoteRow, events, shown, quotesHistory>>

\* A step by which nothing is stored, published or pushed, nor a debt made or dropped.
LEMMA QuietRun ==
    ASSUME QuotesInv, NEW j \in QuoteJobs, UNCHANGED <<now, Telling>>,
           quoteJob' \in [QuoteJobs -> JobRec], task' \in [QuoteJobs -> [Assets -> TaskRec]],
           \A k \in QuoteJobs : k # j => quoteJob'[k] = quoteJob[k] /\ task'[k] = task[k],
           RunInv(j)', \A a \in Assets : Debt(j, a)' = Debt(j, a)
    PROVE  QuotesInv'
<1>1. UNCHANGED <<now, quoteRow, events, shown, everStored, silent, crossed>>
  BY DEF Telling, quotesHistory
<1>2. DebtInv'
  BY <1>1, DebtsKept
<1>3. RowsDated' /\ AnnouncedWasStored' /\ now' \in 1..LastNow
  BY <1>1 DEF QuotesInv, RowsDated, AnnouncedWasStored
<1> QED
  BY <1>1, <1>2, <1>3, RunMoves

\* One task of a run goes on.
LEMMA TaskMoves ==
    ASSUME NEW j \in QuoteJobs, NEW a \in Assets, NEW r \in TaskRec,
           task \in [QuoteJobs -> [Assets -> TaskRec]], task' = [task EXCEPT ![j][a] = r]
    PROVE  /\ task' \in [QuoteJobs -> [Assets -> TaskRec]] /\ task'[j][a] = r
           /\ \A k \in QuoteJobs : k # j => task'[k] = task[k]
           /\ \A b \in Assets : b # a => task'[j][b] = task[j][b]
<1> HIDE DEF TaskRec
<1> QED
  OBVIOUS

LEMMA JobMoves ==
    ASSUME NEW j \in QuoteJobs, NEW r \in JobRec,
           quoteJob \in [QuoteJobs -> JobRec], quoteJob' = [quoteJob EXCEPT ![j] = r]
    PROVE  /\ quoteJob' \in [QuoteJobs -> JobRec] /\ quoteJob'[j] = r
           /\ \A k \in QuoteJobs : k # j => quoteJob'[k] = quoteJob[k]
<1> HIDE DEF JobRec
<1> QED
  OBVIOUS

LEMMA NoTaskType == NoTask \in TaskRec /\ NoTask.pc = "out"
BY DEF NoTask, TaskRec, DateSets

\* A task at work goes on to save or to publish what it has, or ends.
LEMMA TaskGoesOn ==
    ASSUME QuotesInv, NEW j \in QuoteJobs, NEW a \in Assets, ~At(j, a, "out"),
           NEW r \in TaskRec, task' = [task EXCEPT ![j][a] = r], quoteJob'[j] = quoteJob[j],
           events \subseteq events', everStored \subseteq everStored',
           r.pc \in {"save", "publish"} =>
              r.at \in 1..LastNow /\ DateOf(r.at) \in r.dates /\ \A d \in r.dates : d <= DateOf(r.at),
           r.pc = "publish" => Refreshes(j) /\ Quote(a, r.at) \in everStored'
    PROVE  RunInv(j)'
<1>1. /\ task'[j][a] = r
      /\ \A b \in Assets : b # a => task'[j][b] = task[j][b]
  BY TaskMoves DEF QuotesInv
<1>2. RunInv(j)
  BY DEF QuotesInv
<1>3. Refreshes(j)' = Refreshes(j) /\ \A b \in Assets : b # a => \A pc : At(j, b, pc)' = At(j, b, pc)
  BY <1>1 DEF Refreshes, At
<1>4. a \notin quoteJob[j].left /\ \A u \in quoteJob[j].updates : u.asset # a
  BY <1>2 DEF RunInv
<1>5. quoteJob[j].pc # "new" /\ (quoteJob[j].pc = "chunks" \/ quoteJob[j].kind = "backfill")
  BY <1>2 DEF RunInv
<1>6. \A pc : At(j, a, pc)' <=> r.pc = pc
  BY <1>1 DEF At
<1>7. \A b \in quoteJob'[j].left : At(j, b, "out")' /\ \A u \in quoteJob'[j].updates : u.asset # b
  <2>1. quoteJob[j].left \subseteq Assets
    BY DEF QuotesInv, JobRec, Started
  <2> QED
    BY <1>2, <1>3, <1>4, <2>1 DEF RunInv
<1>8. \A b \in Assets : ~At(j, b, "out")' =>
          /\ quoteJob'[j].pc = "chunks" \/ quoteJob'[j].kind = "backfill"
          /\ \A u \in quoteJob'[j].updates : u.asset # b
  BY <1>2, <1>3, <1>4, <1>5 DEF RunInv
<1>9. \A b \in Assets : At(j, b, "save")' \/ At(j, b, "publish")' =>
          /\ task'[j][b].at \in 1..LastNow
          /\ DateOf(task'[j][b].at) \in task'[j][b].dates
          /\ \A d \in task'[j][b].dates : d <= DateOf(task'[j][b].at)
  BY <1>1, <1>2, <1>3, <1>6 DEF RunInv
<1>10. \A b \in Assets : At(j, b, "publish")' => Refreshes(j)' /\ Quote(b, task'[j][b].at) \in everStored'
  BY <1>1, <1>2, <1>3, <1>6 DEF RunInv
<1> QED
  BY <1>2, <1>5, <1>7, <1>8, <1>9, <1>10 DEF RunInv, Refreshes, DateOf, Quote

LEMMA RunStarts ==
    ASSUME QuotesInv, NEW j \in QuoteJobs, NEW kind \in Kinds, NEW assets \in Started,
           quoteJob[j].pc = "new",
           quoteJob' = [quoteJob EXCEPT ![j] = [@ EXCEPT !.kind = kind, !.pc = "chunks", !.left = assets]],
           UNCHANGED <<now, task, Telling>>
    PROVE  QuotesInv'
<1> DEFINE r == [quoteJob[j] EXCEPT !.kind = kind, !.pc = "chunks", !.left = assets]
<1>1. quoteJob[j] \in JobRec /\ RunInv(j) /\ quoteJob \in [QuoteJobs -> JobRec]
  BY DEF QuotesInv
<1>2. r \in JobRec /\ r.pc = "chunks" /\ r.left = assets /\ r.updates = quoteJob[j].updates
  <2> HIDE DEF UpdateSets, Started, Kinds
  <2> QED
    BY <1>1 DEF JobRec
<1>4. /\ quoteJob' \in [QuoteJobs -> JobRec] /\ quoteJob'[j] = r
      /\ \A k \in QuoteJobs : k # j => quoteJob'[k] = quoteJob[k]
  <2> HIDE DEF r
  <2> QED
    BY <1>1, <1>2, JobMoves DEF r
<1>5. quoteJob[j].updates = {} /\ \A a \in Assets : At(j, a, "out")
  BY <1>1 DEF RunInv
<1>6. /\ quoteJob'[j].pc = "chunks" /\ quoteJob'[j].left \subseteq Assets /\ quoteJob'[j].updates = {}
      /\ \A a \in Assets : task'[j][a].pc = "out"
  BY <1>2, <1>4, <1>5 DEF At, Started
<1> HIDE DEF r
<1>7. RunInv(j)'
  BY <1>6 DEF RunInv, At
<1>8. \A a \in Assets : Debt(j, a) = {} /\ Debt(j, a)' = {}
  BY <1>5, <1>6 DEF Debt, At
<1>9. task' \in [QuoteJobs -> [Assets -> TaskRec]]
  BY DEF QuotesInv
<1> QED
  BY <1>4, <1>7, <1>8, <1>9, QuietRun

\* A run with nothing more to push, and no asset at work unless it is a backfill.
LEMMA RunRests ==
    ASSUME QuotesInv, NEW j \in QuoteJobs, quoteJob'[j].pc \in {"status", "end"},
           quoteJob'[j].kind = quoteJob[j].kind, quoteJob'[j].updates = {},
           quoteJob'[j].left \subseteq quoteJob[j].left,
           \A b \in Assets : task'[j][b] = task[j][b] \/ task'[j][b] = NoTask,
           (\A b \in Assets : At(j, b, "out")) \/ quoteJob[j].kind = "backfill",
           events \subseteq events', everStored \subseteq everStored'
    PROVE  RunInv(j)'
<1>1. RunInv(j) /\ quoteJob[j].left \subseteq Assets
  BY DEF QuotesInv, JobRec, Started
<1>2. \A b \in Assets : task'[j][b] = NoTask => At(j, b, "out")'
  BY NoTaskType DEF At
<1>3. \A b \in Assets : task'[j][b] = task[j][b] => \A pc : At(j, b, pc)' = At(j, b, pc)
  BY DEF At
<1>4. \A b \in Assets : At(j, b, "out")' => ~At(j, b, "save")' /\ ~At(j, b, "publish")'
  BY DEF At
<1>5. \A b \in quoteJob'[j].left : At(j, b, "out")'
  BY <1>1, <1>2, <1>3 DEF RunInv
<1>6. \A b \in Assets : ~At(j, b, "out")' => quoteJob'[j].kind = "backfill"
  BY <1>2, <1>3
<1>7. \A b \in Assets : At(j, b, "save")' \/ At(j, b, "publish")' =>
          /\ task'[j][b].at \in 1..LastNow
          /\ DateOf(task'[j][b].at) \in task'[j][b].dates
          /\ \A d \in task'[j][b].dates : d <= DateOf(task'[j][b].at)
  BY <1>1, <1>2, <1>3, <1>4 DEF RunInv
<1>8. \A b \in Assets : At(j, b, "publish")' => Refreshes(j)' /\ Quote(b, task'[j][b].at) \in everStored'
  <2>1. Refreshes(j)' = Refreshes(j)
    BY DEF Refreshes
  <2> QED
    BY <1>1, <1>2, <1>3, <1>4, <2>1 DEF RunInv
<1> QED
  BY <1>5, <1>6, <1>7, <1>8 DEF RunInv, Refreshes, DateOf, Quote

\* A task at work is not in debt unless it is about to publish.
LEMMA TaskDebts ==
    ASSUME NEW j \in QuoteJobs, UNCHANGED quoteJob,
           \A b \in Assets : \/ task'[j][b] = task[j][b]
                             \/ ~At(j, b, "publish") /\ ~At(j, b, "publish")'
    PROVE  \A b \in Assets : Debt(j, b)' = Debt(j, b)
<1> SUFFICES ASSUME NEW b \in Assets PROVE Debt(j, b)' = Debt(j, b)
  OBVIOUS
<1>1. CASE task'[j][b] = task[j][b]
  BY <1>1 DEF Debt, At, Refreshes
<1>2. CASE ~At(j, b, "publish") /\ ~At(j, b, "publish")'
  BY <1>2 DEF Debt, Refreshes
<1> QED
  BY <1>1, <1>2

LEMMA ChunkBegins ==
    ASSUME QuotesInv, NEW j \in QuoteJobs, NextChunk(j)
    PROVE  QuotesInv'
<1>1. /\ quoteJob[j].pc = "chunks" /\ \A a \in Assets : At(j, a, "out")
      /\ UNCHANGED <<now, Telling>>
  BY DEF NextChunk, Telling
<1>2. PICK chunk \in SUBSET quoteJob[j].left :
          /\ quoteJob' = [quoteJob EXCEPT ![j].left = @ \ chunk, ![j].updates = Collected(j)]
          /\ task' = [task EXCEPT ![j] = [a \in Assets |-> IF a \in chunk THEN [NoTask EXCEPT !.pc = "fetch"] ELSE @[a]]]
  BY DEF NextChunk
<1>3. /\ quoteJob \in [QuoteJobs -> JobRec] /\ task \in [QuoteJobs -> [Assets -> TaskRec]] /\ RunInv(j)
      /\ quoteJob[j].left \subseteq Assets
  BY DEF QuotesInv, JobRec, Started
<1>4. /\ quoteJob' \in [QuoteJobs -> JobRec]
      /\ \A k \in QuoteJobs : k # j => quoteJob'[k] = quoteJob[k]
      /\ quoteJob'[j].kind = quoteJob[j].kind /\ quoteJob'[j].pc = quoteJob[j].pc
      /\ quoteJob'[j].updates = quoteJob[j].updates /\ quoteJob'[j].left = quoteJob[j].left \ chunk
  <2>1. quoteJob[j].left \ chunk \in Started
    BY <1>3 DEF Started
  <2> HIDE DEF UpdateSets, Started, Kinds
  <2> QED
    BY <1>2, <1>3, <2>1 DEF JobRec, Collected
<1>5. [NoTask EXCEPT !.pc = "fetch"] \in TaskRec /\ [NoTask EXCEPT !.pc = "fetch"].pc = "fetch"
  BY DEF NoTask, TaskRec, DateSets
<1>6. /\ task' \in [QuoteJobs -> [Assets -> TaskRec]]
      /\ \A k \in QuoteJobs : k # j => task'[k] = task[k]
      /\ \A a \in chunk : task'[j][a].pc = "fetch"
      /\ \A a \in Assets : a \notin chunk => task'[j][a] = task[j][a]
  <2> HIDE DEF TaskRec
  <2> QED
    BY <1>2, <1>3, <1>5
<1>7. \A a \in Assets : IF a \in chunk THEN task'[j][a].pc = "fetch" ELSE task'[j][a].pc = "out"
  BY <1>1, <1>6 DEF At
<1>8. \A a \in chunk : \A u \in quoteJob[j].updates : u.asset # a
  BY <1>3 DEF RunInv
<1>9. RunInv(j)'
  <2>1. \A b \in quoteJob'[j].left : At(j, b, "out")' /\ \A u \in quoteJob'[j].updates : u.asset # b
    BY <1>3, <1>4, <1>7 DEF RunInv, At
  <2>2. \A b \in Assets : ~At(j, b, "out")' => \A u \in quoteJob'[j].updates : u.asset # b
    BY <1>4, <1>7, <1>8 DEF At
  <2>3. \A b \in Assets : ~At(j, b, "save")' /\ ~At(j, b, "publish")'
    BY <1>7 DEF At
  <2>4. quoteJob'[j].updates \subseteq events' /\ (quoteJob'[j].updates # {} => Refreshes(j)')
    BY <1>1, <1>3, <1>4 DEF RunInv, Refreshes, Telling
  <2> QED
    BY <1>1, <1>4, <2>1, <2>2, <2>3, <2>4 DEF RunInv
<1>10. \A a \in Assets : Debt(j, a)' = Debt(j, a)
  <2> SUFFICES ASSUME NEW a \in Assets PROVE Debt(j, a)' = Debt(j, a)
    OBVIOUS
  <2>1. ~At(j, a, "publish") /\ ~At(j, a, "publish")'
    BY <1>1, <1>7 DEF At
  <2> QED
    BY <1>4, <2>1 DEF Debt, Refreshes
<1> QED
  BY <1>1, <1>4, <1>6, <1>9, <1>10, QuietRun

\* A fetch answers, or fails; so may a save that is not a backfill's.
LEMMA FetchAnswers ==
    ASSUME QuotesInv, NEW j \in QuoteJobs, NEW a \in Assets, At(j, a, "fetch") \/ At(j, a, "save"),
           NEW r \in TaskRec, task' = [task EXCEPT ![j][a] = r], UNCHANGED <<now, quoteJob, Telling>>,
           r = NoTask \/ (r.pc = "save" /\ r.at = now /\ DateOf(now) \in r.dates /\ r.dates \subseteq 0..DateOf(now))
    PROVE  QuotesInv'
<1>1. now \in 1..LastNow /\ DateOf(now) \in Nat
  BY DatesKnown DEF QuotesInv
<1>2. r.pc # "publish" /\ (r.pc = "save" => r.at = now /\ DateOf(now) \in r.dates /\ \A d \in r.dates : d <= DateOf(now))
  BY <1>1, NoTaskType
<1>3. RunInv(j)'
  <2>1. ~At(j, a, "out")
    BY DEF At
  <2>2. events \subseteq events' /\ everStored \subseteq everStored'
    BY DEF Telling, quotesHistory
  <2> QED
    BY <1>1, <1>2, <2>1, <2>2, TaskGoesOn
<1>4. /\ task' \in [QuoteJobs -> [Assets -> TaskRec]] /\ task'[j][a] = r
      /\ \A k \in QuoteJobs : k # j => task'[k] = task[k]
      /\ \A b \in Assets : b # a => task'[j][b] = task[j][b]
  BY TaskMoves DEF QuotesInv
<1>5. \A b \in Assets : Debt(j, b)' = Debt(j, b)
  BY <1>2, <1>4, TaskDebts DEF At
<1>6. quoteJob' \in [QuoteJobs -> JobRec]
  BY DEF QuotesInv
<1> QED
  BY <1>3, <1>4, <1>5, <1>6, QuietRun

LEMMA QuoteFetched ==
    ASSUME QuotesInv, NEW j \in QuoteJobs, NEW a \in Assets,
           FetchQuote(j, a) \/ FetchHistory(j, a) \/ FetchMisses(j, a)
    PROVE  QuotesInv'
<1>1. now \in 1..LastNow /\ now \in Nat
  BY DEF QuotesInv
<1>2. DateOf(now) \in Nat /\ 0..DateOf(now) \subseteq Dates /\ DateOf(now) \in 0..DateOf(now)
  BY <1>1, DatesKnown
<1> DEFINE one == [pc |-> "save", at |-> now, dates |-> {DateOf(now)}]
           all == [pc |-> "save", at |-> now, dates |-> 0..DateOf(now)]
<1>3. one \in TaskRec /\ one.pc = "save" /\ one.at = now /\ one.dates = {DateOf(now)}
  <2>1. {DateOf(now)} \in DateSets
    BY <1>2 DEF DateSets
  <2> QED
    BY <1>1, <2>1 DEF TaskRec
<1>4. all \in TaskRec /\ all.pc = "save" /\ all.at = now /\ all.dates = 0..DateOf(now)
  <2>1. 0..DateOf(now) \in DateSets
    BY <1>2 DEF DateSets
  <2> QED
    BY <1>1, <2>1 DEF TaskRec
<1>5. CASE FetchQuote(j, a)
  <2>1. At(j, a, "fetch") /\ task' = [task EXCEPT ![j][a] = one] /\ UNCHANGED <<now, quoteJob, Telling>>
    BY <1>5 DEF FetchQuote, Telling
  <2> HIDE DEF one
  <2> QED
    BY <1>2, <1>3, <2>1, FetchAnswers
<1>6. CASE FetchHistory(j, a)
  <2>1. At(j, a, "fetch") /\ task' = [task EXCEPT ![j][a] = all] /\ UNCHANGED <<now, quoteJob, Telling>>
    BY <1>6 DEF FetchHistory, Telling
  <2> HIDE DEF all
  <2> QED
    BY <1>2, <1>4, <2>1, FetchAnswers
<1>7. CASE FetchMisses(j, a)
  <2>1. At(j, a, "fetch") /\ task' = [task EXCEPT ![j][a] = NoTask] /\ UNCHANGED <<now, quoteJob, Telling>>
    BY <1>7 DEF FetchMisses, Telling, TaskEnds
  <2> QED
    BY <2>1, NoTaskType, FetchAnswers
<1> QED
  BY <1>5, <1>6, <1>7

LEMMA SaveFailed ==
    ASSUME QuotesInv, NEW j \in QuoteJobs, NEW a \in Assets, SaveMisses(j, a)
    PROVE  QuotesInv'
<1>1. At(j, a, "save") /\ task' = [task EXCEPT ![j][a] = NoTask] /\ UNCHANGED <<now, Telling>>
  BY DEF SaveMisses, TaskEnds, Telling
<1>2. CASE quoteJob[j].kind # "backfill"
  <2>1. UNCHANGED quoteJob
    BY <1>2 DEF SaveMisses
  <2> QED
    BY <1>1, <2>1, NoTaskType, FetchAnswers
<1>3. CASE quoteJob[j].kind = "backfill"
  <2>1. quoteJob' = [quoteJob EXCEPT ![j].pc = "end", ![j].left = {}]
    BY <1>3 DEF SaveMisses
  <2>2. quoteJob \in [QuoteJobs -> JobRec] /\ task \in [QuoteJobs -> [Assets -> TaskRec]] /\ RunInv(j)
    BY DEF QuotesInv
  <2>3. /\ quoteJob' \in [QuoteJobs -> JobRec]
        /\ \A k \in QuoteJobs : k # j => quoteJob'[k] = quoteJob[k]
        /\ quoteJob'[j].kind = quoteJob[j].kind /\ quoteJob'[j].pc = "end"
        /\ quoteJob'[j].updates = quoteJob[j].updates /\ quoteJob'[j].left = {}
    <3>1. {} \in Started
      BY DEF Started
    <3> HIDE DEF UpdateSets, Started, Kinds
    <3> QED
      BY <2>1, <2>2, <3>1 DEF JobRec
  <2>4. /\ task' \in [QuoteJobs -> [Assets -> TaskRec]] /\ task'[j][a] = NoTask
        /\ \A k \in QuoteJobs : k # j => task'[k] = task[k]
        /\ \A b \in Assets : b # a => task'[j][b] = task[j][b]
    BY <1>1, <2>2, NoTaskType, TaskMoves
  <2>5. quoteJob[j].updates = {}
    BY <1>3, <2>2 DEF RunInv, Refreshes
  <2>6. RunInv(j)'
    <3>1. events \subseteq events' /\ everStored \subseteq everStored'
      BY <1>1 DEF Telling, quotesHistory
    <3> QED
      BY <1>3, <2>3, <2>4, <2>5, <3>1, RunRests
  <2>7. \A b \in Assets : Debt(j, b)' = Debt(j, b)
    BY <1>3, <2>3 DEF Debt, Refreshes
  <2> QED
    BY <1>1, <2>3, <2>4, <2>6, <2>7, QuietRun
<1> QED
  BY <1>2, <1>3

LEMMA RunOver ==
    ASSUME QuotesInv, NEW j \in QuoteJobs, EndRun(j) \/ GetMarketStatus(j)
    PROVE  QuotesInv'
<1>1. /\ quoteJob' = [quoteJob EXCEPT ![j].pc = "end"] /\ UNCHANGED <<now, task, Telling>>
  BY DEF EndRun, GetMarketStatus, Telling
<1>2. quoteJob \in [QuoteJobs -> JobRec] /\ task \in [QuoteJobs -> [Assets -> TaskRec]] /\ RunInv(j)
  BY DEF QuotesInv
<1>3. /\ quoteJob' \in [QuoteJobs -> JobRec]
      /\ \A k \in QuoteJobs : k # j => quoteJob'[k] = quoteJob[k]
      /\ quoteJob'[j].kind = quoteJob[j].kind /\ quoteJob'[j].pc = "end"
      /\ quoteJob'[j].updates = quoteJob[j].updates /\ quoteJob'[j].left = quoteJob[j].left
  <2> HIDE DEF UpdateSets, Started, Kinds
  <2> QED
    BY <1>1, <1>2 DEF JobRec
<1>4. quoteJob[j].pc = "chunks" => ~Refreshes(j) /\ \A b \in Assets : At(j, b, "out")
  BY DEF EndRun, GetMarketStatus, Through
<1>5. quoteJob[j].updates = {}
  BY <1>2, <1>4 DEF RunInv
<1>6. (\A b \in Assets : At(j, b, "out")) \/ quoteJob[j].kind = "backfill"
  BY <1>2, <1>4 DEF RunInv
<1>7. RunInv(j)'
  <2>1. events \subseteq events' /\ everStored \subseteq everStored' /\ \A b \in Assets : task'[j][b] = task[j][b]
    BY <1>1 DEF Telling, quotesHistory
  <2> QED
    BY <1>3, <1>5, <1>6, <2>1, RunRests
<1>8. \A b \in Assets : Debt(j, b) = {} /\ Debt(j, b)' = {}
  BY <1>3, <1>4 DEF Debt, Refreshes
<1> QED
  BY <1>1, <1>2, <1>3, <1>7, <1>8, QuietRun

\* The quote of a finished run reaches the clients, or nobody.
LEMMA RunPushes ==
    ASSUME QuotesInv, NEW j \in QuoteJobs, PushUpdates(j) \/ Orphaned(j)
    PROVE  QuotesInv'
<1>1. /\ quoteJob[j].pc = "chunks" /\ Refreshes(j) /\ \A b \in Assets : At(j, b, "out")
      /\ UNCHANGED <<now, task, quoteRow, events, everStored, crossed>>
  BY DEF PushUpdates, Orphaned, Through, quotesHistory
<1>2. PICK pc \in {"status", "end"} : quoteJob' = [quoteJob EXCEPT ![j].pc = pc, ![j].updates = {}]
  BY DEF PushUpdates, Orphaned
<1>3. quoteJob \in [QuoteJobs -> JobRec] /\ task \in [QuoteJobs -> [Assets -> TaskRec]] /\ RunInv(j)
  BY DEF QuotesInv
<1>4. /\ quoteJob' \in [QuoteJobs -> JobRec]
      /\ \A k \in QuoteJobs : k # j => quoteJob'[k] = quoteJob[k]
      /\ quoteJob'[j].kind = quoteJob[j].kind /\ quoteJob'[j].pc = pc
      /\ quoteJob'[j].updates = {} /\ quoteJob'[j].left = quoteJob[j].left
  <2>1. {} \in UpdateSets
    BY DEF UpdateSets
  <2> HIDE DEF UpdateSets, Started, Kinds
  <2> QED
    BY <1>2, <1>3, <2>1 DEF JobRec
<1>5. RunInv(j)'
  <2>1. events \subseteq events' /\ everStored \subseteq everStored' /\ \A b \in Assets : task'[j][b] = task[j][b]
    BY <1>1
  <2> QED
    BY <1>1, <1>4, <2>1, RunRests
<1>6. \A b \in Assets : Debt(j, b) = {u \in quoteJob[j].updates : u.asset = b} /\ Debt(j, b)' = {}
  BY <1>1, <1>4 DEF Debt, Refreshes, At
<1>7. \A k \in QuoteJobs, b \in Assets : k # j => Debt(k, b)' = Debt(k, b)
  BY <1>1, <1>4 DEF Debt, Refreshes, At
<1>8. \A u \in quoteJob[j].updates : u \in events /\ u = Quote(u.asset, u.at) /\ u.asset \in Assets
  BY <1>3 DEF RunInv, JobRec, UpdateSets, Quote
<1>9. \A b \in Assets : Latest(b)' = Latest(b)
  BY <1>1 DEF Latest
<1>10. CASE PushUpdates(j)
  <2>1. UNCHANGED silent
    BY <1>10 DEF PushUpdates, quotesHistory
  <2> DEFINE mine == quoteJob[j].updates
  <2>2. \A b \in Assets : shown'[b] = IF \E u \in mine : u.asset = b
                                      THEN (CHOOSE u \in mine : u.asset = b).at ELSE shown[b]
    BY <1>10 DEF PushUpdates
  <2>3. \A b \in Assets : \/ Debt(j, b) = {} /\ shown'[b] = shown[b]
                          \/ \E u \in Debt(j, b) : shown'[b] = u.at /\ u = Quote(b, u.at) /\ u \in events
    <3> SUFFICES ASSUME NEW b \in Assets, \E u \in mine : u.asset = b
                 PROVE  \E u \in Debt(j, b) : shown'[b] = u.at /\ u = Quote(b, u.at) /\ u \in events
      BY <1>6, <2>2
    <3>1. PICK u \in mine : u = CHOOSE v \in mine : v.asset = b
      OBVIOUS
    <3>2. u.asset = b /\ shown'[b] = u.at
      BY <2>2, <3>1
    <3> QED
      BY <1>6, <1>8, <3>2
  <2>4. AnnouncedWasStored'
    BY <1>1, <2>3 DEF QuotesInv, AnnouncedWasStored, Quote
  <2>5. ASSUME NEW b \in Assets \ (silent' \cup crossed')
        PROVE  /\ (\A k \in QuoteJobs : Debt(k, b)' = {}) => shown'[b] = Latest(b)'
               /\ \A k \in QuoteJobs : Debt(k, b)' \subseteq {Quote(b, Latest(b)')}
               /\ \A k, l \in QuoteJobs : Debt(k, b)' # {} /\ Debt(l, b)' # {} => k = l
    <3>1. /\ (\A k \in QuoteJobs : Debt(k, b) = {}) => shown[b] = Latest(b)
          /\ \A k \in QuoteJobs : Debt(k, b) \subseteq {Quote(b, Latest(b))}
          /\ \A k, l \in QuoteJobs : Debt(k, b) # {} /\ Debt(l, b) # {} => k = l
      BY <1>1, <2>1 DEF QuotesInv, DebtInv
    <3>2. /\ \A k \in QuoteJobs : Debt(k, b)' \subseteq Debt(k, b)
          /\ \A k \in QuoteJobs : k # j => Debt(k, b)' = Debt(k, b)
      BY <1>6, <1>7
    <3>3. CASE Debt(j, b) = {}
      <4>1. shown'[b] = shown[b] /\ \A k \in QuoteJobs : Debt(k, b)' = Debt(k, b)
        BY <1>6, <2>3, <3>2, <3>3
      <4> QED
        BY <1>9, <3>1, <4>1
    <3>4. CASE Debt(j, b) # {}
      <4>1. PICK u \in Debt(j, b) : shown'[b] = u.at
        BY <2>3, <3>4
      <4>2. shown'[b] = Latest(b)
        BY <3>1, <4>1 DEF Quote
      <4>3. \A k \in QuoteJobs : Debt(k, b)' = {}
        BY <1>6, <3>1, <3>2, <3>4
      <4> QED
        BY <1>9, <4>2, <4>3
    <3> QED
      BY <3>3, <3>4
  <2>6. DebtInv'
    BY <2>5 DEF DebtInv, Quote
  <2> QED
    BY <1>1, <1>3, <1>4, <1>5, <2>4, <2>6, RunMoves DEF QuotesInv, RowsDated
<1>11. CASE Orphaned(j)
  <2>1. UNCHANGED shown /\ silent' = silent \cup {u.asset : u \in quoteJob[j].updates}
    BY <1>11 DEF Orphaned
  <2>2. \A b \in Assets \ (silent' \cup crossed') :
              /\ b \notin silent \cup crossed
              /\ Debt(j, b)' = Debt(j, b) /\ shown'[b] = shown[b] /\ quoteRow'[b] = quoteRow[b]
    BY <1>1, <1>6, <2>1
  <2>3. DebtInv'
    BY <1>1, <1>4, <2>2, DebtsKept
  <2>4. AnnouncedWasStored'
    BY <1>1, <2>1 DEF QuotesInv, AnnouncedWasStored
  <2> QED
    BY <1>1, <1>3, <1>4, <1>5, <2>3, <2>4, RunMoves DEF QuotesInv, RowsDated
<1> QED
  BY <1>10, <1>11

\* A task that publishes, or fails to, has stored its quote.
LEMMA QuotePublished ==
    ASSUME QuotesInv, NEW j \in QuoteJobs, NEW a \in Assets, PublishQuote(j, a)
    PROVE  QuotesInv'
<1> DEFINE q == Quote(a, task[j][a].at)
<1>1. /\ At(j, a, "publish") /\ task' = [task EXCEPT ![j][a] = NoTask]
      /\ events' = events \cup {q} /\ UNCHANGED <<now, quoteRow, shown, everStored, silent, crossed>>
      /\ quoteJob' = [quoteJob EXCEPT ![j].updates = @ \cup {q}]
  BY DEF PublishQuote, TaskEnds, quotesHistory
<1>2. quoteJob \in [QuoteJobs -> JobRec] /\ task \in [QuoteJobs -> [Assets -> TaskRec]] /\ RunInv(j)
  BY DEF QuotesInv
<1>3. /\ Refreshes(j) /\ quoteJob[j].pc = "chunks" /\ q \in everStored /\ q.asset = a
      /\ a \notin quoteJob[j].left /\ \A u \in quoteJob[j].updates : u.asset # a
  <2>1. Refreshes(j) /\ q \in everStored
    BY <1>1, <1>2 DEF RunInv
  <2>2. ~At(j, a, "out")
    BY <1>1 DEF At
  <2>3. quoteJob[j].pc = "chunks"
    BY <1>2, <2>1, <2>2 DEF RunInv, Refreshes
  <2> QED
    BY <1>2, <2>1, <2>2, <2>3 DEF RunInv, Quote
<1>4. /\ quoteJob' \in [QuoteJobs -> JobRec]
      /\ \A k \in QuoteJobs : k # j => quoteJob'[k] = quoteJob[k]
      /\ quoteJob'[j].kind = quoteJob[j].kind /\ quoteJob'[j].pc = quoteJob[j].pc
      /\ quoteJob'[j].updates = quoteJob[j].updates \cup {q} /\ quoteJob'[j].left = quoteJob[j].left
  <2>1. task[j][a].at \in Nat
    BY <1>2 DEF TaskRec
  <2>2. quoteJob[j].updates \cup {q} \in UpdateSets
    BY <1>2, <2>1 DEF JobRec, UpdateSets, Quote
  <2> HIDE DEF UpdateSets, Started, Kinds, q
  <2> QED
    BY <1>1, <1>2, <2>2 DEF JobRec
<1>5. /\ task' \in [QuoteJobs -> [Assets -> TaskRec]] /\ task'[j][a] = NoTask
      /\ \A k \in QuoteJobs : k # j => task'[k] = task[k]
      /\ \A b \in Assets : b # a => task'[j][b] = task[j][b]
  BY <1>1, <1>2, NoTaskType, TaskMoves
<1>6. At(j, a, "out")' /\ ~At(j, a, "publish")' /\ ~At(j, a, "save")'
  BY <1>5, NoTaskType DEF At
<1>7. \A b \in Assets : b # a => \A pc : At(j, b, pc)' = At(j, b, pc)
  BY <1>5 DEF At
<1>8. Refreshes(j)'
  BY <1>3, <1>4 DEF Refreshes
<1> HIDE DEF q
<1>9. RunInv(j)'
  <2>1. quoteJob'[j].updates \subseteq events'
    BY <1>1, <1>2, <1>4 DEF RunInv
  <2>2. \A b \in quoteJob'[j].left : b \in Assets /\ b # a
    BY <1>2, <1>3, <1>4 DEF JobRec, Started
  <2>3. \A b \in quoteJob'[j].left : At(j, b, "out")' /\ \A u \in quoteJob'[j].updates : u.asset # b
    BY <1>2, <1>3, <1>4, <1>7, <2>2 DEF RunInv
  <2>4. \A b \in Assets : ~At(j, b, "out")' => \A u \in quoteJob'[j].updates : u.asset # b
    BY <1>2, <1>3, <1>4, <1>6, <1>7 DEF RunInv
  <2>5. \A b \in Assets : At(j, b, "save")' \/ At(j, b, "publish")' =>
          /\ task'[j][b].at \in 1..LastNow
          /\ DateOf(task'[j][b].at) \in task'[j][b].dates
          /\ \A d \in task'[j][b].dates : d <= DateOf(task'[j][b].at)
    BY <1>2, <1>5, <1>6, <1>7 DEF RunInv
  <2>6. \A b \in Assets : At(j, b, "publish")' => Refreshes(j)' /\ Quote(b, task'[j][b].at) \in everStored'
    BY <1>1, <1>2, <1>5, <1>6, <1>7, <1>8 DEF RunInv
  <2> QED
    BY <1>3, <1>4, <1>8, <2>1, <2>3, <2>4, <2>5, <2>6 DEF RunInv, Refreshes, DateOf, Quote
<1>10. \A b \in Assets : Debt(j, b)' = Debt(j, b)
  <2> SUFFICES ASSUME NEW b \in Assets PROVE Debt(j, b)' = Debt(j, b)
    OBVIOUS
  <2>1. CASE b = a
    <3>1. Debt(j, a) = {q}
      BY <1>1, <1>3 DEF Debt, q
    <3>2. Debt(j, a)' = {q}
      BY <1>3, <1>4, <1>6, <1>8 DEF Debt
    <3> QED
      BY <2>1, <3>1, <3>2
  <2>2. CASE b # a
    <3>1. {u \in quoteJob'[j].updates : u.asset = b} = {u \in quoteJob[j].updates : u.asset = b}
      BY <1>3, <1>4, <2>2
    <3>2. At(j, b, "publish")' = At(j, b, "publish") /\ task'[j][b] = task[j][b]
      BY <1>5, <1>7, <2>2
    <3> QED
      BY <1>3, <1>4, <1>8, <3>1, <3>2 DEF Debt
  <2> QED
    BY <2>1, <2>2
<1>11. DebtInv'
  BY <1>1, <1>4, <1>5, <1>10, DebtsKept
<1>12. AnnouncedWasStored'
  BY <1>1, <1>3 DEF QuotesInv, AnnouncedWasStored
<1> QED
  BY <1>1, <1>4, <1>5, <1>9, <1>11, <1>12, RunMoves DEF QuotesInv, RowsDated

LEMMA PublishFailed ==
    ASSUME QuotesInv, NEW j \in QuoteJobs, NEW a \in Assets, PublishMisses(j, a)
    PROVE  QuotesInv'
<1>1. /\ At(j, a, "publish") /\ task' = [task EXCEPT ![j][a] = NoTask] /\ silent' = silent \cup {a}
      /\ UNCHANGED <<now, quoteRow, quoteJob, events, shown, everStored, crossed>>
  BY DEF PublishMisses, TaskEnds
<1>2. /\ task' \in [QuoteJobs -> [Assets -> TaskRec]] /\ task'[j][a] = NoTask
      /\ \A k \in QuoteJobs : k # j => task'[k] = task[k]
      /\ \A b \in Assets : b # a => task'[j][b] = task[j][b]
  BY <1>1, NoTaskType, TaskMoves DEF QuotesInv
<1>3. RunInv(j)'
  <2>1. ~At(j, a, "out") /\ NoTask.pc \notin {"save", "publish"}
    BY <1>1, NoTaskType DEF At
  <2> QED
    BY <1>1, <2>1, NoTaskType, TaskGoesOn
<1>4. \A b \in Assets \ (silent' \cup crossed') :
          /\ b \notin silent \cup crossed
          /\ Debt(j, b)' = Debt(j, b) /\ shown'[b] = shown[b] /\ quoteRow'[b] = quoteRow[b]
  BY <1>1, <1>2 DEF Debt, At, Refreshes
<1>5. DebtInv'
  BY <1>1, <1>2, <1>4, DebtsKept
<1>6. AnnouncedWasStored' /\ RowsDated'
  BY <1>1 DEF QuotesInv, AnnouncedWasStored, RowsDated
<1> QED
  BY <1>1, <1>2, <1>3, <1>5, <1>6, RunMoves DEF QuotesInv

LEMMA QuoteSaved ==
    ASSUME QuotesInv, NEW j \in QuoteJobs, NEW a \in Assets, SaveQuote(j, a)
    PROVE  QuotesInv'
<1> DEFINE t == task[j][a].at
           D == task[j][a].dates
           next == [task[j][a] EXCEPT !.pc = "publish"]
<1>1. /\ At(j, a, "save") /\ UNCHANGED <<now, quoteJob, events, shown>>
      /\ quoteRow' = [quoteRow EXCEPT ![a] = [d \in Dates |-> IF d \in D THEN t ELSE quoteRow[a][d]]]
      /\ everStored' = everStored \cup {Quote(a, t)}
      /\ crossed' = IF Pending(a) \ {j} # {} \/ t < Latest(a) THEN crossed \cup {a} ELSE crossed \ {a}
      /\ silent' = IF Refreshes(j) THEN silent \ {a} ELSE silent \cup {a}
  BY DEF SaveQuote
<1>2. task' = [task EXCEPT ![j][a] = IF Refreshes(j) THEN next ELSE NoTask]
  BY DEF SaveQuote, TaskTo, TaskEnds, QuotesInv
<1>3. quoteJob \in [QuoteJobs -> JobRec] /\ task \in [QuoteJobs -> [Assets -> TaskRec]] /\ RunInv(j) /\ RowsDated
  BY DEF QuotesInv
<1>4. /\ t \in 1..LastNow /\ t \in Nat \ {0} /\ D \in SUBSET Dates /\ DateOf(t) \in D /\ (\A d \in D : d <= DateOf(t))
      /\ \A u \in quoteJob[j].updates : u.asset # a
      /\ quoteJob[j].pc = "chunks" \/ quoteJob[j].kind = "backfill"
  <2>1. t \in 1..LastNow /\ DateOf(t) \in D /\ (\A d \in D : d <= DateOf(t))
    BY <1>1, <1>3 DEF RunInv
  <2>2. D \in SUBSET Dates
    BY <1>3 DEF TaskRec, DateSets
  <2>3. ~At(j, a, "out")
    BY <1>1 DEF At
  <2> QED
    BY <1>3, <2>1, <2>2, <2>3, QuotesAssumption DEF RunInv
<1>5. next \in TaskRec /\ next.pc = "publish" /\ next.at = t /\ next.dates = D
  BY <1>3 DEF TaskRec
<1> DEFINE r == IF Refreshes(j) THEN next ELSE NoTask
<1>6. /\ r \in TaskRec /\ r.pc # "save"
      /\ r.pc = "publish" <=> Refreshes(j)
      /\ r.pc = "publish" => r.at = t /\ r.dates = D
  BY <1>5, NoTaskType
<1>7. task' = [task EXCEPT ![j][a] = r]
  BY <1>2
<1> HIDE DEF t, D, next, r
<1>8. /\ task' \in [QuoteJobs -> [Assets -> TaskRec]] /\ task'[j][a] = r
      /\ \A k \in QuoteJobs : k # j => task'[k] = task[k]
      /\ \A b \in Assets : b # a => task'[j][b] = task[j][b]
  BY <1>3, <1>6, <1>7, TaskMoves
<1>9. RunInv(j)'
  <2>1. ~At(j, a, "out")
    BY <1>1 DEF At
  <2>2. r.pc \in {"save", "publish"} =>
          r.at \in 1..LastNow /\ DateOf(r.at) \in r.dates /\ \A d \in r.dates : d <= DateOf(r.at)
    BY <1>4, <1>6
  <2>3. r.pc = "publish" => Refreshes(j) /\ Quote(a, r.at) \in everStored'
    BY <1>1, <1>6
  <2> QED
    BY <1>1, <1>6, <1>7, <2>1, <2>2, <2>3, TaskGoesOn
<1>10. \A b \in Assets : b # a => quoteRow'[b] = quoteRow[b]
  BY <1>1, <1>3 DEF RowsDated
<1>11. quoteRow'[a] = [d \in Dates |-> IF d \in D THEN t ELSE quoteRow[a][d]]
  BY <1>1, <1>3 DEF RowsDated
<1>12. RowsDated'
  <2>1. [d \in Dates |-> IF d \in D THEN t ELSE quoteRow[a][d]] \in [Dates -> Nat]
    BY <1>3, <1>4 DEF RowsDated
  <2>2. quoteRow' \in [Assets -> [Dates -> Nat]]
    BY <1>1, <1>3, <2>1 DEF RowsDated
  <2>3. ASSUME NEW d \in Dates, quoteRow'[a][d] # 0 PROVE DateOf(quoteRow'[a][d]) >= d
    <3>1. CASE d \in D
      <4>1. d <= DateOf(t) /\ quoteRow'[a][d] = t
        BY <1>4, <1>11, <3>1
      <4>2. d \in Nat /\ DateOf(t) \in Nat
        BY <1>4, DatesType, DateType
      <4> QED
        BY <4>1, <4>2
    <3>2. CASE d \notin D
      BY <1>3, <1>11, <2>3, <3>2 DEF RowsDated
    <3> QED
      BY <3>1, <3>2
  <2>4. \A b \in Assets, d \in Dates : quoteRow'[b][d] # 0 => DateOf(quoteRow'[b][d]) >= d
    BY <1>3, <1>10, <2>3 DEF RowsDated
  <2> QED
    BY <2>2, <2>4 DEF RowsDated, DateOf
<1>13. AnnouncedWasStored'
  BY <1>1 DEF QuotesInv, AnnouncedWasStored
<1>14. \A b \in Assets : Debt(j, b)' = IF b = a THEN {q \in {Quote(a, t)} : Refreshes(j) /\ quoteJob[j].pc = "chunks"}
                                      ELSE Debt(j, b)
  <2> SUFFICES ASSUME NEW b \in Assets
               PROVE  Debt(j, b)' = IF b = a THEN {q \in {Quote(a, t)} : Refreshes(j) /\ quoteJob[j].pc = "chunks"}
                                    ELSE Debt(j, b)
    OBVIOUS
  <2>1. Refreshes(j)' = Refreshes(j) /\ quoteJob' = quoteJob
    BY <1>1 DEF Refreshes
  <2>2. CASE b = a
    <3>1. At(j, a, "publish")' <=> Refreshes(j)
      BY <1>6, <1>8 DEF At
    <3>2. Refreshes(j) => task'[j][a].at = t
      BY <1>6, <1>8
    <3>3. {u \in quoteJob[j].updates : u.asset = a} = {}
      BY <1>4
    <3> QED
      BY <2>1, <2>2, <3>1, <3>2, <3>3 DEF Debt, Quote
  <2>3. CASE b # a
    <3>1. task'[j][b] = task[j][b]
      BY <1>8, <2>3
    <3> QED
      BY <2>1, <2>3, <3>1 DEF Debt, At
  <2> QED
    BY <2>2, <2>3
<1>15. \A k \in QuoteJobs, b \in Assets : k # j => Debt(k, b)' = Debt(k, b)
  BY <1>1, <1>8 DEF Debt, Refreshes, At
<1>16. ASSUME NEW b \in Assets \ (silent' \cup crossed')
       PROVE  /\ (\A k \in QuoteJobs : Debt(k, b)' = {}) => shown'[b] = Latest(b)'
              /\ \A k \in QuoteJobs : Debt(k, b)' \subseteq {Quote(b, Latest(b)')}
              /\ \A k, l \in QuoteJobs : Debt(k, b)' # {} /\ Debt(l, b)' # {} => k = l
  <2>1. CASE b # a
    <3>1. b \notin silent \cup crossed /\ quoteRow'[b] = quoteRow[b] /\ shown'[b] = shown[b]
      BY <1>1, <1>10, <1>16, <2>1
    <3>2. \A k \in QuoteJobs : Debt(k, b)' = Debt(k, b)
      BY <1>14, <1>15, <2>1
    <3>3. Latest(b)' = Latest(b)
      BY <3>1 DEF Latest
    <3> QED
      BY <3>1, <3>2, <3>3 DEF QuotesInv, DebtInv
  <2>2. CASE b = a
    <3>1. Refreshes(j) /\ Pending(a) \ {j} = {} /\ ~(t < Latest(a))
      BY <1>1, <1>16, <2>2
    <3>2. quoteJob[j].pc = "chunks"
      BY <1>4, <3>1 DEF Refreshes
    <3>3. Latest(a)' = t
      <4>1. Latest(a) <= t
        BY <1>3, <1>4, <3>1, LatestIs
      <4> QED
        BY <1>3, <1>4, <1>11, <4>1, LatestAfter
    <3>4. \A k \in QuoteJobs : k # j => Debt(k, a)' = {}
      <4> SUFFICES ASSUME NEW k \in QuoteJobs, k # j PROVE Debt(k, a) = {}
        BY <1>15
      <4>1. k \notin Pending(a)
        BY <3>1
      <4> QED
        BY <4>1 DEF Pending, Debt
    <3>5. Debt(j, a)' = {Quote(a, t)}
      BY <1>14, <3>1, <3>2
    <3> QED
      BY <2>2, <3>3, <3>4, <3>5
  <2> QED
    BY <2>1, <2>2
<1>17. DebtInv'
  BY <1>16 DEF DebtInv, Quote
<1> QED
  BY <1>1, <1>3, <1>8, <1>9, <1>12, <1>13, <1>17, RunMoves DEF QuotesInv

LEMMA QuotesInvNext == QuotesInv /\ active \subseteq Assets /\ [QuotesNext]_quotesVars => QuotesInv'
<1> SUFFICES ASSUME QuotesInv, active \subseteq Assets, [QuotesNext]_quotesVars PROVE QuotesInv'
  OBVIOUS
\* Nothing moves but the clock, the market's status or the catalogue.
<1>1. ASSUME UNCHANGED <<quoteJob, task, Telling>>, now' \in 1..LastNow PROVE QuotesInv'
  <2>1. UNCHANGED <<quoteRow, events, shown, everStored, silent, crossed>>
    BY <1>1 DEF Telling, quotesHistory
  <2>2. \A j \in QuoteJobs : RunInv(j)'
    BY <1>1, <2>1 DEF QuotesInv, RunInv, At, Refreshes
  <2>3. \A j \in QuoteJobs, a \in Assets : Debt(j, a)' = Debt(j, a)
    BY <1>1 DEF Debt, At, Refreshes
  <2>4. \A a \in Assets : Latest(a)' = Latest(a)
    BY <2>1 DEF Latest
  <2>5. DebtInv'
    BY <2>1, <2>3, <2>4 DEF QuotesInv, DebtInv, Quote
  <2> QED
    BY <1>1, <2>1, <2>2, <2>5 DEF QuotesInv, RowsDated, AnnouncedWasStored
<1>2. now \in 1..LastNow /\ LastNow \in Nat
  BY QuotesAssumption DEF QuotesInv
<1>3. ASSUME NEW j \in QuoteJobs, StartRefresh(j) PROVE QuotesInv'
  <2>1. PICK assets \in Started :
          quoteJob' = [quoteJob EXCEPT ![j] = [@ EXCEPT !.kind = "refresh", !.pc = "chunks", !.left = assets]]
    BY <1>3 DEF StartRefresh, Started
  <2> QED
    BY <1>3, <2>1, RunStarts DEF StartRefresh, Telling, Kinds
<1>4. ASSUME NEW j \in QuoteJobs, StartView(j) PROVE QuotesInv'
  <2>1. PICK a \in active :
          quoteJob' = [quoteJob EXCEPT ![j] = [@ EXCEPT !.kind = "view", !.pc = "chunks", !.left = {a}]]
    BY <1>4 DEF StartView
  <2>2. {a} \in Started
    BY DEF Started
  <2> QED
    BY <1>4, <2>1, <2>2, RunStarts DEF StartView, Telling, Kinds
<1>5. ASSUME NEW j \in QuoteJobs, StartBackfill(j) PROVE QuotesInv'
  <2>1. PICK assets \in Started :
          quoteJob' = [quoteJob EXCEPT ![j] = [@ EXCEPT !.kind = "backfill", !.pc = "chunks", !.left = assets]]
    BY <1>5 DEF StartBackfill, Started
  <2> QED
    BY <1>5, <2>1, RunStarts DEF StartBackfill, Telling, Kinds
<1>6. ASSUME NEW j \in QuoteJobs,
             NextChunk(j) \/ PushUpdates(j) \/ Orphaned(j) \/ EndRun(j) \/ GetMarketStatus(j)
      PROVE  QuotesInv'
  BY <1>6, ChunkBegins, RunPushes, RunOver
<1>7. ASSUME NEW j \in QuoteJobs, NEW a \in Assets,
             \/ FetchQuote(j, a) \/ FetchHistory(j, a) \/ FetchMisses(j, a) \/ SaveQuote(j, a)
             \/ SaveMisses(j, a) \/ PublishQuote(j, a) \/ PublishMisses(j, a)
      PROVE  QuotesInv'
  BY <1>7, QuoteFetched, QuoteSaved, SaveFailed, QuotePublished, PublishFailed
<1>8. ASSUME NEW a \in Assets, Deactivate(a) PROVE QuotesInv'
  BY <1>1, <1>2, <1>8 DEF Deactivate, Telling
<1>9. CASE NowPasses
  BY <1>1, <1>2, <1>9 DEF NowPasses, Telling
<1>10. CASE UNCHANGED quotesVars
  BY <1>1, <1>2, <1>10 DEF quotesVars, Telling, quotesHistory
<1> QED
  BY <1>3, <1>4, <1>5, <1>6, <1>7, <1>8, <1>9, <1>10 DEF QuotesNext

LEMMA ActiveNext == active \subseteq Assets /\ [QuotesNext]_quotesVars => (active \subseteq Assets)'
<1> SUFFICES ASSUME active \subseteq Assets, [QuotesNext]_quotesVars PROVE active' \subseteq active
  OBVIOUS
<1>1. ASSUME NEW j \in QuoteJobs,
             \/ StartRefresh(j) \/ StartView(j) \/ StartBackfill(j) \/ NextChunk(j) \/ PushUpdates(j)
             \/ Orphaned(j) \/ EndRun(j) \/ GetMarketStatus(j)
      PROVE  UNCHANGED active
  BY <1>1 DEF StartRefresh, StartView, StartBackfill, NextChunk, PushUpdates, Orphaned, EndRun, GetMarketStatus
<1>2. ASSUME NEW j \in QuoteJobs, NEW a \in Assets,
             \/ FetchQuote(j, a) \/ FetchHistory(j, a) \/ FetchMisses(j, a) \/ SaveQuote(j, a)
             \/ SaveMisses(j, a) \/ PublishQuote(j, a) \/ PublishMisses(j, a)
      PROVE  UNCHANGED active
  BY <1>2 DEF FetchQuote, FetchHistory, FetchMisses, SaveQuote, SaveMisses, PublishQuote, PublishMisses
<1>3. ASSUME NEW a \in Assets, Deactivate(a) PROVE active' \subseteq active
  BY <1>3 DEF Deactivate
<1>4. CASE NowPasses \/ UNCHANGED quotesVars
  BY <1>4 DEF NowPasses, quotesVars
<1> QED
  BY <1>1, <1>2, <1>3, <1>4 DEF QuotesNext

\* A run owes the clients the quotes of an asset exactly when it is pending.
LEMMA DebtsArePending ==
    ASSUME QuotesInv, NEW a \in Assets, Pending(a) = {}, NEW j \in QuoteJobs
    PROVE  Debt(j, a) = {}
<1>1. j \notin Pending(a)
  OBVIOUS
<1> QED
  BY <1>1 DEF Pending, Debt

\* MarketDataService: for any number of runs of the jobs, of assets, chunks and days, no event or
\* push tells of a quote that was never stored, and once no run has a quote of an asset still to
\* push, the clients have the latest stored one, unless it was stored by a run that never
\* pushes or by runs that overlapped.
THEOREM QuotesArrive == QuotesSpec => []QuotesReachClients
<1>1. QuotesInv => QuotesReachClients
  <2> SUFFICES ASSUME QuotesInv PROVE AnnouncedWasStored /\ ClientsShowStored
    BY DEF QuotesReachClients
  <2>1. ASSUME NEW a \in Assets \ (silent \cup crossed), Pending(a) = {} PROVE shown[a] = Latest(a)
    <3>1. \A j \in QuoteJobs : Debt(j, a) = {}
      BY <2>1, DebtsArePending
    <3> QED
      BY <3>1 DEF QuotesInv, DebtInv
  <2> QED
    BY <2>1 DEF QuotesInv, ClientsShowStored
<1>2. QuotesInit => active \subseteq Assets
  BY DEF QuotesInit
<1> QED
  BY <1>1, <1>2, QuotesInvInit, QuotesInvNext, ActiveNext, PTL DEF QuotesSpec

-----------------------------------------------------------------------------
(* The market's hours. *)

\* A moment is a day and a time of it, and only one.
LEMMA DivLaw ==
  ASSUME NEW S \in Nat \ {0}, NEW t \in Nat
  PROVE  t \div S \in Nat /\ t % S \in 0 .. S - 1 /\ t = S * (t \div S) + (t % S)
  OBVIOUS

LEMMA LaterDays ==
  ASSUME NEW S \in Nat, NEW a \in Nat, NEW b \in Nat, a > b
  PROVE  S * a >= S * b + S
<1>1. PICK c \in Nat : a = b + 1 + c
  <2>1. a - b - 1 \in Nat /\ a = b + 1 + (a - b - 1)
    OBVIOUS
  <2> QED
    BY <2>1
<1>2. S * a = S * b + S + S * c
  BY <1>1
<1>3. S * c \in Nat
  OBVIOUS
<1>4. S * b \in Nat
  OBVIOUS
<1> QED
  BY <1>2, <1>3, <1>4

LEMMA DivIs ==
  ASSUME NEW S \in Nat \ {0}, NEW t \in Nat, NEW e \in Nat, NEW m \in 0 .. S - 1, t = S * e + m
  PROVE  t \div S = e /\ t % S = m
<1>1. t \div S \in Nat /\ t % S \in 0 .. S - 1 /\ t = S * (t \div S) + (t % S)
  BY DivLaw
<1>2. ~(t \div S > e)
  BY <1>1, LaterDays
<1>3. ~(e > t \div S)
  BY <1>1, LaterDays
<1> QED
  BY <1>1, <1>2, <1>3

\* The moment of a time of a day.
MomentOf(e, m) == StepsOfDay * e + m

LEMMA AtLaws ==
  ASSUME NEW e \in Nat, NEW m \in 0 .. StepsOfDay - 1
  PROVE  /\ MomentOf(e, m) \in Nat /\ TimeOf(MomentOf(e, m)) = m /\ WeekdayOf(MomentOf(e, m)) = e % 7
         /\ Weekend(MomentOf(e, m)) <=> e % 7 \in {0, 6}
         /\ DayOf(MomentOf(e, m)) = StepsOfDay * e /\ StepsOfDay * e \in Nat
<1>1. StepsOfDay \in Nat \ {0}
  BY HoursAssumption
<1>2. StepsOfDay * e \in Nat /\ MomentOf(e, m) \in Nat
  BY <1>1 DEF MomentOf
<1>3. MomentOf(e, m) \div StepsOfDay = e /\ MomentOf(e, m) % StepsOfDay = m
  BY <1>1, <1>2, DivIs DEF MomentOf
<1>4. MomentOf(e, m) - m = StepsOfDay * e
  BY <1>2 DEF MomentOf
<1> QED
  BY <1>2, <1>3, <1>4 DEF TimeOf, WeekdayOf, Weekend, DayOf, Sunday, Saturday

LEMMA EveryMoment ==
  ASSUME NEW t \in Nat
  PROVE  \E e \in Nat, m \in 0 .. StepsOfDay - 1 : t = MomentOf(e, m)
<1>1. StepsOfDay \in Nat \ {0}
  BY HoursAssumption
<1> QED
  BY <1>1, DivLaw DEF MomentOf

\* What Opens chooses is the only one of its kind.
LEMMA OpensIs ==
  ASSUME NEW t \in Nat, NEW s \in t + 1 .. t + 4 * StepsOfDay, ~Weekend(s), TimeOf(s) = Opening,
         \A r \in t + 1 .. s - 1 : Weekend(r) \/ TimeOf(r) # Opening
  PROVE  Opens(t) = s
<1> DEFINE Sought(x) == /\ ~Weekend(x) /\ TimeOf(x) = Opening
                        /\ \A r \in t + 1 .. x - 1 : Weekend(r) \/ TimeOf(r) # Opening
           o == CHOOSE x \in t + 1 .. t + 4 * StepsOfDay : Sought(x)
<1>1. o \in t + 1 .. t + 4 * StepsOfDay /\ Sought(o)
  OBVIOUS
<1>2. Opens(t) = o
  BY DEF Opens
<1> HIDE DEF o
<1>3. t \in Int /\ s \in Int /\ o \in Int /\ t < s /\ t < o
  BY <1>1, HoursAssumption
<1>4. ~(s < o)
  BY <1>1, <1>3
<1>5. ~(o < s)
  BY <1>1, <1>3
<1> QED
  BY <1>2, <1>3, <1>4, <1>5

\* The market opens k days after the day of a moment, if it does not on any day before.
LEMMA NextIs ==
  ASSUME NEW e \in Nat, NEW m \in 0 .. StepsOfDay - 1, NEW k \in 0 .. 3,
         k = 0 => m < Opening, (e + k) % 7 \notin {0, 6},
         \A j \in 0 .. k - 1 : (e + j) % 7 \in {0, 6} \/ (j = 0 /\ m >= Opening)
  PROVE  Opens(MomentOf(e, m)) = MomentOf(e + k, Opening) /\ MomentOf(e + k, Opening) = StepsOfDay * e + k * StepsOfDay + Opening
<1> DEFINE t == MomentOf(e, m)
           s == MomentOf(e + k, Opening)
<1>0. /\ StepsOfDay \in Nat \ {0} /\ Opening \in 0 .. StepsOfDay - 1 /\ e + k \in Nat
      /\ StepsOfDay * e \in Nat
  BY HoursAssumption
<1>1. StepsOfDay * (e + k) = StepsOfDay * e + k * StepsOfDay
  BY <1>0
<1>2. t \in Nat /\ s \in Nat /\ ~Weekend(s) /\ TimeOf(s) = Opening
  BY <1>0, AtLaws
<1>3. t = StepsOfDay * e + m /\ s = StepsOfDay * e + k * StepsOfDay + Opening
  BY <1>1 DEF MomentOf
<1>4. k * StepsOfDay >= 0 /\ k * StepsOfDay <= 3 * StepsOfDay /\ (k > 0 => k * StepsOfDay >= StepsOfDay)
  <2>1. k = 0 \/ k = 1 \/ k = 2 \/ k = 3
    OBVIOUS
  <2> QED
    BY <1>0, <2>1
<1> HIDE DEF t, s
<1>5. s \in t + 1 .. t + 4 * StepsOfDay
  <2>1. k * StepsOfDay \in Int
    BY <1>0
  <2>2. CASE k = 0
    <3>1. k * StepsOfDay = 0
      BY <2>2, <1>0
    <3> QED
      BY <1>0, <1>2, <1>3, <2>2, <3>1
  <2>3. CASE k > 0
    BY <1>0, <1>2, <1>3, <1>4, <2>1, <2>3
  <2> QED
    BY <2>2, <2>3
<1>6. ASSUME NEW r \in t + 1 .. s - 1, TimeOf(r) = Opening
      PROVE  Weekend(r)
  <2>0. r \in Nat
    BY <1>2
  <2>1. PICK f \in Nat, n \in 0 .. StepsOfDay - 1 : r = MomentOf(f, n)
    BY <2>0, EveryMoment
  <2>2. n = Opening /\ (Weekend(r) <=> f % 7 \in {0, 6}) /\ StepsOfDay * f \in Nat
    BY <1>6, <2>1, AtLaws
  <2>3. r = StepsOfDay * f + Opening /\ t < r /\ r < s
    BY <1>2, <2>0, <2>1, <2>2 DEF MomentOf
  <2>4. ~(f < e)
    BY <1>0, <1>2, <1>3, <2>2, <2>3, LaterDays
  <2>5. ~(f >= e + k)
    <3>1. StepsOfDay * f >= StepsOfDay * (e + k) => FALSE
      BY <1>0, <1>1, <1>2, <1>3, <2>2, <2>3
    <3>2. f = e + k => StepsOfDay * f >= StepsOfDay * (e + k)
      BY <1>0, <2>2
    <3>3. f > e + k => StepsOfDay * f >= StepsOfDay * (e + k) + StepsOfDay
      BY <1>0, LaterDays
    <3> QED
      BY <1>0, <2>2, <3>1, <3>2, <3>3
  <2>6. f - e \in 0 .. k - 1 /\ e + (f - e) = f
    BY <2>4, <2>5
  <2>7. f % 7 \in {0, 6} \/ (f - e = 0 /\ m >= Opening)
    BY <2>6
  <2>8. ~(f - e = 0 /\ m >= Opening)
    <3> SUFFICES ASSUME f = e, m >= Opening PROVE FALSE
      OBVIOUS
    <3>1. StepsOfDay * f = StepsOfDay * e
      OBVIOUS
    <3> QED
      BY <1>0, <1>3, <2>3, <3>1
  <2> QED
    BY <2>2, <2>7, <2>8
<1>7. Opens(t) = s
  BY <1>2, <1>5, <1>6, OpensIs
<1> QED
  BY <1>3, <1>7 DEF t, s

\* What is told of the next opening and closing, for a market that is closed or said to be open.
LEMMA NextTold ==
  ASSUME NEW t \in 0 .. LastWall, NEW open \in BOOLEAN
  PROVE  LET told == NextOpenAndClose(open, t) IN
         /\ told.next \in Nat /\ told.closes \in Nat
         /\ told.next # Never => told.next = Opens(t)
         /\ told.next # Never \/ told.closes = DayOf(t) + Closing
<1>0. /\ StepsOfDay \in Nat \ {0} /\ Opening \in 0 .. StepsOfDay - 1 /\ Closing \in Nat
      /\ LastWall \in Nat /\ Never \in Nat /\ t \in Nat
  BY HoursAssumption DEF Never
<1>1. PICK e \in Nat, m \in 0 .. StepsOfDay - 1 : t = MomentOf(e, m)
  BY <1>0, EveryMoment
<1>2. /\ TimeOf(t) = m /\ WeekdayOf(t) = e % 7 /\ (Weekend(t) <=> e % 7 \in {0, 6})
      /\ DayOf(t) = StepsOfDay * e /\ StepsOfDay * e \in Nat
  BY <1>1, AtLaws
<1>3. WeekdayOf(t + StepsOfDay) = (e + 1) % 7
  <2>1. StepsOfDay * (e + 1) = StepsOfDay * e + StepsOfDay
    BY <1>0
  <2>2. t + StepsOfDay = MomentOf(e + 1, m)
    BY <1>0, <1>1, <1>2, <2>1 DEF MomentOf
  <2> QED
    BY <2>2, AtLaws
<1> DEFINE told == NextOpenAndClose(open, t)
<1>4. ASSUME NEW k \in 0 .. 3, k = 0 => m < Opening, (e + k) % 7 \notin {0, 6},
             \A j \in 0 .. k - 1 : (e + j) % 7 \in {0, 6} \/ (j = 0 /\ m >= Opening),
             told = [closes |-> Never, next |-> StepsOfDay * e + k * StepsOfDay + Opening]
      PROVE  /\ told.next \in Nat /\ told.closes \in Nat
             /\ told.next = Opens(t) /\ told.next # Never
  <2>1. Opens(t) = StepsOfDay * e + k * StepsOfDay + Opening
    BY <1>1, <1>4, NextIs
  <2>2. k * StepsOfDay <= 3 * StepsOfDay /\ k * StepsOfDay \in Nat
    <3>1. k = 0 \/ k = 1 \/ k = 2 \/ k = 3
      OBVIOUS
    <3> QED
      BY <1>0, <3>1
  <2>3. StepsOfDay * e <= t
    BY <1>0, <1>1, <1>2 DEF MomentOf
  <2>4. StepsOfDay * e + k * StepsOfDay + Opening \in Nat
    BY <1>0, <1>2, <2>2
  <2>5. StepsOfDay * e + k * StepsOfDay + Opening # LastWall + 9 * StepsOfDay
    BY <1>0, <1>2, <2>2, <2>3
  <2> HIDE DEF told
  <2>6. told.next = StepsOfDay * e + k * StepsOfDay + Opening /\ told.closes = Never
    BY <1>4
  <2> QED
    BY <1>0, <2>1, <2>4, <2>5, <2>6 DEF Never
<1>5. CASE Weekend(t)
  <2> DEFINE k == IF e % 7 = 0 THEN 1 ELSE 2
  <2>1. told = [closes |-> Never, next |-> MondayOpen(t)]
    BY <1>5 DEF NextOpenAndClose
  <2>2. MondayOpen(t) = StepsOfDay * e + k * StepsOfDay + Opening
    BY <1>2, <1>5 DEF MondayOpen, Sunday
  <2>3. /\ k \in 0 .. 3 /\ k # 0 /\ (e + k) % 7 \notin {0, 6}
        /\ \A j \in 0 .. k - 1 : (e + j) % 7 \in {0, 6}
    BY <1>2, <1>5
  <2> HIDE DEF k
  <2> QED
    BY <1>4, <2>1, <2>2, <2>3
<1>6. CASE ~Weekend(t) /\ open
  <2>1. told = [closes |-> DayOf(t) + Closing, next |-> Never]
    BY <1>6 DEF NextOpenAndClose
  <2> QED
    BY <1>0, <1>2, <2>1
<1>7. CASE ~Weekend(t) /\ ~open /\ TimeOf(t) < Opening
  <2>1. told = [closes |-> Never, next |-> DayOf(t) + Opening]
    BY <1>7 DEF NextOpenAndClose
  <2>2. DayOf(t) + Opening = StepsOfDay * e + 0 * StepsOfDay + Opening
    BY <1>0, <1>2
  <2>3. (e + 0) % 7 \notin {0, 6} /\ m < Opening
    BY <1>2, <1>7
  <2> QED
    BY <1>4, <2>1, <2>2, <2>3
<1>8. CASE ~Weekend(t) /\ ~open /\ ~(TimeOf(t) < Opening)
  <2> DEFINE k == IF (e + 1) % 7 = 6 THEN 3 ELSE 1
  <2>1. told = [closes |-> Never, next |-> NextMorning(t)]
    BY <1>8 DEF NextOpenAndClose
  <2>2. NextMorning(t) = StepsOfDay * e + k * StepsOfDay + Opening
    BY <1>0, <1>2, <1>3 DEF NextMorning, Saturday
  <2>3. /\ k \in 0 .. 3 /\ k # 0 /\ (e + k) % 7 \notin {0, 6}
        /\ \A j \in 0 .. k - 1 : (e + j) % 7 \in {0, 6} \/ j = 0
    BY <1>2, <1>8
  <2>4. m >= Opening
    BY <1>0, <1>2, <1>8
  <2> HIDE DEF k
  <2> QED
    BY <1>4, <2>1, <2>2, <2>3, <2>4
<1> QED
  BY <1>4, <1>5, <1>6, <1>7, <1>8

\* A status that was right at a moment from which less than its time has passed.
OpenAt(open, t) == open = MarketOpen(t)
RightSince(open, from, to) == \E t \in 0 .. to : t + KeptFor >= from /\ OpenAt(open, t)

HoursInv ==
    /\ HoursTypeOK
    /\ keptStatus.until # 0 => \E t \in 0 .. wall : keptStatus.until = t + KeptFor /\ OpenAt(keptStatus.open, t)
    /\ asking.pc = "status" =>
          /\ wall \in asking.since .. asking.since + 1
          /\ RightSince(asking.open, asking.since + 1, asking.since)
    /\ OpeningIsNext

LEMMA OpenBool == \A t : MarketOpen(t) \in BOOLEAN
  BY DEF MarketOpen

\* The status is read anew or from what is kept.
LEMMA StatusRight ==
  ASSUME HoursInv, ReadStatus
  PROVE  /\ HoursTypeOK'
         /\ \E t \in 0 .. wall : keptStatus'.until = t + KeptFor /\ OpenAt(keptStatus'.open, t)
         /\ asking'.since = wall /\ RightSince(asking'.open, wall + 1, wall)
<1>0. /\ wall \in 0 .. LastWall /\ keptStatus \in [open : BOOLEAN, until : Nat] /\ LastWall \in Nat
      /\ KeptFor \in Nat \ {0} /\ hours.at \in Nat /\ hours.next \in Nat /\ hours.closes \in Nat
  BY HoursAssumption DEF HoursInv, HoursTypeOK
<1>1. UNCHANGED <<wall, hours>> /\ asking' = [pc |-> "status", since |-> wall, open |-> keptStatus'.open]
  BY DEF ReadStatus
<1>2. /\ keptStatus' \in [open : BOOLEAN, until : Nat]
      /\ \E t \in 0 .. wall : keptStatus'.until = t + KeptFor /\ OpenAt(keptStatus'.open, t) /\ t + KeptFor >= wall + 1
  <2>1. CASE wall < keptStatus.until
    <3>1. keptStatus' = keptStatus
      BY <2>1 DEF ReadStatus
    <3>2. keptStatus.until # 0 /\ keptStatus.until >= wall + 1
      BY <1>0, <2>1
    <3> QED
      BY <1>0, <3>1, <3>2 DEF HoursInv
  <2>2. CASE ~(wall < keptStatus.until)
    <3>1. keptStatus' = [open |-> MarketOpen(wall), until |-> wall + KeptFor]
      BY <2>2 DEF ReadStatus
    <3>2. wall \in 0 .. wall /\ wall + KeptFor >= wall + 1 /\ wall + KeptFor \in Nat
      BY <1>0
    <3>3. keptStatus'.until = wall + KeptFor /\ OpenAt(keptStatus'.open, wall)
      BY <3>1 DEF OpenAt
    <3>4. keptStatus' \in [open : BOOLEAN, until : Nat]
      BY <3>1, <3>2, OpenBool
    <3> QED
      BY <3>2, <3>3, <3>4
  <2> QED
    BY <2>1, <2>2
<1>3. asking' \in [pc : {"idle", "status"}, since : 0 .. LastWall, open : BOOLEAN]
  BY <1>0, <1>1, <1>2
<1>4. HoursTypeOK'
  BY <1>0, <1>1, <1>2, <1>3 DEF HoursTypeOK
<1>5. asking'.since = wall /\ asking'.open = keptStatus'.open
  BY <1>1
<1>6. RightSince(keptStatus'.open, wall + 1, wall)
  BY <1>2 DEF RightSince
<1> QED
  BY <1>2, <1>4, <1>5, <1>6

LEMMA HoursAreTold ==
  ASSUME HoursInv, TellHours
  PROVE  HoursInv'
<1>0. /\ wall \in 0 .. LastWall /\ keptStatus \in [open : BOOLEAN, until : Nat] /\ LastWall \in Nat
      /\ asking \in [pc : {"idle", "status"}, since : 0 .. LastWall, open : BOOLEAN]
      /\ KeptFor \in Nat \ {0}
  BY HoursAssumption DEF HoursInv, HoursTypeOK
<1> DEFINE open == asking.open
           told == NextOpenAndClose(open, wall)
<1>1. /\ asking.pc = "status" /\ UNCHANGED <<wall, keptStatus>> /\ asking' = [asking EXCEPT !.pc = "idle"]
      /\ hours' = [at |-> wall, open |-> open, closes |-> told.closes, next |-> told.next, phase |-> PhaseOf(open, wall)]
  BY DEF TellHours
<1>2. open \in BOOLEAN
  BY <1>0
<1>3. /\ told.next \in Nat /\ told.closes \in Nat
      /\ told.next # Never => told.next = Opens(wall)
      /\ told.next # Never \/ told.closes = DayOf(wall) + Closing
  BY <1>0, <1>2, NextTold
<1>4. \E t \in 0 .. wall : t + KeptFor >= wall /\ MarketOpen(t) = open
  <2>1. wall \in asking.since .. asking.since + 1 /\ RightSince(open, asking.since + 1, asking.since)
    BY <1>1 DEF HoursInv
  <2>2. asking.since \in Nat
    BY <1>0
  <2>3. PICK t \in 0 .. asking.since : t + KeptFor >= asking.since + 1 /\ OpenAt(open, t)
    BY <2>1 DEF RightSince
  <2>4. t \in 0 .. wall /\ t + KeptFor >= wall
    BY <1>0, <2>1, <2>2, <2>3
  <2> QED
    BY <2>3, <2>4 DEF OpenAt
<1>5. PhaseOf(open, wall) = "CLOSED" => MarketOpen(wall)
  <2>1. TimeOf(wall) \in Nat
    <3>1. StepsOfDay \in Nat \ {0} /\ wall \in Nat
      BY <1>0, HoursAssumption
    <3> QED
      BY <3>1, DivLaw DEF TimeOf
  <2> QED
    BY <1>2, <2>1, HoursAssumption DEF PhaseOf, MarketOpen
<1> HIDE DEF told
<1>6. /\ hours'.at = wall /\ hours'.open = open /\ hours'.closes = told.closes /\ hours'.next = told.next
      /\ hours'.phase = PhaseOf(open, wall)
  BY <1>1
<1>7. OpeningIsNext'
  BY <1>3, <1>4, <1>5, <1>6 DEF OpeningIsNext, Told
<1>8. asking'.pc = "idle" /\ asking' \in [pc : {"idle", "status"}, since : 0 .. LastWall, open : BOOLEAN]
  BY <1>0, <1>1
<1>9. HoursTypeOK'
  BY <1>0, <1>1, <1>3, <1>6, <1>8 DEF HoursTypeOK
<1> QED
  BY <1>1, <1>7, <1>8, <1>9 DEF HoursInv

LEMMA HoursInvInit == HoursInit => HoursInv
<1> SUFFICES ASSUME HoursInit PROVE HoursInv
  OBVIOUS
<1>1. Never \in Nat /\ wall \in 0 .. LastWall /\ 0 \in 0 .. LastWall
  BY HoursAssumption DEF HoursInit, Never
<1>2. HoursTypeOK
  BY <1>1 DEF HoursInit, HoursTypeOK
<1> QED
  BY <1>2 DEF HoursInit, HoursInv, OpeningIsNext, Told

LEMMA HoursInvNext == HoursInv /\ [HoursNext]_hoursVars => HoursInv'
<1> SUFFICES ASSUME HoursInv, [HoursNext]_hoursVars PROVE HoursInv'
  OBVIOUS
<1>0. wall \in Nat /\ LastWall \in Nat
  BY HoursAssumption DEF HoursInv, HoursTypeOK
<1>1. CASE UNCHANGED hoursVars
  BY <1>1 DEF hoursVars, HoursInv, HoursTypeOK, OpeningIsNext, Told
<1>2. CASE ReadStatus
  <2>1. /\ HoursTypeOK'
        /\ \E t \in 0 .. wall : keptStatus'.until = t + KeptFor /\ OpenAt(keptStatus'.open, t)
        /\ asking'.since = wall /\ RightSince(asking'.open, wall + 1, wall)
    BY <1>2, StatusRight
  <2>2. UNCHANGED <<wall, hours>> /\ wall \in wall .. wall + 1
    BY <1>0, <1>2 DEF ReadStatus
  <2>3. OpeningIsNext'
    BY <2>2 DEF HoursInv, OpeningIsNext, Told
  <2> QED
    BY <2>1, <2>2, <2>3 DEF HoursInv
<1>3. CASE WallPasses
  <2>1. /\ wall < LastWall /\ wall' = wall + 1 /\ UNCHANGED <<keptStatus, asking, hours>>
        /\ asking.pc = "status" => wall = asking.since
    BY <1>3 DEF WallPasses
  <2>2. HoursTypeOK'
    BY <1>0, <2>1 DEF HoursInv, HoursTypeOK
  <2>3. OpeningIsNext'
    BY <2>1 DEF HoursInv, OpeningIsNext, Told
  <2>4. asking.pc = "status" => wall' \in asking.since .. asking.since + 1
    BY <1>0, <2>1
  <2>5. 0 .. wall \subseteq 0 .. wall'
    BY <1>0, <2>1
  <2> QED
    BY <2>1, <2>2, <2>3, <2>4, <2>5 DEF HoursInv
<1> QED
  BY <1>1, <1>2, <1>3, HoursAreTold DEF HoursNext

\* MarketController.getMarketStatus, for any hours, length of the day and age of the kept status:
\* the next opening that it names is the next that there is.
THEOREM OpeningToldRight == HoursSpec => []OpeningIsNext
<1>1. HoursInv => OpeningIsNext
  BY DEF HoursInv
<1> QED
  BY HoursInvInit, HoursInvNext, <1>1, PTL DEF HoursSpec

-----------------------------------------------------------------------------
(* The top movers. *)

MoverRow == [share : Shares, change : Moves]
DayRow == UNION {[T -> Moves \cup {NoMove}] : T \in SUBSET Trades}

\* The days of a share that have rows end somewhere.
Ends(r) == \E n \in Nat : DOMAIN r \subseteq 0 .. n

LEMMA DayRowLaws ==
  ASSUME NEW r \in DayRow
  PROVE  /\ DOMAIN r \subseteq Trades /\ DOMAIN r \subseteq Nat
         /\ \A e \in DOMAIN r : r[e] \in Moves \cup {NoMove}
  BY MoversAssumption, ZenonT(60) DEF DayRow

LEMMA LastOf ==
  ASSUME NEW n \in Nat, NEW S \in SUBSET (0 .. n), S # {}
  PROVE  \E x \in S : \A y \in S : y <= x
<1>1. CASE S \cap (1 .. n) = {}
  <2>1. \A y \in S : y = 0
    BY <1>1
  <2>2. PICK x \in S : TRUE
    OBVIOUS
  <2> QED
    BY <2>1, <2>2
<1>2. CASE S \cap (1 .. n) # {}
  <2> DEFINE T == S \cap (1 .. n)
  <2>1. Max(T) \in T /\ \A y \in T : y <= Max(T)
    BY <1>2, MaxThere
  <2>2. \A y \in S : y \in T \/ y = 0
    OBVIOUS
  <2> HIDE DEF T
  <2>3. Max(T) \in S /\ Max(T) \in 1 .. n
    BY <2>1 DEF T
  <2> QED
    BY <2>1, <2>2, <2>3
<1> QED
  BY <1>1, <1>2

\* The latest row with a change has the change that is on record last.
LEMMA LatestChange ==
  ASSUME NEW r \in DayRow, Ends(r)
  PROVE  /\ WithChange(r) # {} <=> Moved(r)
         /\ Moved(r) => /\ r[Greatest(WithChange(r))] = ChangeOf(r)
                        /\ ChangeOf(r) \in Moves
<1>0. DOMAIN r \subseteq Nat /\ \A e \in DOMAIN r : r[e] \in Moves \cup {NoMove}
  BY DayRowLaws
<1>1. WithChange(r) # {} <=> Moved(r)
  BY DEF WithChange, Moved
<1> DEFINE W == WithChange(r)
           g == CHOOSE x \in W : \A e \in W : e <= x
           A(x) == r[x] # NoMove /\ \A e \in DOMAIN r : e > x => r[e] = NoMove
           c == CHOOSE x \in DOMAIN r : A(x)
<1>2. ASSUME Moved(r) PROVE r[Greatest(W)] = ChangeOf(r) /\ ChangeOf(r) \in Moves
  <2>1. W # {} /\ W \in SUBSET DOMAIN r
    BY <1>1, <1>2 DEF WithChange
  <2>2. \E x \in W : \A e \in W : e <= x
    <3>1. PICK n \in Nat : DOMAIN r \subseteq 0 .. n
      BY DEF Ends
    <3>2. W \in SUBSET (0 .. n)
      BY <2>1, <3>1
    <3> HIDE DEF W
    <3> QED
      BY <2>1, <3>2, LastOf
  <2>3. g \in W /\ \A e \in W : e <= g
    BY <2>2
  <2>4. Greatest(W) = g
    BY DEF Greatest
  <2> HIDE DEF g
  <2>5. g \in DOMAIN r /\ A(g)
    BY <1>0, <2>1, <2>3 DEF WithChange
  <2>6. c \in DOMAIN r /\ A(c)
    BY <2>5
  <2>7. ChangeOf(r) = r[c]
    BY DEF ChangeOf
  <2> HIDE DEF c
  <2>8. c \in W
    BY <2>6 DEF WithChange
  <2>9. ~(g > c)
    BY <2>3, <2>5, <2>6
  <2>10. c = g
    BY <1>0, <2>3, <2>5, <2>6, <2>8, <2>9
  <2>11. r[g] \in Moves
    BY <1>0, <2>5
  <2> QED
    BY <2>4, <2>7, <2>10, <2>11
<1> QED
  BY <1>1, <1>2

\* Being ahead, from the top and from the bottom.
More == {p \in Int \X Int : p[1] > p[2]}
Less == {p \in Int \X Int : p[1] < p[2]}

MovedOf(shares, found) == {s \in shares : Moved(found[s])}

\* A list of rows that ranks the shares of a reading, none of the listed ones passed over.
Ranks(shares, found, ranked, among, B) ==
    /\ ranked \in Seq(MoverRow) /\ Len(ranked) <= TopSize
    /\ \A i, j \in 1 .. Len(ranked) : i # j => ranked[i].share # ranked[j].share
    /\ \A i \in 1 .. Len(ranked) : /\ ranked[i].share \in MovedOf(shares, found)
                                   /\ ranked[i].change = ChangeOf(found[ranked[i].share])
    /\ \A i, j \in 1 .. Len(ranked) : j < i => <<ranked[i].change, ranked[j].change>> \notin B
    /\ \A s \in MovedOf(shares, found) \cap among : (\A i \in 1 .. Len(ranked) : ranked[i].share # s) =>
           /\ Cardinality(MovedOf(shares, found)) > TopSize
           /\ \A i \in 1 .. Len(ranked) : <<ChangeOf(found[s]), ranked[i].change>> \notin B
    /\ \A s \in MovedOf(shares, found) : ChangeOf(found[s]) \in Moves

\* All rows of a reading, in order.
Sorted(shares, found, s, B) ==
    /\ s \in Seq(MoverRow) /\ Len(s) = Cardinality(MovedOf(shares, found))
    /\ \A i, j \in 1 .. Len(s) : i # j => s[i].share # s[j].share
    /\ \A i \in 1 .. Len(s) : s[i].share \in MovedOf(shares, found) /\ s[i].change = ChangeOf(found[s[i].share])
    /\ \A i, j \in 1 .. Len(s) : j < i => <<s[i].change, s[j].change>> \notin B
    /\ \A x \in MovedOf(shares, found) : \E i \in 1 .. Len(s) : s[i].share = x
    /\ \A x \in MovedOf(shares, found) : ChangeOf(found[x]) \in Moves

LEMMA TopRanks ==
  ASSUME NEW shares, NEW found, NEW B, NEW s, Sorted(shares, found, s, B)
  PROVE  Ranks(shares, found, Top(s), shares, B)
<1>0. s \in Seq(MoverRow) /\ Len(s) \in Nat /\ TopSize \in Nat \ {0}
  BY MoversAssumption DEF Sorted
<1> DEFINE n == IF Len(s) < TopSize THEN Len(s) ELSE TopSize
           t == Top(s)
<1>1. /\ n \in Nat /\ n <= Len(s) /\ n <= TopSize /\ (n < Len(s) => n = TopSize)
  BY <1>0
<1>2. t \in Seq(MoverRow) /\ Len(t) = n /\ \A i \in 1 .. n : t[i] = s[i] /\ i \in 1 .. Len(s)
  <2>1. t = SubSeq(s, 1, n)
    BY DEF Top
  <2> HIDE DEF t, n
  <2> QED
    BY <1>0, <1>1, <2>1
<1> HIDE DEF n, t
<1>3. ASSUME NEW x \in MovedOf(shares, found), \A i \in 1 .. n : t[i].share # x
      PROVE  /\ Cardinality(MovedOf(shares, found)) > TopSize
             /\ \A i \in 1 .. n : <<ChangeOf(found[x]), t[i].change>> \notin B
  <2>1. PICK k \in 1 .. Len(s) : s[k].share = x
    BY DEF Sorted
  <2>2. k > n
    BY <1>0, <1>1, <1>2, <1>3, <2>1
  <2>3. s[k].change = ChangeOf(found[x]) /\ Len(s) = Cardinality(MovedOf(shares, found))
    BY <2>1 DEF Sorted
  <2>4. Len(s) > TopSize
    BY <1>0, <1>1, <2>2
  <2>5. ASSUME NEW i \in 1 .. n PROVE <<s[k].change, s[i].change>> \notin B
    <3>1. i \in 1 .. Len(s) /\ i < k
      BY <1>0, <1>1, <2>2
    <3> QED
      BY <3>1 DEF Sorted
  <2> QED
    BY <1>2, <2>3, <2>4, <2>5
<1>4. \A i, j \in 1 .. n : i # j => t[i].share # t[j].share
  BY <1>2 DEF Sorted
<1>5. \A i \in 1 .. n : t[i].share \in MovedOf(shares, found) /\ t[i].change = ChangeOf(found[t[i].share])
  BY <1>2 DEF Sorted
<1>6. \A i, j \in 1 .. n : j < i => <<t[i].change, t[j].change>> \notin B
  BY <1>2 DEF Sorted
<1>7. \A x \in MovedOf(shares, found) : ChangeOf(found[x]) \in Moves
  BY DEF Sorted
<1>8. Ranks(shares, found, t, shares, B)
  BY <1>1, <1>2, <1>3, <1>4, <1>5, <1>6, <1>7 DEF Ranks
<1> QED
  BY <1>8 DEF t

LEMMA SortedReversed ==
  ASSUME NEW shares, NEW found, NEW s, Sorted(shares, found, s, More)
  PROVE  Sorted(shares, found, Reverse(s), Less)
<1>0. s \in Seq(MoverRow) /\ Len(s) \in Nat /\ Moves \subseteq Int
  BY MoversAssumption DEF Sorted
<1> DEFINE n == Len(s)
           t == Reverse(s)
<1>1. t \in Seq(MoverRow) /\ Len(t) = n /\ \A i \in 1 .. n : t[i] = s[(n - i) + 1] /\ (n - i) + 1 \in 1 .. n
  BY <1>0 DEF Reverse
<1>2. \A i \in 1 .. n : s[i].change \in Int
  <2>1. \A i \in 1 .. n : s[i] \in MoverRow
    BY <1>0
  <2> QED
    BY <1>0, <2>1 DEF MoverRow
<1> HIDE DEF t
<1>3. n \in Nat /\ n = Cardinality(MovedOf(shares, found))
  BY <1>0 DEF Sorted
<1>4. ASSUME NEW i \in 1 .. n, NEW j \in 1 .. n, i # j PROVE t[i].share # t[j].share
  <2> DEFINE a == (n - i) + 1
             b == (n - j) + 1
  <2>1. a # b /\ a \in 1 .. n /\ b \in 1 .. n /\ t[i] = s[a] /\ t[j] = s[b]
    BY <1>1, <1>3, <1>4
  <2> HIDE DEF a, b
  <2>2. s[a].share # s[b].share
    BY <2>1 DEF Sorted
  <2> QED
    BY <2>1, <2>2
<1>5. ASSUME NEW i \in 1 .. n
      PROVE  t[i].share \in MovedOf(shares, found) /\ t[i].change = ChangeOf(found[t[i].share])
  <2> DEFINE a == (n - i) + 1
  <2>1. a \in 1 .. n /\ t[i] = s[a]
    BY <1>1
  <2> HIDE DEF a
  <2>2. s[a].share \in MovedOf(shares, found) /\ s[a].change = ChangeOf(found[s[a].share])
    BY <2>1 DEF Sorted
  <2> QED
    BY <2>1, <2>2
<1>6. ASSUME NEW i \in 1 .. n, NEW j \in 1 .. n, j < i PROVE <<t[i].change, t[j].change>> \notin Less
  <2> DEFINE a == (n - i) + 1
             b == (n - j) + 1
  <2>1. a \in 1 .. n /\ b \in 1 .. n /\ a < b
    BY <1>1, <1>3, <1>6
  <2>2. t[i] = s[a] /\ t[j] = s[b]
    BY <1>1
  <2> HIDE DEF a, b
  <2>3. <<s[b].change, s[a].change>> \notin More
    BY <2>1 DEF Sorted
  <2>4. ~(s[b].change > s[a].change)
    BY <1>2, <2>1, <2>3 DEF More
  <2> QED
    BY <1>2, <2>1, <2>2, <2>4 DEF Less
<1>7. ASSUME NEW x \in MovedOf(shares, found) PROVE \E i \in 1 .. n : t[i].share = x
  <2>1. PICK k \in 1 .. n : s[k].share = x
    BY DEF Sorted
  <2>2. (n - k) + 1 \in 1 .. n /\ (n - ((n - k) + 1)) + 1 = k
    BY <1>3
  <2> QED
    BY <1>1, <2>1, <2>2
<1>8. \A x \in MovedOf(shares, found) : ChangeOf(found[x]) \in Moves
  BY DEF Sorted
<1>9. Sorted(shares, found, t, Less)
  BY <1>1, <1>3, <1>4, <1>5, <1>6, <1>7, <1>8 DEF Sorted
<1> QED
  BY <1>9 DEF t

\* What the second read leaves of a list.
Listing(s, A) == FoldLeft(LAMBDA found, r : IF r.share \in A THEN Append(found, r) ELSE found, <<>>, s)

ListStep(A) == [x \in Seq(MoverRow) \X MoverRow |-> IF x[2].share \in A THEN Append(x[1], x[2]) ELSE x[1]]

LEMMA ListStepType ==
  ASSUME NEW A
  PROVE  ListStep(A) \in [Seq(MoverRow) \X MoverRow -> Seq(MoverRow)] /\ <<>> \in Seq(MoverRow)
<1>1. \A x \in Seq(MoverRow) \X MoverRow : x[1] \in Seq(MoverRow) /\ Append(x[1], x[2]) \in Seq(MoverRow)
  OBVIOUS
<1> QED
  BY <1>1 DEF ListStep

LEMMA ListingIsFold ==
  ASSUME NEW A, NEW s \in Seq(MoverRow)
  PROVE  Listing(s, A) = Folded(ListStep(A), <<>>, s)
<1> DEFINE Rec(it) == [S \in SUBSET DOMAIN s |->
                          IF S = {} THEN <<>>
                          ELSE IF s[Max(S)].share \in A THEN Append(it[S \ {Max(S)}], s[Max(S)])
                                                        ELSE it[S \ {Max(S)}]]
           jt == CHOOSE it : it = Rec(it)
<1>0. \A S \in SUBSET DOMAIN s : S # {} => S \ {Max(S)} \in SUBSET DOMAIN s /\ s[Max(S)] \in MoverRow
  BY Places
<1>1. PICK it : Folds(it, Seq(MoverRow), ListStep(A), <<>>, s)
  BY ListStepType, FoldExists
<1>2. it = Rec(it)
  <2>1. /\ it \in [SUBSET DOMAIN s -> Seq(MoverRow)]
        /\ \A S \in SUBSET DOMAIN s : it[S] = Value(ListStep(A), <<>>, s, it, S)
    BY <1>1 DEF Folds
  <2>2. ASSUME NEW S \in SUBSET DOMAIN s PROVE it[S] = Rec(it)[S]
    <3>1. S # {} => it[S \ {Max(S)}] \in Seq(MoverRow) /\ s[Max(S)] \in MoverRow
      BY <1>0, <2>1
    <3> QED
      BY <2>1, <3>1 DEF Value, ListStep
  <2>3. DOMAIN Rec(it) = SUBSET DOMAIN s /\ Rec(it) = [S \in DOMAIN Rec(it) |-> Rec(it)[S]]
    OBVIOUS
  <2> HIDE DEF Rec
  <2> QED
    BY <2>1, <2>2, <2>3
<1>3. jt = Rec(jt)
  BY <1>2, Zenon
<1>4. Listing(s, A) = jt[DOMAIN s]
  BY DEF Listing, FoldLeft, MapThenFoldSet
<1> HIDE DEF jt
<1>5. jt[{}] = <<>>
  BY <1>3
<1>6. ASSUME NEW S \in SUBSET DOMAIN s, S # {}, jt[S \ {Max(S)}] \in Seq(MoverRow)
      PROVE  jt[S] = ListStep(A)[<<jt[S \ {Max(S)}], s[Max(S)]>>]
  <2>1. jt[S] = IF s[Max(S)].share \in A THEN Append(jt[S \ {Max(S)}], s[Max(S)]) ELSE jt[S \ {Max(S)}]
    BY <1>3, <1>6
  <2> QED
    BY <1>0, <1>6, <2>1 DEF ListStep
<1>7. IsFold(jt, ListStep(A), <<>>, s)
  <2>1. Unfolds(jt, Seq(MoverRow), ListStep(A), <<>>, s)
    BY <1>5, <1>6 DEF Unfolds
  <2> QED
    BY <2>1, ListStepType, FoldIs, Zenon
<1> QED
  BY <1>4, <1>7 DEF IsFold

LEMMA ListingLaws ==
  ASSUME NEW A
  PROVE  /\ \A s \in Seq(MoverRow) : Listing(s, A) \in Seq(MoverRow)
         /\ Listing(<<>>, A) = <<>>
         /\ \A s \in Seq(MoverRow), e \in MoverRow :
               Listing(Append(s, e), A) = IF e.share \in A THEN Append(Listing(s, A), e) ELSE Listing(s, A)
<1>1. <<>> \in Seq(MoverRow) /\ \A s \in Seq(MoverRow), e \in MoverRow : Append(s, e) \in Seq(MoverRow)
  OBVIOUS
<1>2. FoldLaws(ListStep(A), <<>>, MoverRow)
  BY ListStepType, FoldedLaws, Zenon
<1>3. ASSUME NEW s \in Seq(MoverRow) PROVE Folded(ListStep(A), <<>>, s) \in Seq(MoverRow)
  BY ListStepType, FoldedType, Zenon
<1>4. ASSUME NEW s \in Seq(MoverRow), NEW e \in MoverRow
      PROVE  Folded(ListStep(A), <<>>, Append(s, e)) =
                 IF e.share \in A THEN Append(Folded(ListStep(A), <<>>, s), e) ELSE Folded(ListStep(A), <<>>, s)
  BY <1>2, <1>3 DEF ListStep, FoldLaws
<1>5. \A s \in Seq(MoverRow) : Listing(s, A) = Folded(ListStep(A), <<>>, s)
  BY ListingIsFold
<1> QED
  BY <1>1, <1>2, <1>3, <1>4, <1>5 DEF FoldLaws

\* h finds in s, in the same order, what t has: the rows of the shares in A and no others.
Threads(h, s, t, A) ==
    /\ h \in [1 .. Len(t) -> 1 .. Len(s)]
    /\ \A i \in 1 .. Len(t) : t[i] = s[h[i]] /\ s[h[i]].share \in A
    /\ \A i, j \in 1 .. Len(t) : j < i => h[j] < h[i]
    /\ \A k \in 1 .. Len(s) : s[k].share \in A => \E i \in 1 .. Len(t) : h[i] = k

Part(s, t, A) == t \in Seq(MoverRow) /\ Len(t) <= Len(s) /\ \E h : Threads(h, s, t, A)

LEMMA PartLonger ==
  ASSUME NEW A, NEW s \in Seq(MoverRow), NEW e \in MoverRow, NEW t, Part(s, t, A)
  PROVE  Part(Append(s, e), IF e.share \in A THEN Append(t, e) ELSE t, A)
<1> DEFINE m == Len(s)
           n == Len(t)
           u == Append(s, e)
<1>0. m \in Nat /\ n \in Nat /\ n <= m /\ t \in Seq(MoverRow)
  BY DEF Part
<1>1. PICK h : Threads(h, s, t, A)
  BY DEF Part
<1>2. u \in Seq(MoverRow) /\ Len(u) = m + 1 /\ u[m + 1] = e /\ \A k \in 1 .. m : u[k] = s[k]
  BY <1>0
<1>3. h \in [1 .. n -> 1 .. m]
  BY <1>1 DEF Threads
<1> HIDE DEF u
<1>4. CASE e.share \notin A
  <2>1. h \in [1 .. n -> 1 .. m + 1]
    BY <1>0, <1>3
  <2>2. \A i \in 1 .. n : t[i] = u[h[i]] /\ u[h[i]].share \in A
    BY <1>1, <1>2, <1>3 DEF Threads
  <2>3. \A k \in 1 .. m + 1 : u[k].share \in A => \E i \in 1 .. n : h[i] = k
    <3> SUFFICES ASSUME NEW k \in 1 .. m + 1, u[k].share \in A PROVE \E i \in 1 .. n : h[i] = k
      OBVIOUS
    <3>1. k # m + 1
      BY <1>2, <1>4
    <3>2. k \in 1 .. m
      BY <1>0, <3>1
    <3> QED
      BY <1>1, <1>2, <3>2 DEF Threads
  <2>4. Threads(h, u, t, A)
    BY <1>1, <1>2, <2>1, <2>2, <2>3 DEF Threads
  <2>5. Part(u, t, A)
    BY <1>0, <1>2, <2>4 DEF Part
  <2> QED
    BY <1>4, <2>5 DEF u
<1>5. CASE e.share \in A
  <2> DEFINE v == Append(t, e)
             g == [i \in 1 .. n + 1 |-> IF i = n + 1 THEN m + 1 ELSE h[i]]
  <2>0. v \in Seq(MoverRow) /\ Len(v) = n + 1 /\ v[n + 1] = e /\ \A i \in 1 .. n : v[i] = t[i]
    BY <1>0
  <2>1. /\ g \in [1 .. n + 1 -> 1 .. m + 1] /\ g[n + 1] = m + 1
        /\ \A i \in 1 .. n : g[i] = h[i] /\ h[i] \in 1 .. m
    <3>1. \A i \in 1 .. n : h[i] \in 1 .. m /\ h[i] \in 1 .. m + 1 /\ i # n + 1 /\ i \in 1 .. n + 1
      BY <1>0, <1>3
    <3>2. n + 1 \in 1 .. n + 1 /\ m + 1 \in 1 .. m + 1 /\ \A i \in 1 .. n + 1 : i = n + 1 \/ i \in 1 .. n
      BY <1>0
    <3> QED
      BY <3>1, <3>2
  <2>n. \A i \in 1 .. n + 1 : i = n + 1 \/ i \in 1 .. n
    BY <1>0
  <2> HIDE DEF v, g
  <2>2. ASSUME NEW i \in 1 .. n + 1 PROVE v[i] = u[g[i]] /\ u[g[i]].share \in A
    <3>1. CASE i = n + 1
      BY <1>2, <1>5, <2>0, <2>1, <3>1
    <3>2. CASE i \in 1 .. n
      BY <1>1, <1>2, <2>0, <2>1, <3>2, SMTT(30) DEF Threads
    <3> QED
      BY <2>n, <3>1, <3>2
  <2>3. ASSUME NEW i \in 1 .. n + 1, NEW j \in 1 .. n + 1, j < i PROVE g[j] < g[i]
    <3>1. j \in 1 .. n
      BY <1>0, <2>3
    <3>2. CASE i = n + 1
      BY <1>0, <2>1, <3>1, <3>2
    <3>3. CASE i \in 1 .. n
      BY <1>1, <2>1, <2>3, <3>1, <3>3 DEF Threads
    <3> QED
      BY <2>n, <3>2, <3>3
  <2>4. ASSUME NEW k \in 1 .. m + 1, u[k].share \in A PROVE \E i \in 1 .. n + 1 : g[i] = k
    <3>1. CASE k = m + 1
      <4>1. n + 1 \in 1 .. n + 1
        BY <1>0
      <4> QED
        BY <2>1, <3>1, <4>1
    <3>2. CASE k # m + 1
      <4>1. k \in 1 .. m
        BY <1>0, <3>2
      <4>2. PICK i \in 1 .. n : h[i] = k
        BY <1>1, <1>2, <2>4, <4>1 DEF Threads
      <4>3. i \in 1 .. n + 1
        BY <1>0
      <4> QED
        BY <2>1, <4>2, <4>3
    <3> QED
      BY <3>1, <3>2
  <2>5. Threads(g, u, v, A)
    BY <1>2, <2>0, <2>1, <2>2, <2>3, <2>4 DEF Threads
  <2>6. Part(u, v, A)
    BY <1>0, <1>2, <2>0, <2>5 DEF Part
  <2> QED
    BY <1>5, <2>6 DEF u, v
<1> QED
  BY <1>4, <1>5

LEMMA ListingIsPart ==
  ASSUME NEW A, NEW s \in Seq(MoverRow)
  PROVE  Part(s, Listing(s, A), A)
<1> DEFINE G == {t \in Seq(MoverRow) : Part(t, Listing(t, A), A)}
<1>1. <<>> \in G
  <2>1. Listing(<<>>, A) = <<>> /\ <<>> \in Seq(MoverRow) /\ Len(<<>>) = 0
    BY ListingLaws
  <2>2. Threads(<<>>, <<>>, <<>>, A)
    BY <2>1 DEF Threads
  <2>3. Part(<<>>, <<>>, A)
    BY <2>1, <2>2 DEF Part
  <2> QED
    BY <2>1, <2>3
<1>2. ASSUME NEW t \in Seq(MoverRow), NEW e \in MoverRow, t \in G PROVE Append(t, e) \in G
  <2>1. Part(Append(t, e), IF e.share \in A THEN Append(Listing(t, A), e) ELSE Listing(t, A), A)
    BY <1>2, PartLonger
  <2>2. Listing(Append(t, e), A) = IF e.share \in A THEN Append(Listing(t, A), e) ELSE Listing(t, A)
    BY ListingLaws
  <2>3. Append(t, e) \in Seq(MoverRow)
    OBVIOUS
  <2> QED
    BY <2>1, <2>2, <2>3
<1> HIDE DEF G
<1>3. Seq(MoverRow) \subseteq G
  BY <1>1, <1>2, AllLists
<1> QED
  BY <1>3 DEF G

\* The list without the shares that are no longer active ranks those that are.
LEMMA ListingRanks ==
  ASSUME NEW shares, NEW found, NEW B, NEW A, NEW s, Ranks(shares, found, s, shares, B)
  PROVE  Ranks(shares, found, Listing(s, A), A, B)
<1> DEFINE t == Listing(s, A)
<1>0. s \in Seq(MoverRow) /\ Len(s) \in Nat /\ Len(s) <= TopSize /\ TopSize \in Nat
  BY MoversAssumption DEF Ranks
<1>1. t \in Seq(MoverRow) /\ Len(t) <= Len(s) /\ Len(t) \in Nat
  BY <1>0, ListingIsPart DEF Part
<1>2. PICK h : Threads(h, s, t, A)
  BY <1>0, ListingIsPart DEF Part
<1> HIDE DEF t
<1>3. \A i \in 1 .. Len(t) : t[i] = s[h[i]] /\ h[i] \in 1 .. Len(s)
  BY <1>2 DEF Threads
<1>4. ASSUME NEW i \in 1 .. Len(t), NEW j \in 1 .. Len(t), i # j PROVE t[i].share # t[j].share
  <2>1. h[i] # h[j]
    <3>1. i < j \/ j < i
      BY <1>1, <1>4
    <3>2. h[i] \in Int /\ h[j] \in Int
      BY <1>3
    <3> QED
      BY <1>2, <3>1, <3>2 DEF Threads
  <2> QED
    BY <1>3, <2>1, SMTT(30) DEF Ranks
<1>5. ASSUME NEW i \in 1 .. Len(t)
      PROVE  t[i].share \in MovedOf(shares, found) /\ t[i].change = ChangeOf(found[t[i].share])
  BY <1>3 DEF Ranks
<1>6. ASSUME NEW i \in 1 .. Len(t), NEW j \in 1 .. Len(t), j < i PROVE <<t[i].change, t[j].change>> \notin B
  <2>1. h[j] < h[i]
    BY <1>2, <1>6 DEF Threads
  <2> QED
    BY <1>3, <2>1, SMTT(30) DEF Ranks
<1>7. ASSUME NEW x \in MovedOf(shares, found) \cap A, \A i \in 1 .. Len(t) : t[i].share # x
      PROVE  /\ Cardinality(MovedOf(shares, found)) > TopSize
             /\ \A i \in 1 .. Len(t) : <<ChangeOf(found[x]), t[i].change>> \notin B
  <2>1. \A k \in 1 .. Len(s) : s[k].share # x
    BY <1>2, <1>3, <1>7 DEF Threads
  <2>2. x \in MovedOf(shares, found) \cap shares
    BY DEF MovedOf
  <2>3. /\ Cardinality(MovedOf(shares, found)) > TopSize
        /\ \A k \in 1 .. Len(s) : <<ChangeOf(found[x]), s[k].change>> \notin B
    BY <2>1, <2>2 DEF Ranks
  <2> QED
    BY <1>3, <2>3
<1>8. \A x \in MovedOf(shares, found) : ChangeOf(found[x]) \in Moves
  BY DEF Ranks
<1>9. Ranks(shares, found, t, A, B)
  BY <1>0, <1>1, <1>4, <1>5, <1>6, <1>7, <1>8 DEF Ranks
<1> QED
  BY <1>9 DEF t

\* Lists without two rows alike have as many rows as their set, and all of it.
LEMMA Enumerates ==
  ASSUME NEW R, IsFiniteSet(R), NEW s \in SetToSeqs(R)
  PROVE  /\ s \in [1 .. Cardinality(R) -> R] /\ Cardinality(R) \in Nat
         /\ \A i, j \in 1 .. Cardinality(R) : i # j => s[i] # s[j]
         /\ \A r \in R : \E i \in 1 .. Cardinality(R) : s[i] = r
<1> DEFINE N == Cardinality(R)
           I == 1 .. N
<1>1. N \in Nat
  BY FS_CardinalityType
<1>2. s \in [I -> R] /\ \A i, j \in I : i # j => s[i] # s[j]
  BY DEF SetToSeqs
<1>3. IsFiniteSet(I) /\ Cardinality(I) = N
  <2>1. IsFiniteSet(1 .. N) /\ Cardinality(1 .. N) = IF 1 > N THEN 0 ELSE N - 1 + 1
    BY <1>1, FS_Interval
  <2> QED
    BY <1>1, <2>1
<1>4. s \in Injection(I, R)
  BY <1>2 DEF Injection, IsInjective
<1> HIDE DEF I
<1>5. s \in Surjection(I, R)
  BY <1>3, <1>4, FS_Injection
<1> QED
  BY <1>1, <1>2, <1>5 DEF Surjection, I

LEMMA SameSize ==
  ASSUME NEW S, IsFiniteSet(S), NEW T, NEW f \in [S -> T],
         \A x, y \in S : f[x] = f[y] => x = y, \A z \in T : \E x \in S : f[x] = z
  PROVE  IsFiniteSet(T) /\ Cardinality(T) = Cardinality(S)
<1>1. f \in Injection(S, T) /\ f \in Surjection(S, T)
  BY DEF Injection, Surjection, IsInjective
<1> QED
  BY <1>1, FS_Surjection

DaysKept == dayRows \in [Shares -> DayRow] /\ \A s \in Shares : Ends(dayRows[s])

\* What findTopMovers sorts is what moved, each share with the last change on record.
LEMMA ChangesSorted ==
  ASSUME DaysKept, activeShares \subseteq Shares, NEW s \in ByChange
  PROVE  Sorted(activeShares, dayRows, s, More)
<1> DEFINE M == MovedOf(activeShares, dayRows)
           f == [x \in M |-> [share |-> x, change |-> ChangeOf(dayRows[x])]]
           R == {r \in LatestRows : r.change # NoMove}
<1>0. \A x \in activeShares : dayRows[x] \in DayRow /\ Ends(dayRows[x]) /\ x \in Shares
  BY DEF DaysKept
<1>1. \A x \in activeShares : WithChange(dayRows[x]) # {} <=> x \in M
  BY <1>0, LatestChange DEF MovedOf
<1>2. \A x \in M : /\ dayRows[x][Greatest(WithChange(dayRows[x]))] = ChangeOf(dayRows[x])
                   /\ ChangeOf(dayRows[x]) \in Moves /\ x \in Shares /\ x \in activeShares
  BY <1>0, LatestChange DEF MovedOf
<1> HIDE DEF M
<1>3. {t \in activeShares : WithChange(dayRows[t]) # {}} = M
  BY <1>1, <1>2
<1>4. LatestRows = {[share |-> x, change |-> dayRows[x][Greatest(WithChange(dayRows[x]))]] : x \in M}
  BY <1>3 DEF LatestRows
<1>5. LatestRows = {f[x] : x \in M}
  BY <1>2, <1>4
<1>6. \A x \in M : f[x].share = x /\ f[x].change = ChangeOf(dayRows[x]) /\ f[x] \in MoverRow
  BY <1>2 DEF MoverRow
<1> HIDE DEF f
<1>7. R = {f[x] : x \in M}
  BY <1>2, <1>5, <1>6, MoversAssumption
<1>8. IsFiniteSet(M)
  <2>1. M \in SUBSET Shares
    BY <1>2
  <2> QED
    BY <2>1, MoversAssumption, FS_Subset
<1>9. s \in SetToSeqs(R) /\ \A i, j \in DOMAIN s : i < j => s[i].change >= s[j].change
  BY DEF ByChange
<1> HIDE DEF R
<1>10. IsFiniteSet(R) /\ Cardinality(R) = Cardinality(M)
  <2>1. f \in [M -> R] /\ \A z \in R : \E x \in M : f[x] = z
    <3>1. f = [x \in M |-> f[x]]
      BY DEF f
    <3> QED
      BY <1>7, <3>1
  <2>2. \A x, y \in M : f[x] = f[y] => x = y
    BY <1>6
  <2> QED
    BY <1>8, <2>1, <2>2, SameSize
<1> DEFINE N == Cardinality(R)
<1>11. /\ s \in [1 .. N -> R] /\ N \in Nat /\ \A i, j \in 1 .. N : i # j => s[i] # s[j]
       /\ \A r \in R : \E i \in 1 .. N : s[i] = r
  BY <1>9, <1>10, Enumerates
<1> HIDE DEF N
<1>12. \A i \in 1 .. N : /\ s[i] \in MoverRow /\ s[i].share \in M
                         /\ s[i].change = ChangeOf(dayRows[s[i].share]) /\ s[i] = f[s[i].share]
  BY <1>6, <1>7, <1>11
<1>13. s \in Seq(MoverRow) /\ Len(s) = N /\ DOMAIN s = 1 .. N
  BY <1>11, <1>12
<1>14. ASSUME NEW i \in 1 .. N, NEW j \in 1 .. N, i # j PROVE s[i].share # s[j].share
  BY <1>11, <1>12, <1>14
<1>15. ASSUME NEW i \in 1 .. N, NEW j \in 1 .. N, j < i PROVE <<s[i].change, s[j].change>> \notin More
  <2>1. s[j].change >= s[i].change
    BY <1>9, <1>13, <1>15
  <2>2. s[j].change \in Int /\ s[i].change \in Int
    BY <1>2, <1>12, MoversAssumption
  <2> QED
    BY <2>1, <2>2 DEF More
<1>16. ASSUME NEW x \in M PROVE \E i \in 1 .. N : s[i].share = x
  <2>1. PICK i \in 1 .. N : s[i] = f[x]
    BY <1>7, <1>11
  <2> QED
    BY <1>6, <2>1
<1>17. Len(s) = Cardinality(MovedOf(activeShares, dayRows))
  BY <1>10, <1>13 DEF N, M
<1> QED
  BY <1>2, <1>12, <1>13, <1>14, <1>15, <1>16, <1>17 DEF Sorted, M

Movers ==
    [gainers : Seq(MoverRow), losers : Seq(MoverRow), rows : [Shares -> DayRow] \cup {<<>>},
     shares : SUBSET Shares, listed : SUBSET Shares]

\* An answer after the first read, and after the second.
RanksFound(movers) ==
    /\ Ranks(movers.shares, movers.rows, movers.gainers, movers.shares, More)
    /\ Ranks(movers.shares, movers.rows, movers.losers, movers.shares, Less)

RanksAnswered(movers) ==
    /\ Ranks(movers.shares, movers.rows, movers.gainers, movers.listed, More)
    /\ Ranks(movers.shares, movers.rows, movers.losers, movers.listed, Less)

MoversInv ==
    /\ minute \in 0 .. LastMinute /\ stores \in 0 .. MaxStores
    /\ activeShares \subseteq Shares /\ DaysKept
    /\ guest \in [Guests -> [pc : {"new", "movers", "answer"}, movers : Movers]]
    /\ \A g \in Guests : guest[g].pc = "movers" => RanksFound(guest[g].movers)
    /\ \A g \in Guests : guest[g].pc = "answer" => RanksAnswered(guest[g].movers)
    /\ RanksAnswered(kept.movers) /\ RanksAnswered(shownMovers)

LEMMA NoMoversLaws == NoMovers \in Movers /\ RanksAnswered(NoMovers)
<1>1. <<>> \in Seq(MoverRow) /\ Len(<<>>) = 0 /\ TopSize \in Nat
  BY MoversAssumption
<1>2. NoMovers \in Movers
  BY <1>1 DEF NoMovers, Movers
<1>3. /\ NoMovers.shares = {} /\ NoMovers.gainers = <<>> /\ NoMovers.losers = <<>>
  BY DEF NoMovers
<1>4. MovedOf({}, NoMovers.rows) = {}
  BY DEF MovedOf
<1>5. \A B : Ranks({}, NoMovers.rows, <<>>, NoMovers.listed, B)
  BY <1>1, <1>4 DEF Ranks
<1> QED
  BY <1>2, <1>3, <1>5 DEF RanksAnswered

LEMMA MoversInvInit == MoversInit => MoversInv
<1> SUFFICES ASSUME MoversInit PROVE MoversInv
  OBVIOUS
<1>1. <<>> \in DayRow /\ DOMAIN <<>> = {}
  <2>1. <<>> \in [{} -> Moves \cup {NoMove}] /\ {} \in SUBSET Trades
    OBVIOUS
  <2> QED
    BY <2>1 DEF DayRow
<1>2. DaysKept
  <2>1. Ends(<<>>)
    BY <1>1 DEF Ends
  <2> QED
    BY <1>1, <2>1 DEF MoversInit, DaysKept
<1>3. Waiting \in [pc : {"new", "movers", "answer"}, movers : Movers] /\ Waiting.pc = "new"
  BY NoMoversLaws DEF Waiting
<1>4. minute \in 0 .. LastMinute /\ stores \in 0 .. MaxStores
  BY MoversAssumption DEF MoversInit
<1> QED
  BY <1>2, <1>3, <1>4, NoMoversLaws DEF MoversInit, MoversInv

LEMMA GuestFinds ==
  ASSUME MoversInv, NEW g \in Guests, FindTopMovers(g)
  PROVE  MoversInv'
<1>0. /\ activeShares \subseteq Shares /\ DaysKept
      /\ guest \in [Guests -> [pc : {"new", "movers", "answer"}, movers : Movers]]
  BY DEF MoversInv
<1>1. PICK s \in ByChange :
         guest' = [guest EXCEPT ![g] = [pc |-> "movers",
                     movers |-> [gainers |-> Top(s), losers |-> Top(Reverse(s)),
                                 rows |-> dayRows, shares |-> activeShares, listed |-> {}]]]
  BY DEF FindTopMovers
<1> DEFINE found == [gainers |-> Top(s), losers |-> Top(Reverse(s)), rows |-> dayRows, shares |-> activeShares, listed |-> {}]
<1>2. Sorted(activeShares, dayRows, s, More)
  BY <1>0, ChangesSorted
<1>3. /\ Ranks(activeShares, dayRows, Top(s), activeShares, More)
      /\ Ranks(activeShares, dayRows, Top(Reverse(s)), activeShares, Less)
  BY <1>2, TopRanks, SortedReversed
<1>4. found \in Movers
  BY <1>0, <1>3 DEF Movers, DaysKept, Ranks
<1>5. RanksFound(found)
  BY <1>3 DEF RanksFound
<1> HIDE DEF found
<1>6. guest' = [guest EXCEPT ![g] = [pc |-> "movers", movers |-> found]]
  BY <1>1 DEF found
<1>7. /\ guest' \in [Guests -> [pc : {"new", "movers", "answer"}, movers : Movers]]
      /\ guest'[g].pc = "movers" /\ guest'[g].movers = found
      /\ \A c \in Guests \ {g} : guest'[c] = guest[c]
  BY <1>0, <1>4, <1>6
<1>8. UNCHANGED <<minute, stores, activeShares, dayRows, kept, shownMovers>>
  BY DEF FindTopMovers
<1>9. \A c \in Guests : /\ guest'[c].pc = "movers" => RanksFound(guest'[c].movers)
                        /\ guest'[c].pc = "answer" => RanksAnswered(guest'[c].movers)
  BY <1>5, <1>7 DEF MoversInv
<1>10. DaysKept'
  BY <1>0, <1>8 DEF DaysKept
<1>11. RanksAnswered(kept'.movers) /\ RanksAnswered(shownMovers')
  BY <1>8 DEF MoversInv
<1> QED
  BY <1>7, <1>8, <1>9, <1>10, <1>11 DEF MoversInv

LEMMA GuestMatches ==
  ASSUME MoversInv, NEW g \in Guests, FindAssets(g)
  PROVE  MoversInv'
<1>0. /\ activeShares \subseteq Shares /\ DaysKept
      /\ guest \in [Guests -> [pc : {"new", "movers", "answer"}, movers : Movers]]
  BY DEF MoversInv
<1> DEFINE was == guest[g].movers
           r == [was EXCEPT !.gainers = MapWithAsset(was.gainers), !.losers = MapWithAsset(was.losers),
                            !.listed = activeShares]
           q == [guest[g] EXCEPT !.pc = "answer", !.movers = r]
<1>1. was \in Movers /\ guest[g].pc = "movers" /\ RanksFound(was)
  BY <1>0 DEF FindAssets, MoversInv
<1>2. \A s : MapWithAsset(s) = Listing(s, activeShares)
  BY DEF MapWithAsset, Listing
<1>3. /\ Ranks(was.shares, was.rows, MapWithAsset(was.gainers), activeShares, More)
      /\ Ranks(was.shares, was.rows, MapWithAsset(was.losers), activeShares, Less)
  BY <1>1, <1>2, ListingRanks DEF RanksFound
<1>4. /\ r \in Movers /\ r.gainers = MapWithAsset(was.gainers) /\ r.losers = MapWithAsset(was.losers)
      /\ r.listed = activeShares /\ r.shares = was.shares /\ r.rows = was.rows
  <2>1. MapWithAsset(was.gainers) \in Seq(MoverRow) /\ MapWithAsset(was.losers) \in Seq(MoverRow)
    BY <1>3 DEF Ranks
  <2> HIDE DEF was
  <2> QED
    BY <1>0, <1>1, <2>1 DEF Movers
<1>5. RanksAnswered(r)
  BY <1>3, <1>4 DEF RanksAnswered
<1>6. guest' = [guest EXCEPT ![g] = q]
  BY <1>0, <1>1, ZenonT(60) DEF FindAssets
<1> HIDE DEF r
<1>7. q.pc = "answer" /\ q.movers = r /\ q \in [pc : {"new", "movers", "answer"}, movers : Movers]
  BY <1>0, <1>4
<1> HIDE DEF q
<1>8. /\ guest' \in [Guests -> [pc : {"new", "movers", "answer"}, movers : Movers]]
      /\ guest'[g] = q /\ \A c \in Guests \ {g} : guest'[c] = guest[c]
  BY <1>0, <1>6, <1>7
<1>9. UNCHANGED <<minute, stores, activeShares, dayRows, kept, shownMovers>>
  BY DEF FindAssets
<1>10. \A c \in Guests : /\ guest'[c].pc = "movers" => RanksFound(guest'[c].movers)
                         /\ guest'[c].pc = "answer" => RanksAnswered(guest'[c].movers)
  BY <1>5, <1>7, <1>8 DEF MoversInv
<1>11. DaysKept'
  BY <1>0, <1>9 DEF DaysKept
<1>12. RanksAnswered(kept'.movers) /\ RanksAnswered(shownMovers')
  BY <1>9 DEF MoversInv
<1> QED
  BY <1>8, <1>9, <1>10, <1>11, <1>12 DEF MoversInv

LEMMA GuestEnds ==
  ASSUME MoversInv, NEW g \in Guests, KeepMovers(g) \/ MoversFail(g) \/ UseKept(g)
  PROVE  MoversInv'
<1>0. /\ DaysKept /\ guest \in [Guests -> [pc : {"new", "movers", "answer"}, movers : Movers]]
      /\ RanksAnswered(kept.movers) /\ RanksAnswered(shownMovers)
      /\ \A c \in Guests : guest[c].pc = "answer" => RanksAnswered(guest[c].movers)
  BY DEF MoversInv
<1>1. Waiting \in [pc : {"new", "movers", "answer"}, movers : Movers] /\ Waiting.pc = "new"
  BY NoMoversLaws DEF Waiting
<1>2. UNCHANGED <<minute, stores, activeShares, dayRows>>
  BY DEF KeepMovers, MoversFail, UseKept
<1>3. DaysKept'
  BY <1>0, <1>2 DEF DaysKept
<1>4. RanksAnswered(kept'.movers) /\ RanksAnswered(shownMovers')
  <2>1. CASE KeepMovers(g)
    BY <1>0, <2>1 DEF KeepMovers
  <2>2. CASE MoversFail(g) \/ UseKept(g)
    BY <1>0, <2>2 DEF MoversFail, UseKept
  <2> QED
    BY <2>1, <2>2
<1>5. /\ guest' \in [Guests -> [pc : {"new", "movers", "answer"}, movers : Movers]]
      /\ \A c \in Guests : guest'[c] = guest[c] \/ guest'[c].pc = "new"
  <2>1. guest' = guest \/ guest' = [guest EXCEPT ![g] = Waiting]
    BY DEF KeepMovers, MoversFail, UseKept
  <2> QED
    BY <1>0, <1>1, <2>1
<1>6. \A c \in Guests : /\ guest'[c].pc = "movers" => RanksFound(guest'[c].movers)
                        /\ guest'[c].pc = "answer" => RanksAnswered(guest'[c].movers)
  BY <1>5 DEF MoversInv
<1> QED
  BY <1>2, <1>3, <1>4, <1>5, <1>6 DEF MoversInv

LEMMA MoveStored ==
  ASSUME DaysKept, NEW s \in Shares, NEW d \in Trades, NEW move \in Moves \cup {NoMove}, StoreMove(s, d, move)
  PROVE  DaysKept'
<1> DEFINE r == [e \in DOMAIN dayRows[s] \cup {d} |-> IF e = d THEN move ELSE dayRows[s][e]]
<1>1. dayRows \in [Shares -> DayRow] /\ dayRows[s] \in DayRow /\ Ends(dayRows[s]) /\ d \in Nat
  BY MoversAssumption DEF DaysKept
<1>2. dayRows' = [dayRows EXCEPT ![s] = r]
  BY DEF StoreMove
<1>3. DOMAIN dayRows[s] \subseteq Trades /\ \A e \in DOMAIN dayRows[s] : dayRows[s][e] \in Moves \cup {NoMove}
  BY <1>1, DayRowLaws
<1>4. r \in [DOMAIN dayRows[s] \cup {d} -> Moves \cup {NoMove}] /\ DOMAIN dayRows[s] \cup {d} \in SUBSET Trades
  BY <1>3
<1>5. r \in DayRow
  BY <1>4 DEF DayRow
<1>6. Ends(r)
  <2>1. PICK n \in Nat : DOMAIN dayRows[s] \subseteq 0 .. n
    BY <1>1 DEF Ends
  <2> DEFINE m == IF n < d THEN d ELSE n
  <2>2. m \in Nat /\ DOMAIN r \subseteq 0 .. m
    BY <1>1, <1>4, <2>1
  <2> HIDE DEF m, r
  <2> QED
    BY <2>2 DEF Ends
<1> HIDE DEF r
<1>7. dayRows' \in [Shares -> DayRow] /\ dayRows'[s] = r /\ \A x \in Shares \ {s} : dayRows'[x] = dayRows[x]
  BY <1>1, <1>2, <1>5
<1> QED
  BY <1>6, <1>7 DEF DaysKept

LEMMA MoversInvNext == MoversInv /\ [MoversNext]_moversVars => MoversInv'
<1> SUFFICES ASSUME MoversInv, [MoversNext]_moversVars PROVE MoversInv'
  OBVIOUS
<1>0. MaxStores \in Nat /\ LastMinute \in Nat
  BY MoversAssumption
<1>1. CASE UNCHANGED moversVars
  BY <1>1 DEF moversVars, MoversInv, DaysKept
<1>2. ASSUME NEW s \in Shares, NEW d \in Trades, NEW move \in Moves \cup {NoMove}, StoreMove(s, d, move)
      PROVE  MoversInv'
  <2>1. DaysKept'
    BY <1>2, MoveStored DEF MoversInv
  <2>2. stores' \in 0 .. MaxStores /\ UNCHANGED <<minute, activeShares, kept, guest, shownMovers>>
    BY <1>0, <1>2 DEF StoreMove, MoversInv
  <2> QED
    BY <2>1, <2>2 DEF MoversInv
<1>3. ASSUME NEW s \in Shares, Mature(s) PROVE MoversInv'
  BY <1>0, <1>3 DEF Mature, MoversInv, DaysKept
<1>4. CASE MinutePasses
  BY <1>0, <1>4 DEF MinutePasses, MoversInv, DaysKept
<1> QED
  BY <1>1, <1>2, <1>3, <1>4, GuestFinds, GuestMatches, GuestEnds DEF MoversNext

LEMMA DistinctSize ==
  ASSUME NEW s \in Seq(MoverRow), \A i, j \in 1 .. Len(s) : i # j => s[i].share # s[j].share
  PROVE  Cardinality({s[i].share : i \in DOMAIN s}) = Len(s)
<1>1. Len(s) \in Nat /\ DOMAIN s = 1 .. Len(s)
  OBVIOUS
<1> DEFINE T == {s[i].share : i \in DOMAIN s}
           f == [i \in 1 .. Len(s) |-> s[i].share]
<1>2. f \in [1 .. Len(s) -> T] /\ \A z \in T : \E i \in 1 .. Len(s) : f[i] = z
  BY <1>1
<1>3. \A i, j \in 1 .. Len(s) : f[i] = f[j] => i = j
  OBVIOUS
<1>4. IsFiniteSet(1 .. Len(s)) /\ Cardinality(1 .. Len(s)) = Len(s)
  <2>1. IsFiniteSet(1 .. Len(s)) /\ Cardinality(1 .. Len(s)) = IF 1 > Len(s) THEN 0 ELSE Len(s) - 1 + 1
    BY <1>1, FS_Interval
  <2> QED
    BY <1>1, <2>1
<1> HIDE DEF f, T
<1>5. Cardinality(T) = Len(s)
  BY <1>2, <1>3, <1>4, SameSize
<1> QED
  BY <1>5 DEF T

\* The same facts, with the order that a ranking is in written out.
RankFacts(movers, s, B) ==
    /\ DOMAIN s = 1 .. Len(s) /\ Len(s) \in Nat /\ Cardinality({s[i].share : i \in DOMAIN s}) = Len(s)
    /\ \A i \in 1 .. Len(s) : /\ s[i].share \in MovedOf(movers.shares, movers.rows)
                              /\ s[i].change = ChangeOf(movers.rows[s[i].share]) /\ s[i].change \in Int
    /\ \A i, j \in 1 .. Len(s) : j < i => <<s[i].change, s[j].change>> \notin B
    /\ \A x \in (MovedOf(movers.shares, movers.rows) \cap movers.listed) \ {s[i].share : i \in DOMAIN s} :
          /\ Cardinality(MovedOf(movers.shares, movers.rows)) > TopSize /\ ChangeOf(movers.rows[x]) \in Int
          /\ \A i \in 1 .. Len(s) : <<ChangeOf(movers.rows[x]), s[i].change>> \notin B

LEMMA RanksHaveFacts ==
  ASSUME NEW movers, NEW s, NEW B, Ranks(movers.shares, movers.rows, s, movers.listed, B)
  PROVE  RankFacts(movers, s, B)
<1>0. Moves \subseteq Int
  BY MoversAssumption
<1>1. s \in Seq(MoverRow)
  BY DEF Ranks
<1>2. DOMAIN s = 1 .. Len(s) /\ Len(s) \in Nat
  BY <1>1
<1>3. Cardinality({s[i].share : i \in DOMAIN s}) = Len(s)
  BY <1>1, DistinctSize DEF Ranks
<1> QED
  BY <1>0, <1>2, <1>3 DEF Ranks, RankFacts

LEMMA RanksAreFirst ==
  ASSUME NEW movers, RanksAnswered(movers)
  PROVE  /\ RanksFirst(movers, movers.gainers, LAMBDA x, y : x > y)
         /\ RanksFirst(movers, movers.losers, LAMBDA x, y : x < y)
<1>m. MovedOf(movers.shares, movers.rows) = {s \in movers.shares : Moved(movers.rows[s])}
  BY DEF MovedOf
<1>2. \A p, q \in Int : (<<p, q>> \notin More <=> ~(p > q)) /\ (<<p, q>> \notin Less <=> ~(p < q))
  BY DEF More, Less
<1>3. ASSUME NEW s, RankFacts(movers, s, More)
      PROVE  RanksFirst(movers, s, LAMBDA x, y : x > y)
  <2>1. \A i, j \in 1 .. Len(s) : j < i => ~(s[i].change > s[j].change)
    BY <1>2, <1>3 DEF RankFacts
  <2>2. \A x \in (MovedOf(movers.shares, movers.rows) \cap movers.listed) \ {s[i].share : i \in DOMAIN s} :
           \A i \in 1 .. Len(s) : ~(ChangeOf(movers.rows[x]) > s[i].change)
    BY <1>2, <1>3 DEF RankFacts
  <2>3. \A i \in DOMAIN s : \A j \in 1 .. i - 1 : j \in 1 .. Len(s) /\ j < i
    BY <1>3 DEF RankFacts
  <2> QED
    BY <1>m, <1>3, <2>1, <2>2, <2>3 DEF RankFacts, RanksFirst
<1>4. ASSUME NEW s, RankFacts(movers, s, Less)
      PROVE  RanksFirst(movers, s, LAMBDA x, y : x < y)
  <2>1. \A i, j \in 1 .. Len(s) : j < i => ~(s[i].change < s[j].change)
    BY <1>2, <1>4 DEF RankFacts
  <2>2. \A x \in (MovedOf(movers.shares, movers.rows) \cap movers.listed) \ {s[i].share : i \in DOMAIN s} :
           \A i \in 1 .. Len(s) : ~(ChangeOf(movers.rows[x]) < s[i].change)
    BY <1>2, <1>4 DEF RankFacts
  <2>3. \A i \in DOMAIN s : \A j \in 1 .. i - 1 : j \in 1 .. Len(s) /\ j < i
    BY <1>4 DEF RankFacts
  <2> QED
    BY <1>m, <1>4, <2>1, <2>2, <2>3 DEF RankFacts, RanksFirst
<1> QED
  BY <1>3, <1>4, RanksHaveFacts DEF RanksAnswered

\* MarketDataService.getTopMovers, for any number of shares and requests and any limit: what the
\* dashboard shows was the first of the ranking by change, from the top and from the bottom.
THEOREM MoversToldRight == MoversSpec => []MoversWereTrue
<1>1. MoversInv => MoversWereTrue
  BY RanksAreFirst DEF MoversInv, MoversWereTrue
<1> QED
  BY MoversInvInit, MoversInvNext, <1>1, PTL DEF MoversSpec

-----------------------------------------------------------------------------
(* The types of all components. *)

(* The health of the sources. *)

States == {"SUCCESS", "FAILURE"}
Statuses == {"UNKNOWN", "SUCCESS", "FAILURE"}

\* Rows that a query brought, and the summary that was made of such.
SummarySound(sites) == \A s \in Sites : sites[s].status \in Statuses
HealthTypes ==
    /\ HealthTypeOK
    /\ DOMAIN reading = Readers
    /\ \A r \in Readers : /\ {"pc", "rows", "asked"} \subseteq DOMAIN reading[r]
                          /\ \A row \in reading[r].rows : row.status \in States
    /\ SummarySound(latest.sites)

LEMMA HealthTypesInit == HealthInit => HealthTypes
<1> SUFFICES ASSUME HealthInit PROVE HealthTypes
  OBVIOUS
<1>1. tick \in KeepChecks .. LastTick /\ 0 \in 0 .. LastTick /\ -1 \in -1 .. LastTick
  BY HealthAssumption DEF HealthInit
<1>2. /\ DOMAIN reading = Readers
      /\ \A r \in Readers : reading[r] = [pc |-> "idle", rows |-> {}, asked |-> {}]
  BY DEF HealthInit
<1>3. SummarySound(latest.sites) /\ latest.updated = -1
  BY DEF HealthInit, SummarySound, Statuses, NoSnapshotYet, NothingKnown, NoSummary
<1>4. checks = {} /\ ranking = <<>>
  BY DEF HealthInit
<1>5. tracked \in [Calls -> [site : Sites, pc : {"new", "asked", "succeeded", "failed", "handed", "thrown"},
                             at : 0 .. LastTick]]
  BY <1>1 DEF HealthInit
<1> QED
  BY <1>1, <1>2, <1>3, <1>4, <1>5 DEF HealthTypes, HealthTypeOK, SummarySound, Statuses

LEMMA RowStates == \A row \in Summaries : row.status \in States
<1>1. \A s : RawRow(s).status \in States
  BY DEF RawRow, States
<1> QED
  BY <1>1 DEF Summaries, RawRows

LEMMA SummaryOfRows ==
  ASSUME NEW rows0, \A row \in rows0 : row.status \in States
  PROVE  SummarySound(ByProvider(rows0))
<1>1. ASSUME NEW s \in Sites, \E row \in rows0 : row.site = s PROVE ByProvider(rows0)[s].status \in States
  <2> DEFINE r == CHOOSE x \in rows0 : x.site = s
  <2>1. r \in rows0
    BY <1>1
  <2>2. ByProvider(rows0)[s].status = r.status
    BY <1>1 DEF ByProvider
  <2> QED
    BY <2>1, <2>2
<1>2. ASSUME NEW s \in Sites, ~\E row \in rows0 : row.site = s PROVE ByProvider(rows0)[s].status = "UNKNOWN"
  BY <1>2 DEF ByProvider, NoSummary
<1> QED
  BY <1>1, <1>2 DEF SummarySound, States, Statuses

\* A ranking has each site once, and so all of them.
LEMMA RankingHasAll ==
  ASSUME NEW h, NEW order \in Ranked(h)
  PROVE  {order[i] : i \in DOMAIN order} = Sites
<1>1. order \in SetToSeqs(Sites)
  BY DEF Ranked
<1> DEFINE n == Cardinality(Sites)
<1>2. order \in [1 .. n -> Sites] /\ \A s \in Sites : \E i \in 1 .. n : order[i] = s
  BY <1>1, HealthAssumption, Enumerates
<1> HIDE DEF n
<1> QED
  BY <1>2

LEMMA TrackedTypes ==
  ASSUME HealthTypes, NEW c \in Calls, NEW pc \in {"asked", "succeeded", "failed", "handed", "thrown"},
         NEW at \in 0 .. LastTick, tracked' = [tracked EXCEPT ![c].pc = pc, ![c].at = at],
         checks' \subseteq checks \cup {Check(c, TRUE), Check(c, FALSE)},
         UNCHANGED <<tick, reading, latest, display, ranking>>
  PROVE  HealthTypes'
<1> DEFINE T == [site : Sites, pc : {"new", "asked", "succeeded", "failed", "handed", "thrown"}, at : 0 .. LastTick]
           r == [tracked[c] EXCEPT !.pc = pc, !.at = at]
<1>1. tracked \in [Calls -> T] /\ tracked[c] \in T
  BY DEF HealthTypes, HealthTypeOK
<1>2. r \in T
  BY <1>1
<1>3. tracked' = [tracked EXCEPT ![c] = r]
  BY <1>1
<1> HIDE DEF r
<1>4. tracked' \in [Calls -> T]
  BY <1>1, <1>2, <1>3
<1>5. tick \in 0 .. LastTick
  BY HealthAssumption DEF HealthTypes, HealthTypeOK
<1>6. \A ok \in BOOLEAN : Check(c, ok) \in [site : Sites, call : Calls, ok : BOOLEAN, at : 0 .. LastTick]
  BY <1>1, <1>5 DEF Check
<1>7. checks' \subseteq [site : Sites, call : Calls, ok : BOOLEAN, at : 0 .. LastTick]
  BY <1>6 DEF HealthTypes, HealthTypeOK
<1> QED
  BY <1>4, <1>7 DEF HealthTypes, HealthTypeOK

LEMMA ReadingTypes ==
  ASSUME HealthTypes, NEW r \in Readers, NEW q, reading' = [reading EXCEPT ![r] = q],
         {"pc", "rows", "asked"} \subseteq DOMAIN q, q.pc \in {"idle", "queried", "cleanup"},
         \A row \in q.rows : row.status \in States,
         checks' \subseteq checks, latest'.updated \in -1 .. LastTick, SummarySound(latest'.sites),
         ranking' = ranking \/ {ranking'[i] : i \in DOMAIN ranking'} = Sites,
         UNCHANGED <<tick, tracked>>
  PROVE  HealthTypes'
<1>1. DOMAIN reading' = Readers /\ reading'[r] = q /\ \A s \in Readers \ {r} : reading'[s] = reading[s]
  BY DEF HealthTypes
<1>2. \A s \in Readers : /\ {"pc", "rows", "asked"} \subseteq DOMAIN reading'[s]
                         /\ \A row \in reading'[s].rows : row.status \in States
                         /\ reading'[s].pc \in {"idle", "queried", "cleanup"}
  BY <1>1 DEF HealthTypes, HealthTypeOK
<1>3. ranking' = <<>> \/ {ranking'[i] : i \in DOMAIN ranking'} = Sites
  BY DEF HealthTypes, HealthTypeOK
<1> QED
  BY <1>1, <1>2, <1>3 DEF HealthTypes, HealthTypeOK, SummarySound, Statuses

LEMMA HealthTypesNext == HealthTypes /\ [HealthNext]_healthVars => HealthTypes'
<1> SUFFICES ASSUME HealthTypes, [HealthNext]_healthVars PROVE HealthTypes'
  OBVIOUS
<1>t. tick \in 0 .. LastTick /\ tick \in -1 .. LastTick /\ tick \in KeepChecks .. LastTick /\ KeepChecks \in Nat
      /\ LastTick \in Nat
  BY HealthAssumption DEF HealthTypes, HealthTypeOK
<1>1. ASSUME NEW c \in Calls, NEW pc \in {"asked", "succeeded", "failed", "thrown"}, TrackedTo(c, pc),
             checks' \subseteq checks \cup {Check(c, TRUE), Check(c, FALSE)},
             UNCHANGED <<tick, reading, latest, display, ranking>>
      PROVE  HealthTypes'
  <2>1. tracked[c] \in [site : Sites, pc : {"new", "asked", "succeeded", "failed", "handed", "thrown"},
                        at : 0 .. LastTick]
    BY DEF HealthTypes, HealthTypeOK
  <2> DEFINE at == tracked[c].at
  <2>2. at \in 0 .. LastTick
    BY <2>1
  <2>3. tracked' = [tracked EXCEPT ![c].pc = pc, ![c].at = at]
    BY <1>1, <2>1 DEF TrackedTo, HealthTypes, HealthTypeOK
  <2> HIDE DEF at
  <2> QED
    BY <1>1, <2>2, <2>3, TrackedTypes
<1>2. ASSUME NEW c \in Calls, Track(c) \/ OperationEnds(c) \/ SuccessIsLost(c) \/ SaveFailure(c) PROVE HealthTypes'
  <2>1. CASE Track(c) \/ OperationEnds(c)
    BY <1>1, <2>1 DEF Track, OperationEnds
  <2>2. CASE SuccessIsLost(c)
    BY <1>1, <2>2 DEF SuccessIsLost, AfterLostCheck, TrackedTo
  <2>3. CASE SaveFailure(c)
    BY <1>1, <2>3 DEF SaveFailure
  <2> QED
    BY <1>2, <2>1, <2>2, <2>3
<1>3. ASSUME NEW c \in Calls, SaveSuccess(c) PROVE HealthTypes'
  BY <1>t, <1>3, TrackedTypes DEF SaveSuccess
<1>4. ASSUME NEW r \in Readers, QuerySummaries(r) PROVE HealthTypes'
  <2> DEFINE q == [pc |-> "queried", rows |-> Summaries, asked |-> {row.site : row \in RawRows}]
  <2>1. /\ {"pc", "rows", "asked"} \subseteq DOMAIN q /\ q.pc = "queried" /\ \A row \in q.rows : row.status \in States
    BY RowStates
  <2>2. reading' = [reading EXCEPT ![r] = q] /\ UNCHANGED <<tick, checks, tracked, latest, display, ranking>>
    BY <1>4 DEF QuerySummaries
  <2> HIDE DEF q
  <2>3. latest'.updated \in -1 .. LastTick /\ SummarySound(latest'.sites)
    BY <2>2 DEF HealthTypes, HealthTypeOK
  <2> QED
    BY <2>1, <2>2, <2>3, ReadingTypes
<1>5. ASSUME NEW r \in Readers, NEW pc \in {"idle", "cleanup"}, reading' = [reading EXCEPT ![r].pc = pc],
             checks' \subseteq checks, latest'.updated \in -1 .. LastTick, SummarySound(latest'.sites),
             ranking' = ranking \/ {ranking'[i] : i \in DOMAIN ranking'} = Sites,
             UNCHANGED <<tick, tracked>>
      PROVE  HealthTypes'
  <2> DEFINE q == [reading[r] EXCEPT !.pc = pc]
  <2>1. {"pc", "rows", "asked"} \subseteq DOMAIN q /\ q.pc = pc /\ q.rows = reading[r].rows
    BY DEF HealthTypes
  <2>2. reading' = [reading EXCEPT ![r] = q]
    BY <1>5
  <2>3. \A row \in q.rows : row.status \in States
    BY <2>1 DEF HealthTypes
  <2> HIDE DEF q
  <2> QED
    BY <1>5, <2>1, <2>2, <2>3, ReadingTypes
<1>6. ASSUME NEW r \in Readers, KeepSnapshot(r) PROVE HealthTypes'
  <2>1. latest' = [updated |-> tick, sites |-> ByProvider(reading[r].rows), asked |-> reading[r].asked]
    BY <1>6 DEF KeepSnapshot
  <2>2. latest'.updated = tick /\ latest'.sites = ByProvider(reading[r].rows)
    BY <2>1
  <2>3. SummarySound(ByProvider(reading[r].rows))
    BY SummaryOfRows DEF HealthTypes
  <2>4. ranking' = ranking \/ ranking' \in Ranked(latest'.sites)
    BY <1>6 DEF KeepSnapshot
  <2>5. ranking' = ranking \/ {ranking'[i] : i \in DOMAIN ranking'} = Sites
    BY <2>4, RankingHasAll
  <2>6. \E pc \in {"idle", "cleanup"} : reading' = [reading EXCEPT ![r].pc = pc]
    BY <1>6 DEF KeepSnapshot
  <2>7. UNCHANGED <<tick, checks, tracked>>
    BY <1>6 DEF KeepSnapshot
  <2> QED
    BY <1>t, <1>5, <2>2, <2>3, <2>5, <2>6, <2>7
<1>7. ASSUME NEW r \in Readers, QueryFails(r) PROVE HealthTypes'
  BY <1>5, <1>7 DEF QueryFails, HealthTypes, HealthTypeOK
<1>8. CASE CleanUp
  <2>1. "job" \in Readers /\ checks' \subseteq checks
    BY <1>8 DEF Readers, CleanUp
  <2> QED
    BY <1>5, <1>8, <2>1 DEF CleanUp, HealthTypes, HealthTypeOK
<1>9. CASE ShowSnapshot \/ UNCHANGED healthVars
  BY <1>9 DEF ShowSnapshot, healthVars, HealthTypes, HealthTypeOK, SummarySound
<1>10. CASE TickPasses
  <2>1. tick' \in KeepChecks .. LastTick
    BY <1>t, <1>10 DEF TickPasses
  <2> QED
    BY <1>10, <2>1 DEF TickPasses, HealthTypes, HealthTypeOK, SummarySound
<1> QED
  BY <1>2, <1>3, <1>4, <1>6, <1>7, <1>8, <1>9, <1>10 DEF HealthNext

-----------------------------------------------------------------------------
(* The quotes. *)

\* No quote was fetched after now, nor the status made.
TasksDated == \A j \in QuoteJobs, a \in Assets : task[j][a].at \in 0 .. now
QuotesDated == \A a \in Assets, d \in Dates : quoteRow[a][d] \in 0 .. now
StatusDated == status.made \in 0 .. now

QuotesTypes ==
    /\ QuotesInv
    /\ active \subseteq Assets
    /\ TasksDated /\ QuotesDated /\ StatusDated
    /\ everStored \subseteq StoredQuotes
    /\ shown \in [Assets -> 0 .. LastNow]

LEMMA QuotesTypesInit == QuotesInit => QuotesTypes
<1> SUFFICES ASSUME QuotesInit PROVE QuotesTypes
  OBVIOUS
<1>1. QuotesInv
  BY QuotesInvInit
<1>2. TasksDated
  BY DEF QuotesInit, TasksDated, NoTask
<1>3. QuotesDated
  BY DEF QuotesInit, QuotesDated
<1>4. LastNow \in Nat
  BY QuotesAssumption
<1> QED
  BY <1>1, <1>2, <1>3, <1>4 DEF QuotesInit, QuotesTypes, StatusDated

\* A step of a run that only moves the task of an asset.
LEMMA TaskDated ==
  ASSUME QuotesTypes, NEW j \in QuoteJobs, NEW a \in Assets, NEW t \in TaskRec, t.at \in 0 .. now,
         task' = [task EXCEPT ![j][a] = t], UNCHANGED now
  PROVE  TasksDated'
<1>1. task \in [QuoteJobs -> [Assets -> TaskRec]]
  BY DEF QuotesTypes, QuotesInv
<1>2. \A k \in QuoteJobs, b \in Assets : task'[k][b] = IF k = j /\ b = a THEN t ELSE task[k][b]
  BY <1>1
<1> QED
  BY <1>2 DEF QuotesTypes, TasksDated

LEMMA TaskEndDated ==
  ASSUME QuotesTypes, NEW j \in QuoteJobs, NEW a \in Assets, TaskEnds(j, a), UNCHANGED now
  PROVE  TasksDated'
<1>1. NoTask \in TaskRec /\ NoTask.at \in 0 .. now
  BY NoTaskType, QuotesAssumption DEF NoTask, QuotesTypes, QuotesInv
<1> QED
  BY <1>1, TaskDated DEF TaskEnds

LEMMA TaskOnDated ==
  ASSUME QuotesTypes, NEW j \in QuoteJobs, NEW a \in Assets, NEW pc \in {"out", "fetch", "save", "publish"},
         TaskTo(j, a, pc), UNCHANGED now
  PROVE  TasksDated'
<1> DEFINE t == [task[j][a] EXCEPT !.pc = pc]
<1>1. task \in [QuoteJobs -> [Assets -> TaskRec]] /\ task[j][a] \in TaskRec
  BY DEF QuotesTypes, QuotesInv
<1>2. t \in TaskRec /\ t.at = task[j][a].at
  BY <1>1 DEF TaskRec
<1>3. task' = [task EXCEPT ![j][a] = t]
  BY DEF TaskTo
<1>4. t.at \in 0 .. now
  BY <1>2 DEF QuotesTypes, TasksDated
<1> HIDE DEF t
<1> QED
  BY <1>2, <1>3, <1>4, TaskDated

\* The rest stays as long as no quote is stored and nothing pushed.
LEMMA RestTyped ==
  ASSUME QuotesTypes, QuotesInv', TasksDated', UNCHANGED <<now, active, quoteRow, status, shown, everStored>>
  PROVE  QuotesTypes'
BY DEF QuotesTypes, QuotesDated, StatusDated

LEMMA QuotesTypesNext == QuotesTypes /\ [QuotesNext]_quotesVars => QuotesTypes'
<1> SUFFICES ASSUME QuotesTypes, [QuotesNext]_quotesVars PROVE QuotesTypes'
  OBVIOUS
<1>1. QuotesInv /\ QuotesInv' /\ active' \subseteq Assets
  BY QuotesInvNext, ActiveNext DEF QuotesTypes
<1>2. now \in 1 .. LastNow /\ LastNow \in Nat
  BY QuotesAssumption DEF QuotesTypes, QuotesInv
<1>3. ASSUME UNCHANGED <<now, task>> PROVE TasksDated'
  BY <1>3 DEF QuotesTypes, TasksDated
<1>4. ASSUME NEW j \in QuoteJobs, StartRefresh(j) \/ StartView(j) \/ StartBackfill(j) \/ Orphaned(j) \/ EndRun(j)
      PROVE  QuotesTypes'
  BY <1>1, <1>3, <1>4, RestTyped DEF StartRefresh, StartView, StartBackfill, Orphaned, EndRun, quotesHistory
<1>5. ASSUME NEW j \in QuoteJobs, NextChunk(j) PROVE QuotesTypes'
  <2>1. PICK chunk : task' = [task EXCEPT ![j] = [a \in Assets |-> IF a \in chunk THEN [NoTask EXCEPT !.pc = "fetch"]
                                                                   ELSE task[j][a]]]
    BY <1>5 DEF NextChunk
  <2>2. [NoTask EXCEPT !.pc = "fetch"].at = 0 /\ 0 \in 0 .. now
    BY <1>2 DEF NoTask
  <2>3. task \in [QuoteJobs -> [Assets -> TaskRec]]
    BY <1>1 DEF QuotesInv
  <2>4. \A k \in QuoteJobs, a \in Assets : task'[k][a] = task[k][a] \/ task'[k][a] = [NoTask EXCEPT !.pc = "fetch"]
    BY <2>1, <2>3
  <2>5. \A k \in QuoteJobs, a \in Assets : task'[k][a].at \in 0 .. now
    BY <2>2, <2>4 DEF QuotesTypes, TasksDated
  <2>6. TasksDated'
    BY <1>5, <2>5 DEF NextChunk, TasksDated
  <2> QED
    BY <1>1, <1>5, <2>6, RestTyped DEF NextChunk, quotesHistory
<1>6. ASSUME NEW j \in QuoteJobs, PushUpdates(j) PROVE QuotesTypes'
  <2> DEFINE told == quoteJob[j].updates
             tells(a) == \E u \in told : u.asset = a
             pushed(a) == (CHOOSE u \in told : u.asset = a).at
  <2>1. shown' = [a \in Assets |-> IF tells(a) THEN pushed(a) ELSE shown[a]]
    BY <1>6 DEF PushUpdates
  <2>2. told \subseteq StoredQuotes
    BY <1>1 DEF QuotesTypes, QuotesInv, RunInv, AnnouncedWasStored
  <2>3. ASSUME NEW a \in Assets, tells(a) PROVE pushed(a) \in 0 .. LastNow
    <3>1. (CHOOSE u \in told : u.asset = a) \in StoredQuotes
      BY <2>2, <2>3
    <3> QED
      BY <1>2, <3>1 DEF StoredQuotes
  <2>4. \A a \in Assets : shown[a] \in 0 .. LastNow
    BY DEF QuotesTypes
  <2> HIDE DEF tells, pushed
  <2>5. shown' \in [Assets -> 0 .. LastNow]
    BY <2>1, <2>3, <2>4
  <2>6. TasksDated'
    BY <1>3, <1>6 DEF PushUpdates
  <2> QED
    BY <1>1, <1>6, <2>5, <2>6 DEF PushUpdates, quotesHistory, QuotesTypes, QuotesDated, StatusDated
<1>7. ASSUME NEW j \in QuoteJobs, GetMarketStatus(j) PROVE QuotesTypes'
  <2>1. status' = status \/ status' = [made |-> now, until |-> now + StatusTtl]
    BY <1>7 DEF GetMarketStatus
  <2>2. status'.made \in 0 .. now
    BY <1>2, <2>1 DEF QuotesTypes, StatusDated
  <2>3. TasksDated'
    BY <1>3, <1>7 DEF GetMarketStatus
  <2> QED
    BY <1>1, <1>7, <2>2, <2>3 DEF GetMarketStatus, quotesHistory, QuotesTypes, QuotesDated, StatusDated
<1>8. ASSUME NEW j \in QuoteJobs, NEW a \in Assets, FetchQuote(j, a) \/ FetchHistory(j, a) PROVE QuotesTypes'
  <2>1. DateOf(now) \in Dates /\ 0 .. DateOf(now) \subseteq Dates
    BY <1>2, DatesKnown
  <2>2. PICK dates \in DateSets : task' = [task EXCEPT ![j][a] = [pc |-> "save", at |-> now, dates |-> dates]]
    BY <1>8, <2>1 DEF FetchQuote, FetchHistory, DateSets
  <2> DEFINE t == [pc |-> "save", at |-> now, dates |-> dates]
  <2>3. t \in TaskRec /\ t.at \in 0 .. now /\ task' = [task EXCEPT ![j][a] = t]
    BY <1>2, <2>2 DEF TaskRec
  <2> HIDE DEF t
  <2>4. UNCHANGED <<now, active, quoteRow, status, shown, everStored>>
    BY <1>8 DEF FetchQuote, FetchHistory, quotesHistory
  <2> QED
    BY <1>1, <2>3, <2>4, TaskDated, RestTyped
<1>9. ASSUME NEW j \in QuoteJobs, NEW a \in Assets,
             FetchMisses(j, a) \/ SaveMisses(j, a) \/ PublishQuote(j, a) \/ PublishMisses(j, a)
      PROVE  QuotesTypes'
  <2>1. TaskEnds(j, a) /\ UNCHANGED <<now, active, quoteRow, status, shown, everStored>>
    BY <1>9 DEF FetchMisses, SaveMisses, PublishQuote, PublishMisses, quotesHistory
  <2> QED
    BY <1>1, <2>1, TaskEndDated, RestTyped
<1>10. ASSUME NEW j \in QuoteJobs, NEW a \in Assets, SaveQuote(j, a) PROVE QuotesTypes'
  <2> DEFINE t == task[j][a]
  <2>1. /\ quoteRow' = [quoteRow EXCEPT ![a] = [d \in Dates |-> IF d \in t.dates THEN t.at ELSE quoteRow[a][d]]]
        /\ everStored' = everStored \cup {Quote(a, t.at)} /\ UNCHANGED <<now, status, shown>>
        /\ TaskTo(j, a, "publish") \/ TaskEnds(j, a)
    BY <1>10 DEF SaveQuote
  <2>2. t.at \in 1 .. LastNow /\ t.at \in 0 .. now
    BY <1>1, <1>10 DEF SaveQuote, QuotesInv, RunInv, QuotesTypes, TasksDated
  <2> HIDE DEF t
  <2>3. TasksDated'
    BY <2>1, TaskOnDated, TaskEndDated
  <2>4. Quote(a, t.at) \in StoredQuotes
    BY <2>2 DEF Quote, StoredQuotes
  <2>5. \A b \in Assets, d \in Dates : quoteRow'[b][d] = quoteRow[b][d] \/ quoteRow'[b][d] = t.at
    BY <1>1, <2>1 DEF QuotesInv, RowsDated
  <2>6. \A b \in Assets, d \in Dates : quoteRow'[b][d] \in 0 .. now
    BY <2>2, <2>5 DEF QuotesTypes, QuotesDated
  <2>7. QuotesDated'
    BY <2>1, <2>6 DEF QuotesDated, Dates, DateOf
  <2> QED
    BY <1>1, <2>1, <2>3, <2>4, <2>7 DEF QuotesTypes, StatusDated, StoredQuotes
<1>11. ASSUME NEW a \in Assets, Deactivate(a) PROVE QuotesTypes'
  BY <1>1, <1>3, <1>11 DEF Deactivate, quotesHistory, QuotesTypes, QuotesDated, StatusDated
<1>12. CASE NowPasses
  <2>1. now' = now + 1 /\ \A x \in 0 .. now : x \in 0 .. now'
    BY <1>2, <1>12 DEF NowPasses
  <2>2. TasksDated' /\ QuotesDated' /\ StatusDated'
    BY <1>12, <2>1 DEF NowPasses, QuotesTypes, TasksDated, QuotesDated, StatusDated, Dates, DateOf
  <2> QED
    BY <1>1, <1>12, <2>2 DEF NowPasses, quotesHistory, QuotesTypes, StoredQuotes
<1>13. CASE UNCHANGED quotesVars
  BY <1>1, <1>3, <1>13, RestTyped DEF quotesVars, quotesHistory
<1> QED
  BY <1>4, <1>5, <1>6, <1>7, <1>8, <1>9, <1>10, <1>11, <1>12, <1>13 DEF QuotesNext

LEMMA QuotesTyped == QuotesTypes => QuotesTypeOK
<1> SUFFICES ASSUME QuotesTypes PROVE QuotesTypeOK
  OBVIOUS
<1>1. now \in 1 .. LastNow /\ quoteJob \in [QuoteJobs -> JobRec] /\ task \in [QuoteJobs -> [Assets -> TaskRec]]
  BY DEF QuotesTypes, QuotesInv
<1>2. \A a \in Assets, d \in Dates : quoteRow[a][d] \in 0 .. now /\ (quoteRow[a][d] # 0 => DateOf(quoteRow[a][d]) >= d)
  BY DEF QuotesTypes, QuotesDated, QuotesInv, RowsDated
<1>3. events \subseteq StoredQuotes /\ \A j \in QuoteJobs : quoteJob[j].updates \subseteq StoredQuotes
  BY DEF QuotesTypes, QuotesInv, AnnouncedWasStored, RunInv
<1>4. \A j \in QuoteJobs : /\ quoteJob[j].kind \in Kinds /\ quoteJob[j].pc \in {"new", "chunks", "status", "end"}
                           /\ quoteJob[j].left \subseteq Assets
  BY <1>1 DEF JobRec, Started
<1>5. \A j \in QuoteJobs, a \in Assets : task[j][a].pc \in {"out", "fetch", "save", "publish"}
  BY <1>1 DEF TaskRec
<1> QED
  BY <1>1, <1>2, <1>3, <1>4, <1>5 DEF QuotesTypes, QuotesTypeOK, StatusDated

-----------------------------------------------------------------------------
(* The rates. *)

RowTyped(r) ==
    /\ r.type \in RowTypes /\ r.double \in Nat /\ r.at \in 0 .. day
    /\ r.count \in 0 .. Cardinality(Quotes)

\* At most one row of each type.
OneEach(rs) == \A r, s \in rs : r.type = s.type => r = s

\* The rows that a call has are of different types, and so are those of the board.
Handful(rs) == OneEach(rs) /\ IsFiniteSet(rs) /\ \A r \in rs : RowTyped(r)

RatesTypes ==
    /\ day \in 0 .. LastDay
    /\ DOMAIN rateCall = RateCalls /\ \A c \in RateCalls : "has" \in DOMAIN rateCall[c]
    /\ \A r \in rateRow : RowTyped(r)
    /\ IsFiniteSet(rateRow) /\ Cardinality(rateRow) <= Rows
    /\ Handful(board)
    /\ \A c \in RateCalls : Handful(rateCall[c].has)

LEMMA NoRows == Handful({})
  BY FS_EmptySet DEF Handful, OneEach

LEMMA RatesTypesInit == RatesInit => RatesTypes
<1>1. IsFiniteSet({}) /\ Cardinality({}) = 0 /\ Rows \in Nat /\ LastDay \in Nat
  BY FS_EmptySet, RatesAssumption
<1> QED
  BY <1>1, NoRows DEF RatesInit, RatesTypes

LEMMA OneRow == ASSUME NEW r, RowTyped(r) PROVE Handful({r})
  BY FS_Singleton DEF Handful, OneEach

\* Median of at least two quotes.
LEMMA MiddleType ==
  ASSUME NEW given, IsFiniteSet(DOMAIN given), Cardinality(DOMAIN given) >= 2,
         \A q \in DOMAIN given : given[q].rate \in Rates
  PROVE  Middle(given) \in Nat
<1> DEFINE n == Cardinality(DOMAIN given)
           i == (n + 1) \div 2
           j == n \div 2 + 1
<1>1. n \in Nat
  BY FS_CardinalityType
<1>2. i \in 1 .. n /\ j \in 1 .. n
  BY <1>1
<1>3. Middle(given) = Nth(given, i) + Nth(given, j)
  BY DEF Middle
<1> HIDE DEF i, j
<1>4. Nth(given, i) \in Rates /\ Nth(given, j) \in Rates
  BY <1>2, NthIsThere
<1>5. Nth(given, i) \in Nat /\ Nth(given, j) \in Nat
  BY <1>4, RatesAssumption
<1> QED
  BY <1>3, <1>5

LEMMA SomeThere == ASSUME NEW S, Cardinality(S) >= 2 PROVE S # {}
  BY FS_EmptySet

\* One row of at least two quotes agreed on, dated by the latest of those used, or none.
LEMMA AgreedTyped ==
  ASSUME NEW t \in RateTypes, NEW answer \in [Quotes -> Quoted \cup {NoQuote}], day \in Nat
  PROVE  IsFiniteSet(Agreed(t, answer)) /\ \A r \in Agreed(t, answer) : /\ r.type = t /\ RowTyped(r)
                                                                        /\ \A s \in Agreed(t, answer) : s = r
<1> DEFINE fresh == {q \in Quotes : answer[q] # NoQuote /\ day - answer[q].at <= MaxSourceAge}
           given == [q \in fresh |-> answer[q]]
           near == {q \in fresh : Near(given[q].rate, Middle(given))}
           used == IF Cardinality(near) >= 2 THEN near ELSE fresh
           n == Cardinality(fresh)
           date == CHOOSE d \in 0 .. day : /\ \E q \in used : given[q].at = d
                                           /\ \A q \in used : given[q].at <= d
           row0 == NewRow(t, Middle(given), date, n, Nth(given, 2), Nth(given, n - 1))
<1>1. Agreed(t, answer) = IF n < 2 THEN {} ELSE {row0}
  BY DEF Agreed
<1>2. IsFiniteSet(fresh) /\ n \in Nat /\ n <= Cardinality(Quotes) /\ IsFiniteSet(near) /\ Cardinality(Quotes) \in Nat
  <2>1. IsFiniteSet(fresh) /\ Cardinality(fresh) <= Cardinality(Quotes)
    BY RatesAssumption, FS_Subset
  <2>2. near \subseteq fresh
    OBVIOUS
  <2>3. IsFiniteSet(near)
    BY <2>1, <2>2, FS_Subset
  <2> QED
    BY <2>1, <2>3, RatesAssumption, FS_CardinalityType
<1>3. CASE n < 2
  BY <1>1, <1>3, FS_EmptySet
<1>4. CASE ~(n < 2)
  <2>1. DOMAIN given = fresh /\ n >= 2
    BY <1>2, <1>4
  <2>2. \A q \in fresh : given[q] \in Quoted
    OBVIOUS
  <2>3. \A q \in fresh : given[q].rate \in Rates /\ given[q].at \in 0 .. day
    BY <2>2 DEF Quoted
  <2>4. fresh # {} /\ (Cardinality(near) >= 2 => near # {})
    <3> HIDE DEF fresh, near
    <3> QED
      BY <2>1, SomeThere
  <2>5. used # {} /\ used \subseteq fresh
    BY <2>4
  <2> HIDE DEF used, fresh, near, given
  <2> DEFINE D == {given[q].at : q \in used}
  <2>6. D \in SUBSET (0 .. day) /\ D # {}
    BY <2>3, <2>5
  <2>7. \E d \in D : \A e \in D : e <= d
    BY <2>6, LastOf
  <2>8. \E d \in 0 .. day : (\E q \in used : given[q].at = d) /\ \A q \in used : given[q].at <= d
    BY <2>6, <2>7
  <2>9. date \in 0 .. day
    BY <2>8
  <2>10. Middle(given) \in Nat
    BY <1>2, <2>1, <2>3, MiddleType DEF n
  <2>11. n \in 0 .. Cardinality(Quotes)
    BY <1>2
  <2> HIDE DEF date, n
  <2>12. row0.type = t /\ RowTyped(row0)
    BY <2>9, <2>10, <2>11 DEF NewRow, RowTyped, RowTypes
  <2> HIDE DEF row0
  <2>13. Agreed(t, answer) = {row0}
    BY <1>1, <1>4
  <2> QED
    BY <2>12, <2>13, FS_Singleton
<1> QED
  BY <1>3, <1>4

LEMMA AgreedHandful ==
  ASSUME NEW answer \in SourceAnswers, day \in Nat
  PROVE  Handful(UNION {Agreed(t, answer[t]) : t \in RateTypes})
<1> DEFINE all == {Agreed(t, answer[t]) : t \in RateTypes}
<1>1. \A t \in RateTypes : answer[t] \in [Quotes -> Quoted \cup {NoQuote}]
  BY DEF SourceAnswers
<1>2. \A t \in RateTypes : /\ IsFiniteSet(Agreed(t, answer[t]))
                           /\ \A r \in Agreed(t, answer[t]) : /\ r.type = t /\ RowTyped(r)
                                                              /\ \A s \in Agreed(t, answer[t]) : s = r
  BY <1>1, AgreedTyped
<1>3. IsFiniteSet(all)
  <2> DEFINE f == [t \in RateTypes |-> Agreed(t, answer[t])]
  <2>1. f \in Surjection(RateTypes, all)
    BY DEF Surjection
  <2> QED
    BY <2>1, RatesAssumption, FS_Surjection
<1>4. \A R \in all : IsFiniteSet(R)
  BY <1>2
<1>5. IsFiniteSet(UNION all)
  BY <1>3, <1>4, FS_UNION
<1>6. \A r \in UNION all : r.type \in RateTypes /\ r \in Agreed(r.type, answer[r.type]) /\ RowTyped(r)
  BY <1>2
<1>7. OneEach(UNION all)
  BY <1>2, <1>6 DEF OneEach
<1> QED
  BY <1>5, <1>6, <1>7 DEF Handful

\* Of the rows of the table a call reads one of each type.
LEMMA StoredHandful ==
  ASSUME RatesTypes, NEW types, NEW newest \in LatestOf(types)
  PROVE  Handful(newest)
<1>1. /\ newest \subseteq rateRow /\ \A r \in newest : r.type \in types
      /\ \A t \in {r.type : r \in rateRow} \cap types : Cardinality({r \in newest : r.type = t}) = 1
  BY DEF LatestOf
<1>2. IsFiniteSet(newest)
  BY <1>1, FS_Subset DEF RatesTypes
<1>3. ASSUME NEW r \in newest, NEW s \in newest, r.type = s.type PROVE r = s
  <2> DEFINE R == {x \in newest : x.type = r.type}
  <2>1. Cardinality(R) = 1 /\ IsFiniteSet(R)
    BY <1>1, <1>2, FS_Subset
  <2>2. r \in R /\ s \in R
    BY <1>3
  <2> HIDE DEF R
  <2>3. PICK x : R = {x}
    BY <2>1, FS_Singleton
  <2> QED
    BY <2>2, <2>3
<1> QED
  BY <1>1, <1>2, <1>3 DEF Handful, OneEach, RatesTypes

\* A call goes on with rows of which there is one of each type.
LEMMA CallTyped ==
  ASSUME RatesTypes, NEW c \in RateCalls, NEW pc, NEW has, To(c, pc, has), Handful(has),
         \/ rateRow' = rateRow
         \/ rateRow' = rateRow \cup rateCall[c].has /\ Cardinality(rateRow \cup rateCall[c].has) <= Rows,
         \/ board' = board
         \/ board' = {r \in board : \A n \in rateCall[c].has : n.type # r.type} \cup rateCall[c].has,
         UNCHANGED day
  PROVE  RatesTypes'
<1>1. /\ DOMAIN rateCall' = RateCalls
      /\ \A d \in RateCalls : "has" \in DOMAIN rateCall'[d]
      /\ rateCall'[c].has = has
      /\ \A d \in RateCalls : d # c => rateCall'[d].has = rateCall[d].has
  BY DEF To, RatesTypes
<1>2. Handful(rateCall[c].has)
  BY DEF RatesTypes
<1>3. \A r : RowTyped(r)' <=> RowTyped(r)
  BY DEF RowTyped
<1>4. (\A r \in rateRow' : RowTyped(r)) /\ IsFiniteSet(rateRow') /\ Cardinality(rateRow') <= Rows
  BY <1>2, FS_Union DEF RatesTypes, Handful
<1> DEFINE others == {r \in board : \A n \in rateCall[c].has : n.type # r.type}
<1>5. IsFiniteSet(others)
  BY FS_Subset DEF RatesTypes, Handful
<1>6. IsFiniteSet(others \cup rateCall[c].has)
  BY <1>2, <1>5, FS_Union DEF Handful
<1>7. Handful(board')
  BY <1>2, <1>6 DEF RatesTypes, Handful, OneEach
<1>8. \A d \in RateCalls : Handful(rateCall'[d].has)
  BY <1>1 DEF RatesTypes
<1>9. Handful(board)' /\ \A d \in RateCalls : Handful(rateCall[d].has)'
  BY <1>3, <1>7, <1>8 DEF Handful, OneEach
<1> QED
  BY <1>1, <1>3, <1>4, <1>9 DEF RatesTypes

LEMMA OtherTyped ==
  ASSUME NEW t \in {"calc", "risk"}, NEW n \in Nat, NEW at \in 0 .. day
  PROVE  Handful({OtherRow(t, n, at)})
<1>1. 0 \in 0 .. Cardinality(Quotes)
  BY RatesAssumption, FS_CardinalityType
<1>2. RowTyped(OtherRow(t, n, at))
  BY <1>1 DEF RowTyped, OtherRow, NewRow, RowTypes
<1> QED
  BY <1>2, OneRow

LEMMA RatesTypesNext == RatesTypes /\ [RatesNext]_ratesVars => RatesTypes'
<1> SUFFICES ASSUME RatesTypes, [RatesNext]_ratesVars PROVE RatesTypes'
  OBVIOUS
<1>r. /\ day \in Nat /\ \A x \in Rates \cup {0} : 2 * x \in Nat
      /\ \A c \in RateCalls : Handful(rateCall[c].has)
  <2>1. day \in Nat
    BY RatesAssumption DEF RatesTypes
  <2>2. \A x \in Rates \cup {0} : 2 * x \in Nat
    <3>1. Rates \subseteq Nat
      BY RatesAssumption
    <3>2. TAKE x \in Rates \cup {0}
    <3>3. x \in Nat
      BY <3>1, <3>2
    <3>. QED
      BY <3>3
  <2>3. \A c \in RateCalls : Handful(rateCall[c].has)
    BY DEF RatesTypes
  <2>. QED
    BY <2>1, <2>2, <2>3
\* A call that begins anew has nothing.
<1>3. ASSUME NEW c \in RateCalls, NEW kind,
             rateCall' = [rateCall EXCEPT ![c] = [kind |-> kind, pc |-> "ask", has |-> {}]],
             UNCHANGED <<day, rateRow, board>>
      PROVE  RatesTypes'
  <2>1. /\ DOMAIN rateCall' = RateCalls
        /\ \A d \in RateCalls : "has" \in DOMAIN rateCall'[d]
        /\ \A d \in RateCalls : rateCall'[d].has \in {rateCall[d].has, {}}
    BY <1>3 DEF RatesTypes
  <2>2. \A d \in RateCalls : Handful(rateCall'[d].has)
    BY <1>r, <2>1, NoRows
  <2>3. \A r : RowTyped(r)' <=> RowTyped(r)
    BY <1>3 DEF RowTyped
  <2>4. \A d \in RateCalls : Handful(rateCall[d].has)'
    BY <2>2, <2>3 DEF Handful, OneEach
  <2>5. Handful(board)'
    BY <1>3, <2>3 DEF Handful, OneEach, RatesTypes
  <2> QED
    BY <1>3, <2>1, <2>3, <2>4, <2>5 DEF RatesTypes
<1>4. ASSUME NEW c \in RateCalls, BeginCall(c) PROVE RatesTypes'
  BY <1>3, <1>4 DEF BeginCall
<1>5. ASSUME NEW c \in RateCalls, AskSources(c) PROVE RatesTypes'
  <2>1. PICK answer \in SourceAnswers :
          LET agreed == UNION {Agreed(t, answer[t]) : t \in RateTypes}
          IN  To(c, IF agreed = {} THEN "stored" ELSE "save", agreed)
    BY <1>5 DEF AskSources
  <2> DEFINE agreed == UNION {Agreed(t, answer[t]) : t \in RateTypes}
  <2>2. Handful(agreed)
    BY <1>r, AgreedHandful
  <2>3. PICK pc : To(c, pc, agreed)
    BY <2>1
  <2> HIDE DEF agreed
  <2> QED
    BY <1>5, <2>2, <2>3, CallTyped DEF AskSources
<1>6. ASSUME NEW c \in RateCalls, AskRisk(c) PROVE RatesTypes'
  <2>1. ASSUME NEW a \in RiskAnswer, To(c, "save", {OtherRow("risk", 2 * a.rate, a.at)}) PROVE RatesTypes'
    <3>1. Handful({OtherRow("risk", 2 * a.rate, a.at)})
      BY <1>r, OtherTyped DEF RiskAnswer
    <3> QED
      BY <1>6, <2>1, <3>1, CallTyped DEF AskRisk
  <2>2. CASE To(c, "stored", {})
    BY <1>6, <2>2, NoRows, CallTyped DEF AskRisk
  <2> QED
    BY <1>6, <2>1, <2>2 DEF AskRisk
<1>7. ASSUME NEW c \in RateCalls, FetchBondPrices(c) PROVE RatesTypes'
  <2>1. ASSUME NEW rate \in Implied, NEW at \in 0 .. day, To(c, "save", {OtherRow("calc", 2 * rate, at)})
        PROVE  RatesTypes'
    <3>1. Handful({OtherRow("calc", 2 * rate, at)})
      BY <1>r, OtherTyped DEF Implied
    <3> QED
      BY <1>7, <2>1, <3>1, CallTyped DEF FetchBondPrices
  <2>2. CASE To(c, "end", {})
    BY <1>7, <2>2, NoRows, CallTyped DEF FetchBondPrices
  <2> QED
    BY <1>7, <2>1, <2>2 DEF FetchBondPrices
<1>8. ASSUME NEW c \in RateCalls, SaveRates(c) PROVE RatesTypes'
  <2>1. PICK pc : To(c, pc, rateCall[c].has)
    BY <1>8 DEF SaveRates
  <2> QED
    BY <1>r, <1>8, <2>1, CallTyped DEF SaveRates
<1>9. ASSUME NEW c \in RateCalls, SaveFails(c) PROVE RatesTypes'
  <2>1. PICK pc : To(c, pc, {})
    BY <1>9 DEF SaveFails
  <2> QED
    BY <1>9, <2>1, NoRows, CallTyped DEF SaveFails
<1>10. ASSUME NEW c \in RateCalls, ReadStored(c) PROVE RatesTypes'
  <2>1. PICK pc, types, newest : newest \in LatestOf(types) /\ To(c, pc, newest)
    BY <1>10 DEF ReadStored
  <2>2. Handful(newest)
    BY <2>1, StoredHandful
  <2> QED
    BY <1>10, <2>1, <2>2, CallTyped DEF ReadStored
<1>11. ASSUME NEW c \in RateCalls, DollarJobPublishes(c) PROVE RatesTypes'
  BY <1>3, <1>11 DEF DollarJobPublishes
<1>12. ASSUME NEW c \in RateCalls, RiskJobPublishes(c) \/ CrossValidate(c) \/ SecondAnswer(c) PROVE RatesTypes'
  BY <1>r, <1>12, CallTyped DEF RiskJobPublishes, CrossValidate, SecondAnswer
<1>13. ASSUME NEW c \in RateCalls, EmitRates(c) PROVE RatesTypes'
  BY <1>13, NoRows, CallTyped DEF EmitRates
<1>14. ASSUME NEW c \in RateCalls, RatesStop(c) PROVE RatesTypes'
  BY <1>14, NoRows, CallTyped DEF RatesStop
<1>15. CASE DayPasses
  <2>1. day' \in 0 .. LastDay /\ \A x \in 0 .. day : x \in 0 .. day'
    BY <1>15, RatesAssumption DEF DayPasses, RatesTypes
  <2>2. \A r : RowTyped(r) => RowTyped(r)'
    BY <2>1 DEF RowTyped
  <2> QED
    BY <1>15, <2>1, <2>2 DEF DayPasses, RatesTypes, Handful, OneEach
<1>16. CASE UNCHANGED ratesVars
  BY <1>16 DEF ratesVars, RatesTypes, Handful, OneEach, RowTyped
<1> QED
  BY <1>4, <1>5, <1>6, <1>7, <1>8, <1>9, <1>10, <1>11, <1>12, <1>13, <1>14, <1>15, <1>16 DEF RatesNext

LEMMA RatesTyped == RatesTypes => RatesTypeOK
  BY DEF RatesTypes, RatesTypeOK, Shown, Handful, OneEach, RowTyped

-----------------------------------------------------------------------------
(* The news. *)

\* The unique index, and a feed that lists an article once.
OnePerUrl(items) == \A i, j \in items : i.url = j.url => i = j

NewsTypes ==
    /\ NewsTypeOK
    /\ published \in [Dated -> 0 .. LastToday]
    /\ \A r \in Instances : OnePerUrl(run[r].has)

LEMMA NewsTypesInit == NewsInit => NewsTypes
<1> SUFFICES ASSUME NewsInit PROVE NewsTypes
  OBVIOUS
<1>1. today \in 0 .. LastToday
  BY NewsAssumption DEF NewsInit
<1> QED
  BY <1>1 DEF NewsInit, NewsTypes, NewsTypeOK, OnePerUrl

LEMMA NewsStayTyped ==
  ASSUME NewsTypes, NEW r \in Instances, NEW pc \in {"off", "idle", "fetched", "save", "clean", "announce"},
         NEW has \in SUBSET Item, OnePerUrl(has), Stays(r, pc, has), UNCHANGED <<today, published>>,
         news' \subseteq Item, OnePerUrl(news'), announced' \subseteq Articles, repeated' \subseteq Dated
  PROVE  NewsTypes'
<1> DEFINE R == [pc : {"off", "idle", "fetched", "save", "clean", "announce"}, has : SUBSET Item]
           q == [pc |-> pc, has |-> has]
<1>1. q \in R /\ run \in [Instances -> R] /\ run' = [run EXCEPT ![r] = q]
  BY DEF Stays, NewsTypes, NewsTypeOK
<1>2. q.has = has
  OBVIOUS
<1> HIDE DEF q, R
<1>3. run' \in [Instances -> R] /\ \A s \in Instances : run'[s] = IF s = r THEN q ELSE run[s]
  BY <1>1
<1>4. \A s \in Instances : OnePerUrl(run'[s].has)
  BY <1>2, <1>3 DEF NewsTypes
<1> QED
  BY <1>3, <1>4 DEF NewsTypes, NewsTypeOK, OnePerUrl, R

LEMMA NewsTypesNext == NewsTypes /\ [NewsNext]_newsVars => NewsTypes'
<1> SUFFICES ASSUME NewsTypes, [NewsNext]_newsVars PROVE NewsTypes'
  OBVIOUS
<1>1. /\ news \subseteq Item /\ OnePerUrl(news) /\ announced \subseteq Articles /\ repeated \subseteq Dated
      /\ \A r \in Instances : run[r].has \subseteq Item /\ OnePerUrl(run[r].has)
  BY DEF NewsTypes, NewsTypeOK, OnePerUrl
<1>2. OnePerUrl({})
  BY DEF OnePerUrl
<1>3. ASSUME NEW r \in Instances, StartJob(r) \/ StopJob(r) \/ NewsRunFails(r) PROVE NewsTypes'
  BY <1>1, <1>2, <1>3, NewsStayTyped DEF StartJob, StopJob, NewsRunFails
<1>4. ASSUME NEW r \in Instances, FetchLatestNews(r) PROVE NewsTypes'
  <2>1. PICK urls \in SUBSET Articles : Stays(r, "fetched", {Parsed(a) : a \in urls})
    BY <1>4 DEF FetchLatestNews
  <2> DEFINE has == {Parsed(a) : a \in urls}
  <2>2. \A a \in Articles : Parsed(a) \in Item /\ Parsed(a).url = a
    BY DEF Parsed, Item, NewsTypes, NewsTypeOK
  <2>3. has \in SUBSET Item /\ OnePerUrl(has)
    BY <2>2 DEF OnePerUrl
  <2> HIDE DEF has
  <2> QED
    BY <1>1, <1>4, <2>1, <2>3, NewsStayTyped DEF FetchLatestNews, has
<1>5. ASSUME NEW r \in Instances, KeepNew(r) PROVE NewsTypes'
  <2> DEFINE has == {i \in run[r].has : i.url \notin Urls(news)}
  <2>1. has \in SUBSET Item /\ OnePerUrl(has)
    BY <1>1 DEF OnePerUrl
  <2>2. \E pc \in {"clean", "save"} : Stays(r, pc, has)
    BY <1>5 DEF KeepNew
  <2> HIDE DEF has
  <2> QED
    BY <1>1, <1>5, <2>1, <2>2, NewsStayTyped DEF KeepNew
<1>6. ASSUME NEW r \in Instances, SaveMany(r) PROVE NewsTypes'
  <2>1. CASE Urls(run[r].has) \cap (Urls(news) \cup Overlong) = {}
    <3>1. news' = news \cup run[r].has /\ Stays(r, "clean", run[r].has)
      BY <1>6, <2>1 DEF SaveMany
    <3>2. OnePerUrl(news') /\ news' \subseteq Item
      BY <1>1, <2>1, <3>1 DEF OnePerUrl, Urls
    <3> QED
      BY <1>1, <1>6, <3>1, <3>2, NewsStayTyped DEF SaveMany
  <2>2. CASE ~(Urls(run[r].has) \cap (Urls(news) \cup Overlong) = {})
    BY <1>1, <1>2, <1>6, <2>2, NewsStayTyped DEF SaveMany
  <2> QED
    BY <2>1, <2>2
<1>7. ASSUME NEW r \in Instances, DeleteOlderThan(r) PROVE NewsTypes'
  <2>1. news' \subseteq news
    BY <1>7 DEF DeleteOlderThan
  <2>2. OnePerUrl(news') /\ news' \subseteq Item
    BY <1>1, <2>1 DEF OnePerUrl
  <2>3. \E pc \in {"idle", "announce"} : Stays(r, pc, run[r].has)
    BY <1>7 DEF DeleteOlderThan
  <2> QED
    BY <1>1, <1>7, <2>2, <2>3, NewsStayTyped DEF DeleteOlderThan
<1>8. ASSUME NEW r \in Instances, EmitLatest(r) PROVE NewsTypes'
  <2>1. Urls(run[r].has) \subseteq Articles
    BY <1>1 DEF Urls, Item
  <2>2. announced' \subseteq Articles /\ repeated' \subseteq Dated
    BY <1>1, <1>8, <2>1 DEF EmitLatest
  <2> QED
    BY <1>1, <1>2, <1>8, <2>2, NewsStayTyped DEF EmitLatest
<1>9. CASE TodayPasses
  <2>1. today' \in 0 .. LastToday
    BY <1>9, NewsAssumption DEF TodayPasses, NewsTypes, NewsTypeOK
  <2> QED
    BY <1>9, <2>1 DEF TodayPasses, NewsTypes, NewsTypeOK
<1>10. CASE UNCHANGED newsVars
  BY <1>10 DEF newsVars, NewsTypes, NewsTypeOK
<1> QED
  BY <1>3, <1>4, <1>5, <1>6, <1>7, <1>8, <1>9, <1>10 DEF NewsNext

-----------------------------------------------------------------------------
(* The copies in localStorage. *)

CachesTypes ==
    /\ CachesInv
    /\ moment \in 1 .. LastMoment
    /\ \A l \in Loads : load[l].began \in 0 .. moment

LEMMA CachesTypesInit == CachesInit => CachesTypes
  BY CachesInvInit, CachesAssumption DEF CachesInit, CachesTypes, NewLoad

LEMMA CachesTypesNext == CachesTypes /\ [CachesNext]_cachesVars => CachesTypes'
<1> SUFFICES ASSUME CachesTypes, [CachesNext]_cachesVars PROVE CachesTypes'
  OBVIOUS
<1>1. CachesInv /\ CachesInv'
  BY CachesInvNext DEF CachesTypes
<1>2. moment \in Nat /\ LastMoment \in Nat /\ load \in [Loads -> LoadRec]
  BY <1>1, CachesAssumption DEF CachesInv
<1>3. ASSUME NEW l \in Loads, NEW q, q.began \in 0 .. moment, load' = [load EXCEPT ![l] = q], UNCHANGED moment
      PROVE  CachesTypes'
  <2>1. \A m \in Loads : load'[m] = IF m = l THEN q ELSE load[m]
    BY <1>2, <1>3
  <2> QED
    BY <1>1, <1>3, <2>1 DEF CachesTypes
<1>4. ASSUME NEW l \in Loads, LoadDashboard(l) \/ LoadCatalog(l) \/ LoadDetail(l) PROVE CachesTypes'
  <2>1. PICK pc : Begin(l, pc)
    BY <1>4 DEF LoadDashboard, LoadCatalog, LoadDetail
  <2> DEFINE q == [pc |-> pc, began |-> moment, base |-> writes, cached |-> IF pc = "dashboard" THEN store ELSE Emptied]
  <2>2. q.began \in 0 .. moment
    BY <1>2
  <2>3. load' = [load EXCEPT ![l] = q] /\ UNCHANGED moment
    BY <2>1 DEF Begin
  <2> HIDE DEF q
  <2> QED
    BY <1>3, <2>2, <2>3
<1>5. ASSUME NEW l \in Loads, SaveDashboard(l) \/ SaveCatalog(l) \/ SaveDetail(l) \/ LoadFails(l) PROVE CachesTypes'
  <2>1. Done(l) /\ UNCHANGED moment
    BY <1>5 DEF SaveDashboard, SaveCatalog, SaveDetail, LoadFails
  <2> DEFINE q == [NewLoad EXCEPT !.pc = "done"]
  <2>2. q.began \in 0 .. moment /\ load' = [load EXCEPT ![l] = q]
    BY <1>2, <2>1 DEF NewLoad, Done
  <2> HIDE DEF q
  <2> QED
    BY <1>3, <2>1, <2>2
<1>6. CASE Emptying
  BY <1>1, <1>6 DEF Emptying, CachesTypes
<1>7. CASE MomentPasses
  <2>1. moment' \in 1 .. LastMoment /\ \A x \in 0 .. moment : x \in 0 .. moment'
    BY <1>2, <1>7 DEF MomentPasses
  <2> QED
    BY <1>1, <1>7, <2>1 DEF MomentPasses, CachesTypes
<1>8. CASE UNCHANGED cachesVars
  BY <1>1, <1>8 DEF cachesVars, CachesTypes
<1> QED
  BY <1>4, <1>5, <1>6, <1>7, <1>8 DEF CachesNext

LEMMA CachesTyped == CachesTypes => CachesTypeOK
<1> SUFFICES ASSUME CachesTypes PROVE CachesTypeOK
  OBVIOUS
<1>1. moment \in 1 .. LastMoment /\ LastMoment \in Nat
  BY CachesAssumption DEF CachesTypes
<1>2. /\ store \in [Parts -> Nat] /\ \A p \in Parts : store[p] <= moment
      /\ writes \in Nat /\ load \in [Loads -> LoadRec]
  BY DEF CachesTypes, CachesInv
<1>3. store \in Stored
  BY <1>1, <1>2 DEF Stored
<1>4. ASSUME NEW l \in Loads
      PROVE  load[l] \in [pc : {"new", "dashboard", "catalog", "detail", "done"}, began : 0 .. LastMoment,
                          base : Nat, cached : Stored]
  <2>1. load[l] \in LoadRec /\ load[l].began \in 0 .. LastMoment
    BY <1>1, <1>2 DEF CachesTypes
  <2>2. load[l].cached \in [Parts -> Nat] /\ \A p \in Parts : load[l].cached[p] <= moment
    BY <2>1 DEF LoadRec, CachesTypes, CachesInv
  <2>3. load[l].cached \in Stored
    BY <1>1, <2>2 DEF Stored
  <2> QED
    BY <2>1, <2>3 DEF LoadRec
<1> QED
  BY <1>1, <1>2, <1>3, <1>4 DEF CachesTypeOK

-----------------------------------------------------------------------------
(* The lists and pages. *)

QueriesTypes ==
    /\ QueriesInv
    /\ list \in Lists
    /\ cleared \subseteq Pages /\ unpriced \subseteq Mutations

LEMMA QueriesTypesInit == QueriesInit => QueriesTypes
  BY QueriesInvInit DEF QueriesInit, QueriesTypes

LEMMA QueriesTypesNext == QueriesTypes /\ [QueriesNext]_queriesVars => QueriesTypes'
<1> SUFFICES ASSUME QueriesTypes, [QueriesNext]_queriesVars PROVE QueriesTypes'
  OBVIOUS
<1>1. QueriesInv' /\ rows \subseteq Mutations
  BY QueriesInvNext DEF QueriesTypes, QueriesInv
<1>2. ASSUME NEW k \in Pages, Mount(k) \/ Unmount(k) \/ FetchSucceeds(k) \/ FetchFails(k) \/ Ages(k)
      PROVE  QueriesTypes'
  BY <1>1, <1>2 DEF Mount, Unmount, FetchSucceeds, FetchFails, Ages, fetchHistory, QueriesTypes
<1>3. ASSUME NEW k \in Pages, ReadAlerts(k) \/ ReadNotifications(k) \/ ReadPortfolio(k) \/ ReadWatchlist(k)
      PROVE  QueriesTypes'
  BY <1>1, <1>3 DEF ReadAlerts, ReadNotifications, ReadPortfolio, ReadWatchlist, Answer, QueriesTypes
<1>4. ASSUME NEW m \in Mutations,
             \/ ChangeAlerts(m) \/ ChangeNotifications(m) \/ CreatePortfolio(m) \/ RecordTrade(m)
             \/ ChangeWatchlist(m) \/ ServerChanges(m) \/ MutationFails(m)
      PROVE  QueriesTypes'
  BY <1>1, <1>4 DEF ChangeAlerts, ChangeNotifications, CreatePortfolio, RecordTrade, ChangeWatchlist, Mutate,
                    ServerChanges, MutationFails, fetchHistory, QueriesTypes
<1>5. ASSUME NEW m \in Mutations, MutationSucceeds(m) PROVE QueriesTypes'
  <2>1. cleared' \subseteq cleared \cup Pages /\ UNCHANGED <<list, unpriced>>
    BY <1>5 DEF MutationSucceeds, Invalidated
  <2> QED
    BY <1>1, <2>1 DEF QueriesTypes
<1>6. CASE UNCHANGED queriesVars
  BY <1>1, <1>6 DEF queriesVars, fetchHistory, QueriesTypes
<1> QED
  BY <1>2, <1>3, <1>4, <1>5, <1>6 DEF QueriesNext

LEMMA QueriesTyped == QueriesTypes => QueriesTypeOK
  BY DEF QueriesTypes, QueriesInv, QueriesTypeOK, Entry, Answered

TableRec == [up : BOOLEAN, data : SUBSET Listed, type : {"ALL", "BOND"}, search : BOOLEAN,
             field : {"symbol", "volume"}, order : {"asc", "desc"}, page : Nat \ {0}]

ListsTypes ==
    /\ ListsInv
    /\ table \in TableRec
    /\ unread \subseteq held /\ updates \in 0 .. MaxUpdates

LEMMA FreshType == ASSUME NEW assets \in SUBSET Listed PROVE Fresh(assets) \in TableRec
  BY DEF Fresh, TableRec

LEMMA ListsTypesInit == ListsInit => ListsTypes
<1>1. MaxUpdates \in Nat
  BY ListsAssumption
<1> QED
  BY <1>1, ListsInvInit, FreshType DEF ListsInit, ListsTypes

LEMMA TableTyped == ASSUME ListsTypes, TableNext PROVE table' \in TableRec
<1>1. table \in TableRec /\ table.page \in Nat \ {0} /\ TableInv'
  BY TableInvNext DEF ListsTypes, ListsInv, TableInv
<1>2. table'.page \in Nat \ {0}
  BY <1>1 DEF TableInv
<1>3. ASSUME NEW p, TurnTo(p) PROVE table' \in TableRec
  <2>1. table' = [table EXCEPT !.page = p]
    BY <1>3 DEF TurnTo
  <2>2. p \in Nat \ {0}
    BY <1>1, <1>2, <2>1 DEF TableRec
  <2> QED
    BY <1>1, <2>1, <2>2 DEF TableRec
<1>4. CASE CatalogLoads
  <2>1. CASE table.up
    BY <1>1, <1>4, <2>1 DEF CatalogLoads
  <2>2. CASE ~table.up
    BY <1>4, <2>2, FreshType DEF CatalogLoads
  <2> QED
    BY <2>1, <2>2
<1>5. CASE CatalogFails
  BY <1>1, <1>5 DEF CatalogFails, TableRec
<1>6. CASE Search
  <2> DEFINE b == ~table.search
  <2>1. b \in BOOLEAN /\ 1 \in Nat \ {0}
    OBVIOUS
  <2>2. table' = [table EXCEPT !.search = b, !.page = 1]
    BY <1>6 DEF Search
  <2> HIDE DEF b
  <2> QED
    BY <1>1, <2>1, <2>2 DEF TableRec
<1>7. CASE PreviousAssets \/ NextAssets \/ PageOfAssets
  BY <1>3, <1>7 DEF PreviousAssets, NextAssets, PageOfAssets
<1>8. ASSUME NEW t \in {"ALL", "BOND"}, FilterByType(t) PROVE table' \in TableRec
  <2>1. table' = [table EXCEPT !.type = t, !.page = 1]
    BY <1>8 DEF FilterByType, Typed
  <2>2. 1 \in Nat \ {0}
    OBVIOUS
  <2> QED
    BY <1>1, <1>8, <2>1, <2>2 DEF TableRec
<1>9. ASSUME NEW f \in {"symbol", "volume"}, SortBy(f) PROVE table' \in TableRec
  <2> DEFINE turned == IF table.order = "asc" THEN "desc" ELSE "asc"
  <2>1. table' = [table EXCEPT !.order = turned] \/ table' = [table EXCEPT !.field = f, !.order = "desc"]
    BY <1>9 DEF SortBy
  <2>2. turned \in {"asc", "desc"}
    OBVIOUS
  <2> HIDE DEF turned
  <2> QED
    BY <1>1, <2>1, <2>2 DEF TableRec
<1> QED
  BY <1>4, <1>5, <1>6, <1>7, <1>8, <1>9 DEF TableNext

LEMMA ListsTypesNext == ListsTypes /\ [TableNext \/ InboxNext]_listsVars => ListsTypes'
<1> SUFFICES ASSUME ListsTypes, [TableNext \/ InboxNext]_listsVars PROVE ListsTypes'
  OBVIOUS
<1>1. ListsInv'
  BY ListsInvNext DEF ListsTypes
<1>2. Updates => updates' \in 0 .. MaxUpdates
  BY ListsAssumption DEF Updates, ListsTypes
<1>3. CASE TableNext
  <2>1. UNCHANGED inboxVars /\ (Updates \/ UNCHANGED updates)
    BY <1>3 DEF TableNext, CatalogLoads, CatalogFails, Search, PreviousAssets, NextAssets, PageOfAssets, TurnTo,
                FilterByType, SortBy
  <2>2. table' \in TableRec
    BY <1>3, TableTyped
  <2> QED
    BY <1>1, <1>2, <2>1, <2>2 DEF ListsTypes, inboxVars
<1>4. CASE InboxNext
  <2>1. UNCHANGED tableVars /\ (Updates \/ UNCHANGED updates) /\ unread' \subseteq held'
    <3>1. CASE ListLoads \/ \E t \in Tabs : ChooseTab(t)
      BY <3>1 DEF ListLoads, ChooseTab, ListsTypes
    <3>2. CASE MarkAllAsRead \/ \E n \in Mails : MarkAsRead(n) \/ DeleteMail(n)
      BY <3>2 DEF MarkAllAsRead, MarkAsRead, DeleteMail, ListsTypes
    <3>3. CASE PreviousMails \/ NextMails
      BY <3>3 DEF PreviousMails, NextMails, Arrow, ListsTypes
    <3> QED
      BY <1>4, <3>1, <3>2, <3>3 DEF InboxNext
  <2> QED
    BY <1>1, <1>2, <2>1 DEF ListsTypes, tableVars
<1>5. CASE UNCHANGED listsVars
  BY <1>1, <1>5 DEF listsVars, tableVars, inboxVars, ListsTypes
<1> QED
  BY <1>3, <1>4, <1>5

LEMMA ListsTyped == ListsTypes => ListsTypeOK
  BY DEF ListsTypes, ListsInv, InboxInv, InboxRec, TableRec, ListsTypeOK

-----------------------------------------------------------------------------
(* What is pushed. *)

PanelType == panel \in [state : {"closed", "shown", "broken"}, pushed : BOOLEAN]

LiveTypes == BellInv /\ QuoteInv /\ PanelType

LEMMA LiveTypesInit == LiveInit => LiveTypes
  BY BellInvInit, QuoteInvInit DEF LiveInit, LiveTypes, PanelType, Down

LEMMA LiveTypesNext == LiveTypes /\ [LiveNext]_liveVars => LiveTypes'
<1> SUFFICES ASSUME LiveTypes, [LiveNext]_liveVars PROVE PanelType'
  BY BellInvNext, QuoteInvNext DEF LiveTypes
<1>1. PanelType
  BY DEF LiveTypes
<1>2. ASSUME UNCHANGED panel PROVE PanelType'
  BY <1>1, <1>2 DEF PanelType
<1>3. CASE BellNext
  BY <1>2, <1>3 DEF BellNext, NewToken, NewNotification, NoticeComes, Leave, JoinRoom, Disconnect, Drop, FetchBell,
                    ReadNotice, boardVars
<1>4. CASE \/ StoreQuote \/ StoreSilently \/ EmitQuote \/ ReceiveQuote \/ MarketDrops \/ MarketConnects
           \/ OpenWatchlist \/ CloseWatchlist \/ LoadFromProvider \/ LoadFromRows \/ ReceivePrices
  BY <1>2, <1>4 DEF StoreQuote, StoreSilently, EmitQuote, ReceiveQuote, MarketDrops, MarketConnects, OpenWatchlist,
                    CloseWatchlist, LoadFromProvider, LoadFromRows, ReceivePrices
<1>5. CASE OpenDashboard \/ CloseDashboard \/ PushDollar \/ PushRisk
  <2>1. CASE OpenDashboard \/ CloseDashboard
    <3>1. PICK s \in {"shown", "closed"} : panel' = [state |-> s, pushed |-> FALSE]
      BY <2>1 DEF OpenDashboard, CloseDashboard, Down
    <3> QED
      BY <3>1 DEF PanelType
  <2>2. CASE PushDollar
    BY <1>1, <2>2 DEF PushDollar, PanelType
  <2>3. CASE PushRisk
    BY <1>1, <2>3 DEF PushRisk, PanelType
  <2> QED
    BY <1>5, <2>1, <2>2, <2>3
<1>6. CASE UNCHANGED liveVars
  BY <1>2, <1>6 DEF liveVars, boardVars
<1> QED
  BY <1>3, <1>4, <1>5, <1>6 DEF LiveNext, BoardNext

LEMMA LiveTyped == LiveTypes => LiveTypeOK
  BY DEF LiveTypes, BellInv, BellTypeOK, QuoteInv, QuoteRec, PricesRec, PanelType, LiveTypeOK

-----------------------------------------------------------------------------
(* The others, whose invariants have the types. *)

LEMMA ProvidersTyped == ProvidersInv => ProvidersTypeOK
  BY DEF ProvidersInv, ProvidersTypeOK, FetchRec

LEMMA BoundedRow ==
  ASSUME NEW s \in Seq(MoverRow), Len(s) <= TopSize
  PROVE  s \in BoundedSeq([share : Shares, change : Moves], TopSize)
<1>1. s \in [1 .. Len(s) -> MoverRow] /\ Len(s) \in 0 .. TopSize
  BY MoversAssumption
<1> QED
  BY <1>1 DEF BoundedSeq, SeqOf, MoverRow

LEMMA MoversTyped == MoversInv => MoversTypeOK
<1> SUFFICES ASSUME MoversInv PROVE MoversTypeOK
  OBVIOUS
<1>1. \A s \in Shares : DOMAIN dayRows[s] \subseteq Trades /\ \A d \in DOMAIN dayRows[s] : dayRows[s][d] \in Moves \cup {NoMove}
  BY DayRowLaws DEF MoversInv, DaysKept
<1>2. ASSUME NEW m, RanksAnswered(m)
      PROVE  /\ m.gainers \in BoundedSeq([share : Shares, change : Moves], TopSize)
             /\ m.losers \in BoundedSeq([share : Shares, change : Moves], TopSize)
  BY <1>2, BoundedRow DEF RanksAnswered, Ranks
<1>3. \A g \in Guests : guest[g].pc \in {"new", "movers", "answer"}
  BY DEF MoversInv
<1> QED
  BY <1>1, <1>2, <1>3 DEF MoversInv, MoversTypeOK

-----------------------------------------------------------------------------
(* All components together. *)

\* A behaviour of the composition is one of each of its components, most of which rest.
LEMMA EachComponentRuns ==
  MarketSpec => /\ ProvidersSpec /\ HealthSpec /\ HoursSpec /\ MoversSpec /\ QuotesSpec /\ RatesSpec /\ NewsSpec
                /\ CachesSpec /\ QueriesSpec /\ ListsSpec /\ LiveSpec
<1>1. MarketInit => /\ ProvidersInit /\ HealthInit /\ HoursInit /\ MoversInit /\ QuotesInit /\ RatesInit /\ NewsInit
                    /\ CachesInit /\ QueriesInit /\ ListsInit /\ LiveInit
  BY DEF MarketInit
<1>2. [MarketNext]_marketVars => /\ [ProvidersNext]_providersVars /\ [HealthNext]_healthVars
                                 /\ [HoursNext]_hoursVars /\ [MoversNext]_moversVars
  BY DEF MarketNext, marketVars, serverVars, siteVars
<1>3. [MarketNext]_marketVars => /\ [QuotesNext]_quotesVars /\ [RatesNext]_ratesVars /\ [NewsNext]_newsVars
  BY DEF MarketNext, marketVars, serverVars
<1>4. [MarketNext]_marketVars => /\ [CachesNext]_cachesVars /\ [QueriesNext]_queriesVars
  BY DEF MarketNext, marketVars, clientVars
<1>5. [MarketNext]_marketVars => [TableNext \/ InboxNext]_listsVars
  BY DEF MarketNext, marketVars, clientVars, pageVars
<1>6. [MarketNext]_marketVars => [LiveNext]_liveVars
  BY DEF MarketNext, marketVars, clientVars, pageVars, LiveNext, liveVars
<1> QED
  BY <1>1, <1>2, <1>3, <1>4, <1>5, <1>6, PTL DEF MarketSpec, ProvidersSpec, HealthSpec, HoursSpec, MoversSpec, QuotesSpec,
     RatesSpec, NewsSpec, CachesSpec, QueriesSpec, ListsSpec, LiveSpec

\* What is told from answers that Redis keeps, the opening of the market and the top movers, for
\* any lengths of time and any shares.
THEOREM KeptAnswersHold == MarketSpec => []KeptAnswersTrue
<1>1. OpeningIsNext /\ MoversWereTrue => KeptAnswersTrue
  BY DEF KeptAnswersTrue
<1> QED
  BY <1>1, EachComponentRuns, OpeningToldRight, MoversToldRight, PTL

\* The server's market data and the client's copies of it, for any number of each and any bounds:
\* no row, quote or check is dated in the future, a URL and, on the board, a type of rate have one
\* row, a ranking of the sources has them all, and every page's state is one it may have.
THEOREM MarketTyped == MarketSpec => []MarketTypeOK
<1>1. /\ ProvidersTypeOK /\ HealthTypeOK /\ HoursTypeOK /\ MoversTypeOK /\ QuotesTypeOK /\ RatesTypeOK /\ NewsTypeOK
      /\ CachesTypeOK /\ QueriesTypeOK /\ ListsTypeOK /\ LiveTypeOK
      => MarketTypeOK
  BY DEF MarketTypeOK
<1>2. ProvidersSpec => []ProvidersTypeOK
  BY ProvidersInvInit, ProvidersInvNext, ProvidersTyped, PTL DEF ProvidersSpec
<1>3. HealthSpec => []HealthTypeOK
  <2>1. HealthTypes => HealthTypeOK
    BY DEF HealthTypes
  <2> QED
    BY <2>1, HealthTypesInit, HealthTypesNext, PTL DEF HealthSpec
<1>4. HoursSpec => []HoursTypeOK
  <2>1. HoursInv => HoursTypeOK
    BY DEF HoursInv
  <2> QED
    BY <2>1, HoursInvInit, HoursInvNext, PTL DEF HoursSpec
<1>5. MoversSpec => []MoversTypeOK
  BY MoversInvInit, MoversInvNext, MoversTyped, PTL DEF MoversSpec
<1>6. QuotesSpec => []QuotesTypeOK
  BY QuotesTypesInit, QuotesTypesNext, QuotesTyped, PTL DEF QuotesSpec
<1>7. RatesSpec => []RatesTypeOK
  BY RatesTypesInit, RatesTypesNext, RatesTyped, PTL DEF RatesSpec
<1>8. NewsSpec => []NewsTypeOK
  <2>1. NewsTypes => NewsTypeOK
    BY DEF NewsTypes
  <2> QED
    BY <2>1, NewsTypesInit, NewsTypesNext, PTL DEF NewsSpec
<1>9. CachesSpec => []CachesTypeOK
  BY CachesTypesInit, CachesTypesNext, CachesTyped, PTL DEF CachesSpec
<1>10. QueriesSpec => []QueriesTypeOK
  BY QueriesTypesInit, QueriesTypesNext, QueriesTyped, PTL DEF QueriesSpec
<1>11. ListsSpec => []ListsTypeOK
  BY ListsTypesInit, ListsTypesNext, ListsTyped, PTL DEF ListsSpec
<1>12. LiveSpec => []LiveTypeOK
  BY LiveTypesInit, LiveTypesNext, LiveTyped, PTL DEF LiveSpec
<1> QED
  BY <1>1, <1>2, <1>3, <1>4, <1>5, <1>6, <1>7, <1>8, <1>9, <1>10, <1>11, <1>12, EachComponentRuns, PTL

\* What the run of the composition checks, for every behaviour of it.
THEOREM MarketHolds ==
  MarketSpec => /\ [](/\ RecentNewsOnce /\ QuoteDataRecent /\ HandedOnIsOnRecord /\ OneQuoteCannotMove
                      /\ QuotesReachClients /\ ListsAreTrue /\ LiveIsTrue)
                /\ SeenPartsStay
  BY EachComponentRuns, NewsToldOnce, QuotesAreRecent, ChecksAreKept, RatesHold, QuotesArrive, ListsKept, LiveTold,
     SeenPartsKept, PTL
=============================================================================
