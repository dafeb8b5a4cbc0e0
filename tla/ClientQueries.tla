--------------------------- MODULE ClientQueries ---------------------------
(***************************************************************************)
(* The lists of the web client, as the hooks useAlerts, useNotifications,  *)
(* usePortfolio and useWatchlist keep them with React Query: a list is     *)
(* cached under a key, a change of the server's rows makes every key that  *)
(* begins with the list's name stale, and a page on screen asks again.     *)
(* A page shows what the cache has while it asks.                          *)
(***************************************************************************)
EXTENDS Naturals, FiniteSets

CONSTANTS
    Pages,      \* what distinguishes two keys of a list: page number, filter, portfolio
    Mutations,  \* changes the user makes
    NoData,
    MaxAges     \* bound: how often the 30 s of staleTime pass

ASSUME QueriesAssumption ==
    /\ IsFiniteSet(Mutations)
    /\ MaxAges \in Nat

VARIABLES
    list,     \* the list that the behaviour is about; lists share nothing
    rows,     \* the changes that the server's rows show
    query,    \* page -> its entry in the cache, under a key that begins with the list's name
    mutation, \* change -> where it is
    ages,
    cleared,  \* history: keys whose mark was cleared by an answer older than it
    unpriced  \* history: additions to the watchlist that were left out of an answer

queriesVars == <<list, rows, query, mutation, ages, cleared, unpriced>>
fetchHistory == <<ages, cleared, unpriced>>

Lists == {"alerts", "notifications", "portfolio", "watchlist"}

\* fetch: nothing is asked, the request is on its way, or the answer is.  answer: what the
\* server read.  failures: of this fetch, which is tried again once.
NewQuery ==
    [data |-> NoData, stale |-> FALSE, mounted |-> FALSE, fetch |-> "idle", answer |-> NoData,
     failures |-> 0, error |-> FALSE]

QueriesInit ==
    /\ list \in Lists
    /\ rows = {}
    /\ query = [k \in Pages |-> NewQuery]
    /\ mutation = [m \in Mutations |-> "new"]
    /\ ages = 0
    /\ cleared = {} /\ unpriced = {}

\* A fetch begins from its first attempt.
Asking(q) == [q EXCEPT !.fetch = "asked", !.answer = NoData, !.failures = 0]
-----------------------------------------------------------------------------
(* A query. *)

\* A page with useQuery comes up: it asks unless the cache has data that is not stale, or
\* somebody asks already.
Mount(k) ==
    /\ ~query[k].mounted
    /\ query' = [query EXCEPT ![k] =
                    LET q == [@ EXCEPT !.mounted = TRUE] IN
                    IF q.fetch = "idle" /\ (q.data = NoData \/ q.stale) THEN Asking(q) ELSE q]
    /\ UNCHANGED <<list, rows, mutation, fetchHistory>>

\* A fetch under way goes on without its page, but is not tried again.
Unmount(k) ==
    /\ query[k].mounted
    /\ query' = [query EXCEPT ![k].mounted = FALSE]
    /\ UNCHANGED <<list, rows, mutation, fetchHistory>>

\* The server answers with the rows of now, those in lost left out by the hook.
Answer(k, lost) ==
    /\ query[k].fetch = "asked"
    /\ query' = [query EXCEPT ![k].fetch = "answered", ![k].answer = rows \ lost]
    /\ UNCHANGED <<list, rows, mutation, ages, cleared>>

ReadAlerts(k) == list = "alerts" /\ Answer(k, {}) /\ UNCHANGED unpriced

ReadNotifications(k) == list = "notifications" /\ Answer(k, {}) /\ UNCHANGED unpriced

\* The portfolios, or the holdings, trades, performance or distribution of one.
ReadPortfolio(k) == list = "portfolio" /\ Answer(k, {}) /\ UNCHANGED unpriced

\* The items, the pages of the catalogue, and for each item its statistics or else its
\* quotes: an item without an asset or without a price is left out.
ReadWatchlist(k) ==
    /\ list = "watchlist"
    /\ \E lost \in SUBSET rows : Answer(k, lost) /\ unpriced' = unpriced \cup lost

\* The answer is data of now, whatever was marked meanwhile.
FetchSucceeds(k) ==
    /\ query[k].fetch = "answered"
    /\ query' = [query EXCEPT ![k] = [@ EXCEPT !.data = query[k].answer, !.stale = FALSE, !.error = FALSE,
                                               !.fetch = "idle", !.answer = NoData]]
    /\ UNCHANGED <<list, rows, mutation, fetchHistory>>

\* retry: 1, for a page that is still there.
FetchFails(k) ==
    /\ query[k].fetch # "idle"
    /\ query' = [query EXCEPT ![k] =
                    IF @.failures = 0 /\ @.mounted
                    THEN [@ EXCEPT !.fetch = "asked", !.answer = NoData, !.failures = 1]
                    ELSE [@ EXCEPT !.fetch = "idle", !.answer = NoData, !.error = TRUE]]
    /\ UNCHANGED <<list, rows, mutation, fetchHistory>>

\* staleTime passes.
Ages(k) ==
    /\ ages < MaxAges
    /\ query[k].data # NoData /\ ~query[k].stale
    /\ ages' = ages + 1
    /\ query' = [query EXCEPT ![k].stale = TRUE]
    /\ UNCHANGED <<list, rows, mutation, cleared, unpriced>>
-----------------------------------------------------------------------------
(* A mutation. *)

\* mutateAsync of a page's handler.
Mutate(m, l) ==
    /\ list = l
    /\ mutation[m] = "new"
    /\ mutation' = [mutation EXCEPT ![m] = "sent"]
    /\ UNCHANGED <<list, rows, query, fetchHistory>>

\* Create, update, pause or activate, delete an alert.
ChangeAlerts(m) == Mutate(m, "alerts")

\* Mark one or all as read, delete one.
ChangeNotifications(m) == Mutate(m, "notifications")

CreatePortfolio(m) == Mutate(m, "portfolio")
RecordTrade(m) == Mutate(m, "portfolio")

\* Add a ticker, remove one.
ChangeWatchlist(m) == Mutate(m, "watchlist")

ServerChanges(m) ==
    /\ mutation[m] = "sent"
    /\ rows' = rows \cup {m}
    /\ mutation' = [mutation EXCEPT ![m] = "applied"]
    /\ UNCHANGED <<list, query, fetchHistory>>

\* Mutant of Invalidated: the first page only.
Invalidated_First == {CHOOSE p \in Pages : TRUE}

\* The keys that onSuccess names: all those that begin with the list's name.
Invalidated == Pages

\* invalidateQueries marks them and asks again for those on screen.  It gives up the fetch
\* of one that has data, and lets the first fetch of one that has none go on.
Refetched(q) == IF q.mounted /\ (q.fetch = "idle" \/ q.data # NoData) THEN Asking(q) ELSE q

MutationSucceeds(m) ==
    /\ mutation[m] = "applied"
    /\ mutation' = [mutation EXCEPT ![m] = "ok"]
    /\ query' = [k \in Pages |-> IF k \in Invalidated THEN Refetched([query[k] EXCEPT !.stale = TRUE])
                                 ELSE query[k]]
    /\ cleared' = cleared \cup {k \in Invalidated : query'[k].fetch = "answered"}
    /\ UNCHANGED <<list, rows, ages, unpriced>>

\* The page says that the change was not made, which it may have been.
MutationFails(m) ==
    /\ mutation[m] \in {"sent", "applied"}
    /\ mutation' = [mutation EXCEPT ![m] = "failed"]
    /\ UNCHANGED <<list, rows, query, fetchHistory>>

QueriesNext ==
    \/ \E k \in Pages :
          \/ Mount(k) \/ Unmount(k) \/ FetchSucceeds(k) \/ FetchFails(k) \/ Ages(k)
          \/ ReadAlerts(k) \/ ReadNotifications(k) \/ ReadPortfolio(k) \/ ReadWatchlist(k)
    \/ \E m \in Mutations :
          \/ ChangeAlerts(m) \/ ChangeNotifications(m) \/ CreatePortfolio(m) \/ RecordTrade(m)
          \/ ChangeWatchlist(m)
          \/ ServerChanges(m) \/ MutationSucceeds(m) \/ MutationFails(m)

QueriesSpec == QueriesInit /\ [][QueriesNext]_queriesVars
-----------------------------------------------------------------------------
(* Types: the cache, the changes under way. *)
QueriesTypeOK ==
    /\ list \in Lists
    /\ rows \subseteq Mutations
    /\ query \in [Pages -> [data : (SUBSET Mutations) \cup {NoData}, stale : BOOLEAN, mounted : BOOLEAN,
                            fetch : {"idle", "asked", "answered"}, answer : (SUBSET Mutations) \cup {NoData},
                            failures : 0..1, error : BOOLEAN]]
    /\ mutation \in [Mutations -> {"new", "sent", "applied", "ok", "failed"}]
    /\ cleared \subseteq Pages /\ unpriced \subseteq Mutations

\* onSuccess of the hooks' mutations: a list that passes for fresh shows every change that
\* its user was told of, on each page and under each filter, unless an answer read before
\* the change came after it and was not given up (the first of that key, or one for a page
\* that is gone), or the watchlist left the item out for want of a price.
FreshListsShowChanges ==
    \A k \in Pages \ cleared : (query[k].data # NoData /\ ~query[k].stale) =>
        {m \in Mutations \ unpriced : mutation[m] = "ok"} \subseteq query[k].data
=============================================================================
