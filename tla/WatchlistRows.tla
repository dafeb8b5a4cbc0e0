--------------------------- MODULE WatchlistRows ---------------------------
(***************************************************************************)
(* The rows of one user in watchlist_items: add, which looks for a row     *)
(* before it inserts one, and a removal that only marks the row as deleted,*)
(* under a unique index of user and asset that counts marked rows too.     *)
(***************************************************************************)
EXTENDS Naturals

CONSTANTS
    Stocks,  \* assets of the catalogue
    Watches, \* POST /watchlist and DELETE /watchlist/:ticker
    NoStock

ASSUME WatchlistAssumption == NoStock \notin Stocks

VARIABLES
    watch, \* asset -> its row
    visit  \* request -> where its handler is

watchlistVars == <<watch, visit>>

WatchlistInit ==
    /\ watch = [a \in Stocks |-> "none"]
    /\ visit = [w \in Watches |-> [pc |-> "new", stock |-> NoStock]]

Visit(w, pc) == visit' = [visit EXCEPT ![w].pc = pc]

\* getAssetByTicker and findByUserAndAsset, which passes over rows marked as deleted: add
\* answers with the row it finds.
FindToAdd(w) ==
    /\ visit[w].pc = "new"
    /\ \E a \in Stocks :
          visit' = [visit EXCEPT ![w] = [pc |-> IF watch[a] = "live" THEN "listed" ELSE "insert", stock |-> a]]
    /\ UNCHANGED watch

\* INSERT; the unique index counts the rows marked as deleted, so an asset that was removed
\* cannot be added again.
InsertItem(w) ==
    /\ visit[w].pc = "insert"
    /\ IF watch[visit[w].stock] = "none"
       THEN watch' = [watch EXCEPT ![visit[w].stock] = "live"] /\ Visit(w, "listed")
       ELSE Visit(w, "refused") /\ UNCHANGED watch

FindToRemove(w) ==
    /\ visit[w].pc = "new"
    /\ \E a \in Stocks :
          visit' = [visit EXCEPT ![w] = [pc |-> IF watch[a] = "live" THEN "remove" ELSE "gone", stock |-> a]]
    /\ UNCHANGED watch

\* Mutant of Marked: softDelete by user.
Marked_All(a) == Stocks

\* softDelete by id: the rows that the removal of an asset marks.
Marked(a) == {a}

RemoveItem(w) ==
    /\ visit[w].pc = "remove"
    /\ watch' = [a \in Stocks |-> IF a \in Marked(visit[w].stock) /\ watch[a] = "live" THEN "deleted" ELSE watch[a]]
    /\ Visit(w, "removed")

\* The ticker is unknown, or a query fails.
VisitStops(w) ==
    /\ visit[w].pc \in {"new", "insert", "remove"}
    /\ Visit(w, "failed")
    /\ UNCHANGED watch

WatchlistNext ==
    \E w \in Watches :
        FindToAdd(w) \/ InsertItem(w) \/ FindToRemove(w) \/ RemoveItem(w) \/ VisitStops(w)

WatchlistSpec == WatchlistInit /\ [][WatchlistNext]_watchlistVars
-----------------------------------------------------------------------------
(* Types: the rows of the user and the handlers of the two requests. *)
WatchlistTypeOK ==
    /\ watch \in [Stocks -> {"none", "live", "deleted"}]
    /\ visit \in [Watches -> [pc : {"new", "insert", "remove", "listed", "refused", "gone", "removed", "failed"},
                              stock : Stocks \cup {NoStock}]]

\* WatchlistService: an asset that a request was told is listed stays so until a DELETE of
\* that very asset, whatever adds and removals of it and of others overlap with the request.
ListedUnlessRemoved ==
    \A w \in Watches : visit[w].pc = "listed" =>
        \/ watch[visit[w].stock] = "live"
        \/ \E v \in Watches : visit[v].pc = "removed" /\ visit[v].stock = visit[w].stock
=============================================================================
