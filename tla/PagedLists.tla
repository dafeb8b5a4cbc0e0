----------------------------- MODULE PagedLists -----------------------------
(***************************************************************************)
(* Lists of the web client that the user pages through: the table of       *)
(* assets, which keeps the assets it came up with, and the page of         *)
(* notifications, whose list is loaded again after every change of it.     *)
(***************************************************************************)
EXTENDS Integers, FiniteSets

CONSTANTS
    Listed,      \* assets of the catalog
    Bonds,       \* those of the type the user may ask for
    Named,       \* those whose ticker or name has the text the user may search for
    Mails,       \* notifications of the user
    AlertMails,  \* those about an alert
    MarketMails, \* those about the market
    PerPage,     \* 10 assets, 5 notifications
    MaxUpdates   \* bound: loads of the catalog, changes of the notifications

ASSUME ListsAssumption ==
    /\ IsFiniteSet(Listed) /\ Bonds \subseteq Listed /\ Named \subseteq Listed
    /\ IsFiniteSet(Mails) /\ AlertMails \subseteq Mails /\ MarketMails \subseteq Mails
    /\ PerPage \in Nat \ {0}
    /\ MaxUpdates \in Nat

VARIABLES
    table,   \* the table: whether it is up, its assets, its filter and search, order and page
    unread,  \* the server's notifications that are not read
    held,    \* the server's notifications
    inbox,   \* the page of notifications: its tab, its page, and the lists that it has
    shrunk,  \* history: the list lost the page that the user chose
    updates

tableVars == <<table>>
inboxVars == <<unread, held, inbox, shrunk>>
listsVars == <<tableVars, inboxVars, updates>>

Updates == updates < MaxUpdates /\ updates' = updates + 1

\* A table comes up with the assets that were loaded then: useState ignores later ones.
Fresh(assets) == [up |-> TRUE, data |-> assets, type |-> "ALL", search |-> FALSE, field |-> "volume",
                  order |-> "desc", page |-> 1]

ListsInit ==
    /\ \E assets \in SUBSET Listed : table = Fresh(assets)
    /\ unread = Mails /\ held = Mails
    /\ inbox = [tab |-> "all", page |-> 1, all |-> {}, unread |-> {}]
    /\ shrunk = FALSE
    /\ updates = 0

\* Pages that n rows take.
PagesOf(n) == (n + PerPage - 1) \div PerPage

\* slice: how many of n rows are on page p.
RowsOn(n, p) == Cardinality({i \in 1..n : (p - 1) * PerPage < i /\ i <= p * PerPage})

\* What the two arrows make of page p.
Back(p) == IF p > 1 THEN p - 1 ELSE 1

\* Mutant of Forward: past the end.
Forward_Endless(p, total) == p + 1

Forward(p, total) == IF p + 1 < total THEN p + 1 ELSE total
-----------------------------------------------------------------------------
(* The table of assets. *)

\* filteredAndSortedData, but for its order.
Matching == {a \in table.data : (table.type = "ALL" \/ a \in Bonds) /\ (~table.search \/ a \in Named)}

TotalPages == PagesOf(Cardinality(Matching))

\* The page of the catalog: while it loads, and after it failed, a message takes the
\* place of the table, which comes up anew later.  A load behind a table that is up goes unseen.
CatalogFails ==
    /\ Updates
    /\ table' = [table EXCEPT !.up = FALSE]
    /\ UNCHANGED inboxVars

CatalogLoads ==
    /\ Updates
    /\ table' \in IF table.up THEN {table} ELSE {Fresh(assets) : assets \in SUBSET Listed}
    /\ UNCHANGED inboxVars

\* Mutant of Typed: the page stays.
Typed_Same(t) == [table EXCEPT !.type = t]

Typed(t) == [table EXCEPT !.type = t, !.page = 1]

FilterByType(t) ==
    /\ table.up /\ t # table.type
    /\ table' = Typed(t)
    /\ UNCHANGED <<inboxVars, updates>>

Search ==
    /\ table.up
    /\ table' = [table EXCEPT !.search = ~@, !.page = 1]
    /\ UNCHANGED <<inboxVars, updates>>

\* handleSort: the page stays, and gets other rows.
SortBy(f) ==
    /\ table.up
    /\ table' = IF f = table.field
                THEN [table EXCEPT !.order = IF @ = "asc" THEN "desc" ELSE "asc"]
                ELSE [table EXCEPT !.field = f, !.order = "desc"]
    /\ UNCHANGED <<inboxVars, updates>>

\* The links are there when there are two pages or more.
TurnTo(p) ==
    /\ table.up /\ TotalPages > 1
    /\ table' = [table EXCEPT !.page = p]
    /\ UNCHANGED <<inboxVars, updates>>

PreviousAssets == table.page # 1 /\ TurnTo(Back(table.page))
NextAssets == table.page # TotalPages /\ TurnTo(Forward(table.page, TotalPages))
PageOfAssets == \E p \in 1..TotalPages : TurnTo(p)
-----------------------------------------------------------------------------
(* The page of notifications. *)

Tabs == {"all", "unread", "alerts", "market"}

\* The tab of unread ones has a query of its own; the others filter one list.
Filtered ==
    CASE inbox.tab = "unread" -> inbox.unread
      [] inbox.tab = "alerts" -> inbox.all \cap AlertMails
      [] inbox.tab = "market" -> inbox.all \cap MarketMails
      [] OTHER -> inbox.all

InboxPages == LET n == PagesOf(Cardinality(Filtered)) IN IF n > 1 THEN n ELSE 1

\* Rows that the page of notifications shows.
Drawn == RowsOn(Cardinality(Filtered), inbox.page)

ChooseTab(t) ==
    /\ inbox' = [inbox EXCEPT !.tab = t, !.page = 1]
    /\ shrunk' = FALSE
    /\ UNCHANGED <<unread, held, tableVars, updates>>

\* A list is loaded, and again after each change that is made here.
ListLoads ==
    /\ inbox' = IF inbox.tab = "unread" THEN [inbox EXCEPT !.unread = unread] ELSE [inbox EXCEPT !.all = held]
    /\ shrunk' = (shrunk \/ (Drawn > 0 /\ Drawn' = 0))
    /\ UNCHANGED <<unread, held, tableVars, updates>>

\* Its button, or a click on it; or on another device.
MarkAsRead(n) ==
    /\ Updates
    /\ n \in unread /\ unread' = unread \ {n}
    /\ UNCHANGED <<held, inbox, shrunk, tableVars>>

MarkAllAsRead ==
    /\ Updates
    /\ unread # {} /\ unread' = {}
    /\ UNCHANGED <<held, inbox, shrunk, tableVars>>

DeleteMail(n) ==
    /\ Updates
    /\ n \in held /\ held' = held \ {n} /\ unread' = unread \ {n}
    /\ UNCHANGED <<inbox, shrunk, tableVars>>

\* The arrows are there when the tab has notifications.
Arrow(p) ==
    /\ Filtered # {}
    /\ inbox' = [inbox EXCEPT !.page = p]
    /\ shrunk' = (shrunk /\ Drawn' = 0)
    /\ UNCHANGED <<unread, held, tableVars, updates>>

PreviousMails == inbox.page # 1 /\ Arrow(Back(inbox.page))
NextMails == inbox.page # InboxPages /\ Arrow(Forward(inbox.page, InboxPages))

TableNext ==
    \/ CatalogLoads \/ CatalogFails \/ Search \/ PreviousAssets \/ NextAssets \/ PageOfAssets
    \/ \E t \in {"ALL", "BOND"} : FilterByType(t)
    \/ \E f \in {"symbol", "volume"} : SortBy(f)

InboxNext ==
    \/ \E t \in Tabs : ChooseTab(t)
    \/ \E n \in Mails : MarkAsRead(n) \/ DeleteMail(n)
    \/ ListLoads \/ MarkAllAsRead \/ PreviousMails \/ NextMails

ListsSpec == ListsInit /\ [][TableNext \/ InboxNext]_listsVars
-----------------------------------------------------------------------------
(* Types: the table, the inbox, and the lists of the page. *)
ListsTypeOK ==
    /\ table \in [up : BOOLEAN, data : SUBSET Listed, type : {"ALL", "BOND"}, search : BOOLEAN,
                  field : {"symbol", "volume"}, order : {"asc", "desc"}, page : Nat \ {0}]
    /\ unread \subseteq held /\ held \subseteq Mails
    /\ inbox \in [tab : Tabs, page : Nat \ {0}, all : SUBSET Mails, unread : SUBSET Mails]
    /\ shrunk \in BOOLEAN /\ updates \in 0..MaxUpdates

\* AssetsTable and NotificationsPage: whatever the user filters, sorts and turns, a page that
\* has rows is shown while there are any.  The page of notifications may lose its own when
\* the list is loaded again, for nothing takes it back to one that exists; the arrow
\* forward still does.
PagesShowRows ==
    /\ table.up /\ Matching # {} => RowsOn(Cardinality(Matching), table.page) > 0
    /\ Filtered # {} => /\ shrunk \/ Drawn > 0
                        /\ RowsOn(Cardinality(Filtered), Forward(inbox.page, InboxPages)) > 0
=============================================================================
