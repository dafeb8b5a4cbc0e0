----------------------------- MODULE LiveClient -----------------------------
(***************************************************************************)
(* What the server pushes to the web client and what the page makes of it: *)
(* notifications in the bell of the header, prices over the watchlist, the *)
(* rates and the risk on the dashboard.  The sockets are made anew for     *)
(* every access token and the old ones are never closed; the components    *)
(* take their handlers off the old and put them on the new.                *)
(***************************************************************************)
EXTENDS Naturals, Sequences

CONSTANTS
    Viewers,   \* who signs in on this page
    Notices,   \* notifications that the server makes, each once
    NoViewer,
    BellSize,  \* 5 notifications
    MaxTokensSeen, \* bound: access tokens the page has
    LastPush   \* bound: quotes of the ticker that the server stores, pushed or not

ASSUME LiveAssumption ==
    /\ NoViewer \notin Viewers
    /\ BellSize \in Nat \ {0}
    /\ MaxTokensSeen \in Nat /\ LastPush \in Nat

VARIABLES
    viewer,  \* user of the session
    socket,  \* the notification socket of the context, which has the number of its token
    left,    \* sockets of earlier tokens, each with the user in whose room it still is
    wire,    \* notifications on their way, each with the socket it comes on
    tokens,  \* how many access tokens the page had
    guests,  \* history: who signed in since the page was loaded
    filed,   \* the server's notifications: notice -> whose and whether read
    live,    \* liveNotifications, the newest first
    listed,  \* the bell's page of useNotifications
    toasts,  \* history: which notice was shown to whom
    quote,   \* the server's quotes of a ticker, numbered as they are stored
    prices,  \* the watchlist's page: what it loaded and what was pushed to it
    panel    \* the dashboard, and whether its risk was pushed

bellVars == <<viewer, socket, left, wire, tokens, guests, filed, live, listed, toasts>>
boardVars == <<quote, prices, panel>>
liveVars == <<bellVars, boardVars>>

Unmade == [owner |-> NoViewer, read |-> FALSE]

\* refreshed: the latest quote stored by a run that pushes it.  due: stored by such a run, not
\* pushed yet.  silent: stored by who never pushes.
NoQuotes == [stored |-> 0, refreshed |-> 0, due |-> {}, silent |-> {}]

\* on: the market socket is connected.  coming: pushed, on their way.  missed: history, the push
\* of the latest refreshed quote, if there was one, was lost, or that of an older one came after it.
NoPrices == [open |-> FALSE, on |-> TRUE, coming |-> <<>>, pushed |-> 0, answer |-> 0, fetched |-> 0,
             missed |-> FALSE]

Down == [state |-> "closed", pushed |-> FALSE]

LiveInit ==
    /\ viewer = NoViewer
    /\ socket = "off"
    /\ left = {} /\ wire = {} /\ tokens = 0 /\ guests = {}
    /\ filed = [n \in Notices |-> Unmade]
    /\ live = <<>> /\ listed = <<>>
    /\ toasts = {}
    /\ quote = NoQuotes
    /\ prices = NoPrices
    /\ panel = Down
-----------------------------------------------------------------------------
(* The bell. *)

\* SocketProvider: a new token means new sockets.  One that was in its user's room stays there.
NewSocket(u) ==
    /\ viewer' = u
    /\ left' = IF socket = "in" THEN left \cup {<<tokens, viewer>>} ELSE left
    /\ socket' = IF u = NoViewer THEN "off" ELSE "connecting"

\* Signing in, or the renewal of the token.
NewToken(u) ==
    /\ viewer \in {NoViewer, u}
    /\ tokens < MaxTokensSeen /\ tokens' = tokens + 1
    /\ guests' = guests \cup {u}
    /\ NewSocket(u)
    /\ UNCHANGED <<wire, filed, live, listed, toasts, boardVars>>

\* clearSession: the bell draws nothing, but keeps what it has.
Leave ==
    /\ viewer # NoViewer
    /\ NewSocket(NoViewer)
    /\ UNCHANGED <<wire, tokens, guests, filed, live, listed, toasts, boardVars>>

\* handleConnection: the token is checked and its user's room joined.
JoinRoom ==
    /\ socket = "connecting"
    /\ socket' = "in"
    /\ UNCHANGED <<viewer, left, wire, tokens, guests, filed, live, listed, toasts, boardVars>>

\* A token made by the page, or one that ran out: the server disconnects, and the client
\* does not connect again after that.
Disconnect ==
    /\ socket = "connecting"
    /\ socket' = "off"
    /\ UNCHANGED <<viewer, left, wire, tokens, guests, filed, live, listed, toasts, boardVars>>

\* The connection is lost, and with it what was on its way: the client connects again with the
\* token it has.
Drop ==
    /\ socket = "in"
    /\ socket' = "connecting"
    /\ wire' = {m \in wire : m[2] # tokens}
    /\ UNCHANGED <<viewer, left, tokens, guests, filed, live, listed, toasts, boardVars>>

\* Whose room the sockets of this page are in.
Room(u) ==
    {s \in 1..MaxTokensSeen : <<s, u>> \in left} \cup (IF socket = "in" /\ viewer = u THEN {tokens} ELSE {})

\* The insert of a notification and emitNotification to its user's room.
NewNotification(n, u) ==
    /\ filed[n] = Unmade
    /\ filed' = [filed EXCEPT ![n] = [owner |-> u, read |-> FALSE]]
    /\ wire' = wire \cup {<<n, s>> : s \in Room(u)}
    /\ UNCHANGED <<viewer, socket, left, tokens, guests, live, listed, toasts, boardVars>>

\* Mutant of Hears: the handler stays on the sockets of earlier tokens.
Hears_Old(s) == viewer # NoViewer

\* The effect takes the handler off one socket and puts it on the next, so what comes on an
\* earlier token's is heard by nobody.  Without a token the context's socket is not connected.
Hears(s) == viewer # NoViewer /\ s = tokens

\* handleNewNotification, in any order: the bell takes it in, and it pops up.
NoticeComes ==
    \E m \in wire :
       /\ wire' = wire \ {m}
       /\ IF Hears(m[2]) THEN live' = <<m[1]>> \o live /\ toasts' = toasts \cup {<<m[1], viewer>>}
          ELSE UNCHANGED <<live, toasts>>
       /\ UNCHANGED <<viewer, socket, left, tokens, guests, filed, listed, boardVars>>

\* useNotifications of the bell: the notifications of the user, the newest first; the model puts them
\* in any order.
FetchBell ==
    /\ viewer # NoViewer
    /\ \E s \in UNION {[1..k -> {n \in Notices : filed[n].owner = viewer}] : k \in 0..BellSize} :
          /\ \A i, j \in DOMAIN s : s[i] = s[j] => i = j
          /\ listed' = [i \in DOMAIN s |-> [notice |-> s[i], read |-> filed[s[i]].read]]
    /\ UNCHANGED <<viewer, socket, left, wire, tokens, guests, filed, live, toasts, boardVars>>

\* A click on the page of notifications; deleting one is alike.
ReadNotice(n) ==
    /\ filed[n].owner = viewer /\ viewer # NoViewer /\ ~filed[n].read
    /\ filed' = [filed EXCEPT ![n].read = TRUE]
    /\ UNCHANGED <<viewer, socket, left, wire, tokens, guests, live, listed, toasts, boardVars>>

\* What was heard comes first, and never counts as read; the list follows.
Inbox ==
    LET all == [i \in 1..Len(live) |-> [notice |-> live[i], read |-> FALSE]] \o listed IN
    SubSeq(all, 1, IF Len(all) < BellSize THEN Len(all) ELSE BellSize)
-----------------------------------------------------------------------------
(* The market. *)

NextQuote == quote.stored + 1

\* refreshQuotesByTypes stores a quote, which its job pushes when the run is through.
StoreQuote ==
    /\ quote.stored < LastPush
    /\ quote' = [quote EXCEPT !.stored = NextQuote, !.refreshed = NextQuote, !.due = @ \cup {NextQuote}]
    /\ UNCHANGED <<prices, panel, bellVars>>

\* The backfill, another page's GET, and a refresh whose event fails store one that nobody pushes.
StoreSilently ==
    /\ quote.stored < LastPush
    /\ quote' = [quote EXCEPT !.stored = NextQuote, !.silent = @ \cup {NextQuote}]
    /\ UNCHANGED <<prices, panel, bellVars>>

\* emitQuoteUpdated, some time after the save: a page that is not connected, or not open, never gets it.
EmitQuote ==
    /\ \E q \in quote.due :
          /\ quote' = [quote EXCEPT !.due = @ \ {q}]
          /\ LET heard == prices.open /\ prices.on IN
             prices' = [prices EXCEPT !.coming = IF heard THEN Append(@, q) ELSE @,
                                      !.missed = IF q = quote.refreshed THEN ~heard ELSE @ \/ heard]
    /\ UNCHANGED <<panel, bellVars>>

ReceiveQuote ==
    /\ prices.coming # <<>>
    /\ prices' = [prices EXCEPT !.coming = Tail(@), !.pushed = Head(prices.coming)]
    /\ UNCHANGED <<quote, panel, bellVars>>

\* The connection is lost, or a new token means a new market socket: so is what was on its way.
MarketDrops ==
    /\ prices.on
    /\ prices' = [prices EXCEPT !.on = FALSE, !.coming = <<>>, !.missed = @ \/ prices.coming # <<>>]
    /\ UNCHANGED <<quote, panel, bellVars>>

MarketConnects ==
    /\ ~prices.on
    /\ prices' = [prices EXCEPT !.on = TRUE]
    /\ UNCHANGED <<quote, panel, bellVars>>

\* The list is cached; the prices that were pushed go with the page.
OpenWatchlist ==
    /\ ~prices.open
    /\ prices' = [prices EXCEPT !.open = TRUE]
    /\ UNCHANGED <<quote, panel, bellVars>>

CloseWatchlist ==
    /\ prices.open
    /\ prices' = [prices EXCEPT !.open = FALSE, !.coming = <<>>, !.pushed = 0, !.missed = quote.refreshed # 0]
    /\ UNCHANGED <<quote, panel, bellVars>>

\* useWatchlist asks for the stats of the asset: getAssetQuotes asks the provider, stores what
\* it gets without a push, and answers it.
LoadFromProvider ==
    /\ prices.open /\ quote.stored < LastPush
    /\ quote' = [quote EXCEPT !.stored = NextQuote, !.silent = @ \cup {NextQuote}]
    /\ prices' = [prices EXCEPT !.answer = NextQuote]
    /\ UNCHANGED <<panel, bellVars>>

\* The provider or the save fails: the rows that are stored; without any, or when the request
\* fails, the list is without the asset.
LoadFromRows ==
    /\ prices.open
    /\ \E q \in {0, quote.stored} : prices' = [prices EXCEPT !.answer = q]
    /\ UNCHANGED <<quote, panel, bellVars>>

\* The list comes, to an open page or to the cache.
ReceivePrices ==
    /\ prices' = [prices EXCEPT !.fetched = prices.answer]
    /\ UNCHANGED <<quote, panel, bellVars>>

\* Mutant of Overlaid: the list's price comes first.
Overlaid_Listed == IF prices.fetched # 0 THEN prices.fetched ELSE prices.pushed

\* items of the watchlist's page: a price that was pushed hides that of the list, however the
\* list is loaded again.
Overlaid == IF prices.pushed # 0 /\ prices.fetched # 0 THEN prices.pushed ELSE prices.fetched

\* The panels take the loaded data when they come up, and not again.
OpenDashboard ==
    /\ panel.state = "closed"
    /\ panel' = [state |-> "shown", pushed |-> FALSE]
    /\ UNCHANGED <<quote, prices, bellVars>>

\* The user goes to another page; reset of the error page brings the panels up anew.
CloseDashboard ==
    /\ panel.state # "closed"
    /\ panel' = Down
    /\ UNCHANGED <<quote, prices, bellVars>>

\* emitDollar pushes an object with the rates in it, the panel takes it for the list of the
\* rates, and the page fails when it draws them.
PushDollar ==
    /\ panel.state = "shown" /\ prices.on
    /\ panel' = [panel EXCEPT !.state = "broken"]
    /\ UNCHANGED <<quote, prices, bellVars>>

\* emitRisk: the card shows it, and makes it the last day of its chart.
PushRisk ==
    /\ panel.state = "shown" /\ prices.on
    /\ panel' = [panel EXCEPT !.pushed = TRUE]
    /\ UNCHANGED <<quote, prices, bellVars>>

BellNext ==
    \/ \E u \in Viewers : NewToken(u) \/ \E n \in Notices : NewNotification(n, u)
    \/ Leave \/ JoinRoom \/ Disconnect \/ Drop \/ NoticeComes \/ FetchBell
    \/ \E n \in Notices : ReadNotice(n)

BoardNext ==
    \/ StoreQuote \/ StoreSilently \/ EmitQuote \/ ReceiveQuote \/ MarketDrops \/ MarketConnects
    \/ OpenWatchlist \/ CloseWatchlist \/ LoadFromProvider \/ LoadFromRows \/ ReceivePrices
    \/ OpenDashboard \/ CloseDashboard \/ PushDollar \/ PushRisk

LiveNext == BellNext \/ BoardNext

LiveSpec == LiveInit /\ [][LiveNext]_liveVars
-----------------------------------------------------------------------------
(* Types: the sockets, the bell, and the market's data on the page. *)
LiveTypeOK ==
    /\ viewer \in Viewers \cup {NoViewer}
    /\ socket \in {"off", "connecting", "in"}
    /\ tokens \in 0..MaxTokensSeen /\ guests \subseteq Viewers
    /\ left \subseteq (1..tokens) \X guests /\ wire \subseteq Notices \X (1..tokens)
    /\ filed \in [Notices -> [owner : Viewers \cup {NoViewer}, read : BOOLEAN]]
    /\ live \in Seq(Notices)
    /\ listed \in Seq([notice : Notices, read : BOOLEAN])
    /\ toasts \subseteq Notices \X Viewers
    /\ quote \in [stored : 0..LastPush, refreshed : 0..LastPush, due : SUBSET (1..LastPush), silent : SUBSET (1..LastPush)]
    /\ prices \in [open : BOOLEAN, on : BOOLEAN, coming : Seq(1..LastPush), pushed : 0..LastPush, answer : 0..LastPush,
                   fetched : 0..LastPush, missed : BOOLEAN]
    /\ panel \in [state : {"closed", "shown", "broken"}, pushed : BOOLEAN]

\* SocketProvider and NotificationBell: a notification pops up once, and only before the user it
\* was made for, though it may come after its user left or renewed the token and somebody else
\* signed in, and though the sockets of earlier tokens stay in their rooms and get it too.
ToastsAreOwn ==
    /\ \A t \in toasts : filed[t[1]].owner = t[2]
    /\ \A i, j \in DOMAIN live : live[i] = live[j] => i = j

\* livePrices over the list: once what the refreshes stored was pushed and has come, the open
\* watchlist shows the latest refreshed price, whatever was loaded before or since, unless the
\* push of that quote was lost or came before that of an older one; and a loaded price that is
\* newer than the one shown, and stays hidden behind it, is one that nobody pushes.
PricesCatchUp ==
    (prices.open /\ prices.fetched # 0 /\ quote.due = {} /\ prices.coming = <<>> /\ ~prices.missed) =>
        /\ Overlaid = IF quote.refreshed # 0 THEN quote.refreshed ELSE prices.fetched
        /\ prices.fetched > Overlaid => prices.fetched \in quote.silent

\* Inbox of the bell: what it draws is its user's.  That holds until a second person signs in
\* on the page, for neither what was heard nor the list goes with the session.
BellIsOwn ==
    (viewer # NoViewer /\ guests \subseteq {viewer}) =>
        \A i \in DOMAIN Inbox : filed[Inbox[i].notice].owner = viewer

\* The three together: the live parts of the page show what the server sent to its user.
LiveIsTrue == ToastsAreOwn /\ PricesCatchUp /\ BellIsOwn

\* "Socket.io client: updates in real time (market ...)": the dashboard shows the rates that
\* are pushed to it.
PushesAreShown == panel.state # "broken"
=============================================================================
