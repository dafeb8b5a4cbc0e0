------------------------------ MODULE MCMarket ------------------------------
(***************************************************************************)
(* Market data and the client's copies of it, for TLC: the providers of    *)
(* quotes and the record of their health, the refresh, the market's hours, *)
(* top movers, dollar rates and risk, news, the caches, lists and pages of *)
(* the web client, and what is pushed to it.  A behaviour is about one of  *)
(* them, its focus; the others keep an initial state.                      *)
(***************************************************************************)
EXTENDS QuoteProviders, ProviderHealth, QuoteRefresh, MarketHours, TopMovers, DollarRates, NewsFeed,
        ClientCaches, ClientQueries, PagedLists, LiveClient

VARIABLE focus

siteVars == <<providersVars, healthVars, hoursVars, moversVars>>
serverVars == <<siteVars, quotesVars, ratesVars, newsVars>>
pageVars == <<listsVars, bellVars, boardVars>>
clientVars == <<cachesVars, queriesVars, pageVars>>
marketVars == <<focus, serverVars, clientVars>>

Foci == {"providers", "health", "hours", "movers", "quotes", "rates", "news", "caches", "queries", "table", "inbox",
         "bell", "board"}

\* The choices that a component makes in its initial state are made when it is the focus.
MarketInit ==
    /\ focus \in Foci
    /\ ProvidersInit /\ MoversInit /\ QuotesInit /\ RatesInit /\ CachesInit /\ LiveInit
    /\ HealthInit  /\ (focus # "health" => \A c \in Calls : tracked[c].site = Registered[1])
    /\ HoursInit   /\ (focus # "hours" => wall = 0)
    /\ NewsInit    /\ (focus # "news" => \A a \in Dated : published[a] = 0)
    /\ QueriesInit /\ (focus # "queries" => list = "alerts")
    /\ ListsInit   /\ (focus # "table" => table.data = {})

MarketNext ==
    /\ \/ /\ focus = "providers" /\ ProvidersNext
          /\ UNCHANGED <<healthVars, hoursVars, moversVars, quotesVars, ratesVars, newsVars, clientVars>>
       \/ /\ focus = "health" /\ HealthNext
          /\ UNCHANGED <<providersVars, hoursVars, moversVars, quotesVars, ratesVars, newsVars, clientVars>>
       \/ /\ focus = "hours" /\ HoursNext
          /\ UNCHANGED <<providersVars, healthVars, moversVars, quotesVars, ratesVars, newsVars, clientVars>>
       \/ /\ focus = "movers" /\ MoversNext
          /\ UNCHANGED <<providersVars, healthVars, hoursVars, quotesVars, ratesVars, newsVars, clientVars>>
       \/ /\ focus = "quotes" /\ QuotesNext
          /\ UNCHANGED <<siteVars, ratesVars, newsVars, clientVars>>
       \/ /\ focus = "rates" /\ RatesNext
          /\ UNCHANGED <<siteVars, quotesVars, newsVars, clientVars>>
       \/ /\ focus = "news" /\ NewsNext
          /\ UNCHANGED <<siteVars, quotesVars, ratesVars, clientVars>>
       \/ /\ focus = "caches" /\ CachesNext
          /\ UNCHANGED <<serverVars, queriesVars, pageVars>>
       \/ /\ focus = "queries" /\ QueriesNext
          /\ UNCHANGED <<serverVars, cachesVars, pageVars>>
       \/ /\ focus = "table" /\ TableNext
          /\ UNCHANGED <<serverVars, cachesVars, queriesVars, bellVars, boardVars>>
       \/ /\ focus = "inbox" /\ InboxNext
          /\ UNCHANGED <<serverVars, cachesVars, queriesVars, bellVars, boardVars>>
       \/ focus = "bell" /\ BellNext /\ UNCHANGED <<serverVars, cachesVars, queriesVars, listsVars>>
       \/ focus = "board" /\ BoardNext /\ UNCHANGED <<serverVars, cachesVars, queriesVars, listsVars>>
    /\ UNCHANGED focus

MarketSpec == MarketInit /\ [][MarketNext]_marketVars

\* The view: a state is told from others by the component that the behaviour is about, since
\* the initial values of all the others are fixed by the focus and never change.
FocusView ==
    <<focus,
      CASE focus = "providers" -> providersVars
        [] focus = "health" -> healthVars
        [] focus = "hours" -> hoursVars
        [] focus = "movers" -> moversVars
        [] focus = "quotes" -> quotesVars
        [] focus = "rates" -> ratesVars
        [] focus = "news" -> newsVars
        [] focus = "caches" -> cachesVars
        [] focus = "queries" -> queriesVars
        [] focus \in {"table", "inbox", "bell", "board"} -> pageVars>>

(* Types of the component that the behaviour is about. *)
MarketTypeOK ==
    /\ focus = "providers" => ProvidersTypeOK
    /\ focus = "health" => HealthTypeOK
    /\ focus = "hours" => HoursTypeOK
    /\ focus = "movers" => MoversTypeOK
    /\ focus = "quotes" => QuotesTypeOK
    /\ focus = "rates" => RatesTypeOK
    /\ focus = "news" => NewsTypeOK
    /\ focus = "caches" => CachesTypeOK
    /\ focus = "queries" => QueriesTypeOK
    /\ focus \in {"table", "inbox"} => ListsTypeOK
    /\ focus \in {"bell", "board"} => LiveTypeOK

\* QuoteRefresh: events and pushes agree with what is stored.
QuotesReachClients == AnnouncedWasStored /\ ClientsShowStored

\* MarketHours and TopMovers: what is told from answers that Redis keeps.
KeptAnswersTrue == OpeningIsNext /\ MoversWereTrue

\* ClientQueries and PagedLists: the lists show what they should, and the pages of them rows.
ListsAreTrue == FreshListsShowChanges /\ PagesShowRows
=============================================================================
