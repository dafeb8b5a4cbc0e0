------------------------------ MODULE TopMovers ------------------------------
(***************************************************************************)
(* GET /market/top-movers: the quotes of the assets with the greatest and  *)
(* the smallest change, read from the rows of quotes while these change,   *)
(* matched with a second read of the assets, and kept in Redis for a       *)
(* minute; and the table of the dashboard that shows one of the lists.     *)
(***************************************************************************)
EXTENDS Integers, FiniteSets, SequencesExt

CONSTANTS
    Shares,     \* assets of the type that is asked for
    Moves,      \* changes in percent that a quote may have
    NoMove,     \* a quote without a change
    Trades,     \* days that have rows: the refresh writes the last, the backfill any
    TopSize,    \* limit
    MoversTtl,  \* 60 seconds
    Guests,     \* requests that are answered side by side
    LastMinute, \* bound: the clock stops here
    MaxStores   \* bound: rows written, and shares deactivated

ASSUME MoversAssumption ==
    /\ IsFiniteSet(Shares)
    /\ Moves \subseteq Int /\ NoMove \notin Moves
    /\ Trades \subseteq Nat /\ Trades # {}
    /\ TopSize \in Nat \ {0}
    /\ MoversTtl \in Nat /\ LastMinute \in Nat /\ MaxStores \in Nat

VARIABLES
    minute,       \* the clock
    dayRows,      \* share -> day that has a row -> its change
    activeShares, \* shares that are active
    kept,         \* the answer in Redis, and how long it is used
    guest,        \* request -> where it stands, and its answer so far
    shownMovers,  \* what the dashboard got last
    stores        \* rows written, and shares deactivated

moversVars == <<minute, dayRows, activeShares, kept, guest, shownMovers, stores>>

\* An answer, with the rows of its first read and the active shares of its second.
NoMovers == [gainers |-> <<>>, losers |-> <<>>, rows |-> <<>>, shares |-> {}, listed |-> {}]
Waiting == [pc |-> "new", movers |-> NoMovers]

MoversInit ==
    /\ minute = 0
    /\ dayRows = [s \in Shares |-> <<>>]
    /\ activeShares = Shares
    /\ kept = [movers |-> NoMovers, until |-> 0]
    /\ guest = [g \in Guests |-> Waiting]
    /\ shownMovers = NoMovers
    /\ stores = 0
-----------------------------------------------------------------------------
Greatest(days) == CHOOSE d \in days : \A e \in days : e <= d

\* Mutant of WithChange: the latest row counts even without a change.
WithChange_Latest(rows) == {d \in DOMAIN rows : \A e \in DOMAIN rows : e <= d}

\* "changePct" IS NOT NULL.
WithChange(rows) == {d \in DOMAIN rows : rows[d] # NoMove}

\* findTopMovers: of every active share the latest row that has a change.
LatestRows ==
    {[share |-> s, change |-> dayRows[s][Greatest(WithChange(dayRows[s]))]] :
        s \in {t \in activeShares : WithChange(dayRows[t]) # {}}}

\* typeof quote.changePct === 'number', and the sort; rows of equal change stay in the order of
\* the assets' ids, which may be any.
ByChange ==
    {s \in SetToSeqs({r \in LatestRows : r.change # NoMove}) :
        \A i, j \in DOMAIN s : i < j => s[i].change >= s[j].change}

Top(s) == SubSeq(s, 1, IF Len(s) < TopSize THEN Len(s) ELSE TopSize)

\* getTopMovers: the answer that is kept serves without a read.
UseKept(g) ==
    /\ guest[g].pc = "new" /\ minute < kept.until
    /\ shownMovers' = kept.movers
    /\ UNCHANGED <<minute, dayRows, activeShares, kept, guest, stores>>

FindTopMovers(g) ==
    /\ guest[g].pc = "new" /\ minute >= kept.until
    /\ \E sorted \in ByChange :
          LET found == [gainers |-> Top(sorted), losers |-> Top(Reverse(sorted)),
                        rows |-> dayRows, shares |-> activeShares, listed |-> {}]
          IN  guest' = [guest EXCEPT ![g] = [pc |-> "movers", movers |-> found]]
    /\ UNCHANGED <<minute, dayRows, activeShares, kept, shownMovers, stores>>

\* mapWithAsset: a quote whose share is no longer among the active ones is left out.
MapWithAsset(s) == FoldLeft(LAMBDA found, r : IF r.share \in activeShares THEN Append(found, r) ELSE found, <<>>, s)

FindAssets(g) ==
    /\ guest[g].pc = "movers"
    /\ guest' = [guest EXCEPT ![g].pc = "answer", ![g].movers.gainers = MapWithAsset(@),
                              ![g].movers.losers = MapWithAsset(@), ![g].movers.listed = activeShares]
    /\ UNCHANGED <<minute, dayRows, activeShares, kept, shownMovers, stores>>

\* The answer is kept before it is given, whatever another request kept meanwhile.
KeepMovers(g) ==
    /\ guest[g].pc = "answer"
    /\ kept' = [movers |-> guest[g].movers, until |-> minute + MoversTtl]
    /\ shownMovers' = guest[g].movers
    /\ guest' = [guest EXCEPT ![g] = Waiting]
    /\ UNCHANGED <<minute, dayRows, activeShares, stores>>

\* A read or Redis fails: the request does, and the dashboard keeps what it has.
MoversFail(g) ==
    /\ guest[g].pc # "new"
    /\ guest' = [guest EXCEPT ![g] = Waiting]
    /\ UNCHANGED <<minute, dayRows, activeShares, kept, shownMovers, stores>>

\* saveBulkQuotes, of the refresh and of the backfill: a row per share and day.
StoreMove(s, d, move) ==
    /\ stores < MaxStores /\ stores' = stores + 1
    /\ dayRows' = [dayRows EXCEPT ![s] = [e \in DOMAIN @ \cup {d} |-> IF e = d THEN move ELSE @[e]]]
    /\ UNCHANGED <<minute, activeShares, kept, guest, shownMovers>>

\* CatalogMaintenanceJob.handle: a share past its maturity is no longer active.
Mature(s) ==
    /\ s \in activeShares /\ stores < MaxStores
    /\ activeShares' = activeShares \ {s} /\ stores' = stores + 1
    /\ UNCHANGED <<minute, dayRows, kept, guest, shownMovers>>

MinutePasses ==
    /\ minute < LastMinute
    /\ minute' = minute + 1
    /\ UNCHANGED <<dayRows, activeShares, kept, guest, shownMovers, stores>>

MoversNext ==
    \/ \E g \in Guests : UseKept(g) \/ FindTopMovers(g) \/ FindAssets(g) \/ KeepMovers(g) \/ MoversFail(g)
    \/ \E s \in Shares : Mature(s) \/ \E d \in Trades, move \in Moves \cup {NoMove} : StoreMove(s, d, move)
    \/ MinutePasses

MoversSpec == MoversInit /\ [][MoversNext]_moversVars
-----------------------------------------------------------------------------
(* Types: the rows, and the lists of the answers. *)
MoversTypeOK ==
    /\ minute \in 0..LastMinute /\ stores \in 0..MaxStores
    /\ activeShares \subseteq Shares
    /\ \A s \in Shares : DOMAIN dayRows[s] \subseteq Trades /\ \A d \in DOMAIN dayRows[s] : dayRows[s][d] \in Moves \cup {NoMove}
    /\ \A g \in Guests : guest[g].pc \in {"new", "movers", "answer"}
    /\ \A list \in {shownMovers.gainers, shownMovers.losers, kept.movers.gainers, kept.movers.losers} :
           list \in BoundedSeq([share : Shares, change : Moves], TopSize)

\* The last change that rows have on record.
ChangeOf(rows) == rows[CHOOSE d \in DOMAIN rows : rows[d] # NoMove /\ \A e \in DOMAIN rows : e > d => rows[e] = NoMove]
Moved(rows) == \E d \in DOMAIN rows : rows[d] # NoMove

\* list has the shares that are ahead of all others, where beats(x, y) says that x is ahead of y.
RanksFirst(movers, list, beats(_, _)) ==
    LET shares == {list[i].share : i \in DOMAIN list}
        moved == {s \in movers.shares : Moved(movers.rows[s])}
    IN  /\ Cardinality(shares) = Len(list)
        /\ \A i \in DOMAIN list : /\ list[i].share \in moved /\ list[i].change = ChangeOf(movers.rows[list[i].share])
                                  /\ \A j \in 1..i - 1 : ~beats(list[i].change, list[j].change)
        /\ \A s \in (moved \cap movers.listed) \ shares :
               /\ Cardinality(moved) > TopSize
               /\ \A i \in DOMAIN list : ~beats(ChangeOf(movers.rows[s]), list[i].change)

\* getTopMovers, findTopMovers: the shares that are shown were the ones with the greatest and
\* the smallest of the last changes on record when a request read the rows, each once and in
\* order, and none that was active all along is passed over, although quotes and assets change
\* between the reads, and requests overwrite each other's answers.
MoversWereTrue ==
    /\ RanksFirst(shownMovers, shownMovers.gainers, LAMBDA x, y : x > y)
    /\ RanksFirst(shownMovers, shownMovers.losers, LAMBDA x, y : x < y)
=============================================================================
