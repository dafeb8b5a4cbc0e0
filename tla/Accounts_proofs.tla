--------------------------- MODULE Accounts_proofs ---------------------------
(***************************************************************************)
(* Proofs about accounts and what their users send, for every number of    *)
(* requests, keys and columns: what the watchlist, the upserted tables and *)
(* the seeded demo account keep between handlers that take no transaction, *)
(* the lockout, the keys of ingested events, and the types of all of them. *)
(***************************************************************************)
EXTENDS WebClient_proofs, FiniteSetTheorems

-----------------------------------------------------------------------------
(* The watchlist. *)

\* A handler that has found its asset acts on an asset of the catalogue.
VisitsKnowStock ==
    \A w \in Watches : visit[w].pc \in {"insert", "remove", "listed", "removed"} => visit[w].stock \in Stocks

WatchlistInv == WatchlistTypeOK /\ VisitsKnowStock /\ ListedUnlessRemoved

LEMMA WatchlistInitInv == WatchlistInit => WatchlistInv
  BY SMT DEF WatchlistInit, WatchlistInv, WatchlistTypeOK, VisitsKnowStock, ListedUnlessRemoved

\* Types and assets of the handlers, step by step.
LEMMA WatchlistTypeStep ==
  ASSUME WatchlistTypeOK, VisitsKnowStock, [WatchlistNext]_watchlistVars
  PROVE  WatchlistTypeOK' /\ VisitsKnowStock'
<1> USE DEF WatchlistTypeOK, VisitsKnowStock
<1>1. CASE UNCHANGED watchlistVars
  BY <1>1 DEF watchlistVars
<1>2. ASSUME NEW w \in Watches, FindToAdd(w)
      PROVE  WatchlistTypeOK' /\ VisitsKnowStock'
  BY <1>2 DEF FindToAdd
<1>3. ASSUME NEW w \in Watches, InsertItem(w)
      PROVE  WatchlistTypeOK' /\ VisitsKnowStock'
  BY <1>3 DEF InsertItem, Visit
<1>4. ASSUME NEW w \in Watches, FindToRemove(w)
      PROVE  WatchlistTypeOK' /\ VisitsKnowStock'
  BY <1>4 DEF FindToRemove
<1>5. ASSUME NEW w \in Watches, RemoveItem(w)
      PROVE  WatchlistTypeOK' /\ VisitsKnowStock'
  BY <1>5 DEF RemoveItem, Visit
<1>6. ASSUME NEW w \in Watches, VisitStops(w)
      PROVE  WatchlistTypeOK' /\ VisitsKnowStock'
  BY <1>6 DEF VisitStops, Visit
<1> QED
  BY <1>1, <1>2, <1>3, <1>4, <1>5, <1>6 DEF WatchlistNext

\* A row leaves "live" only by a removal of its own asset, and a request that ended in
\* "listed" or "removed" ends there.
LEMMA ListedStep ==
  ASSUME WatchlistInv, [WatchlistNext]_watchlistVars
  PROVE  ListedUnlessRemoved'
<1> USE DEF WatchlistInv, WatchlistTypeOK, VisitsKnowStock, ListedUnlessRemoved
<1>1. CASE UNCHANGED watchlistVars
  BY <1>1 DEF watchlistVars
<1>2. ASSUME NEW w \in Watches, FindToAdd(w)
      PROVE  ListedUnlessRemoved'
  BY <1>2 DEF FindToAdd
<1>3. ASSUME NEW w \in Watches, InsertItem(w)
      PROVE  ListedUnlessRemoved'
  BY <1>3 DEF InsertItem, Visit
<1>4. ASSUME NEW w \in Watches, FindToRemove(w)
      PROVE  ListedUnlessRemoved'
  BY <1>4 DEF FindToRemove
<1>5. ASSUME NEW w \in Watches, RemoveItem(w)
      PROVE  ListedUnlessRemoved'
  <2>1. visit'[w].pc = "removed" /\ visit'[w].stock = visit[w].stock
    BY <1>5 DEF RemoveItem, Visit
  <2>2. \A v \in Watches \ {w} : visit'[v] = visit[v]
    BY <1>5 DEF RemoveItem, Visit
  <2>3. \A a \in Stocks \ {visit[w].stock} : watch'[a] = watch[a]
    BY <1>5 DEF RemoveItem, Marked
  <2>4. SUFFICES ASSUME NEW u \in Watches, visit'[u].pc = "listed"
                 PROVE  \/ watch'[visit'[u].stock] = "live"
                        \/ \E v \in Watches : visit'[v].pc = "removed" /\ visit'[v].stock = visit'[u].stock
    BY DEF ListedUnlessRemoved
  <2>5. u # w /\ visit'[u] = visit[u] /\ visit[u].stock \in Stocks
    BY <2>1, <2>2, <2>4
  <2>6. CASE visit[u].stock = visit[w].stock
    BY <2>1, <2>5, <2>6
  <2>7. CASE watch[visit[u].stock] = "live" /\ visit[u].stock # visit[w].stock
    BY <2>3, <2>5, <2>7
  <2>8. ASSUME NEW v \in Watches, visit[v].pc = "removed", visit[v].stock = visit[u].stock
        PROVE  visit'[v].pc = "removed" /\ visit'[v].stock = visit'[u].stock
    BY <1>5, <2>2, <2>5, <2>8 DEF RemoveItem
  <2> QED
    BY <2>2, <2>4, <2>5, <2>6, <2>7, <2>8
<1>6. ASSUME NEW w \in Watches, VisitStops(w)
      PROVE  ListedUnlessRemoved'
  BY <1>6 DEF VisitStops, Visit
<1> QED
  BY <1>1, <1>2, <1>3, <1>4, <1>5, <1>6 DEF WatchlistNext

\* WatchlistService, for any number of overlapping adds and removals of any assets: an asset
\* that a request was told is listed has a live row until a DELETE of that asset.
THEOREM WatchlistKeeps == WatchlistSpec => []ListedUnlessRemoved
<1>1. WatchlistInv /\ [WatchlistNext]_watchlistVars => WatchlistInv'
  BY WatchlistTypeStep, ListedStep DEF WatchlistInv
<1>2. WatchlistInv => ListedUnlessRemoved
  BY DEF WatchlistInv
<1> QED
  BY WatchlistInitInv, <1>1, <1>2, PTL DEF WatchlistSpec
-----------------------------------------------------------------------------
(* Preferences and templates. *)

\* A handler past its first read knows its key and what it was sent; rows are never deleted,
\* so the row that was found is still there when it is read again and updated.
SavesKnowRow ==
    \A s \in Saves :
        /\ save[s].pc \in {"insert", "read", "update"} => save[s].key \in Keys /\ save[s].sent \in Row
        /\ save[s].pc \in {"read", "update"} => row[save[s].key] \in Row
        /\ save[s].pc = "update" => save[s].base \in Row

RowsInv ==
    /\ RowsTypeOK
    /\ latest \in [Keys -> Row \cup {Nothing}]
    /\ SavesKnowRow
    /\ RowIsLatestSave

\* UPDATE of the columns in which a request differs from what was read before leaves what
\* was sent, when the row is still what was read.
LEMMA UpdateWritesAll ==
  ASSUME NEW sent \in Row, NEW base \in Row
  PROVE  LET differs == {f \in Assigned : sent[f] # base[f]}
         IN  [f \in Fields |-> IF f \in differs THEN sent[f] ELSE base[f]] = sent
  BY DEF Row, Assigned

LEMMA RowsInitInv == RowsInit => RowsInv
  BY SMT DEF RowsInit, RowsInv, RowsTypeOK, SavesKnowRow, RowIsLatestSave, Idle

\* An update, from any read: types, and the row is what was sent or its key is torn.
LEMMA UpdateStep ==
  ASSUME RowsInv, NEW s \in Saves, UpdateRow(s)
  PROVE  RowsInv'
<1> USE DEF RowsInv, RowsTypeOK
<1> DEFINE k == save[s].key
           differs == {f \in Assigned : save[s].sent[f] # save[s].base[f]}
           new == [f \in Fields |-> IF f \in differs THEN save[s].sent[f] ELSE row[k][f]]
<1>1. k \in Keys /\ save[s].sent \in Row /\ save[s].base \in Row /\ row[k] \in Row
  BY DEF UpdateRow, SavesKnowRow
<1>2. new \in Row
  BY <1>1 DEF Row
<1>3. /\ row' = [row EXCEPT ![k] = new]
      /\ latest' = [latest EXCEPT ![k] = save[s].sent]
      /\ torn' = IF row[k] = save[s].base THEN torn \ {k} ELSE torn \cup {k}
      /\ save' = [save EXCEPT ![s].pc = "saved"]
  BY DEF UpdateRow, Step
<1>4. RowsTypeOK' /\ (latest \in [Keys -> Row \cup {Nothing}])'
  <2> HIDE DEF k, new
  <2> QED
    BY <1>1, <1>2, <1>3 DEF Keys
<1>5. SavesKnowRow'
  <2> HIDE DEF k, new
  <2>1. \A t \in Saves \ {s} : save'[t] = save[t]
    BY <1>3
  <2>2. save'[s].pc = "saved"
    BY <1>3
  <2>3. \A j \in Keys : row[j] \in Row => row'[j] \in Row
    BY <1>1, <1>2, <1>3
  <2> QED
    BY <2>1, <2>2, <2>3 DEF SavesKnowRow
<1>6. ASSUME NEW j \in Keys \ torn'
      PROVE  row'[j] = latest'[j]
  <2>1. CASE j # k
    <3> HIDE DEF k, new
    <3> QED
      BY <1>3, <1>6, <2>1 DEF RowIsLatestSave
  <2>2. CASE j = k
    <3>1. row[k] = save[s].base
      BY <1>3, <1>6, <2>2
    <3>2. new = save[s].sent
      BY <1>1, <3>1, UpdateWritesAll
    <3> HIDE DEF k, new
    <3> QED
      BY <1>1, <1>3, <2>2, <3>2
  <2> QED
    BY <2>1, <2>2
<1> QED
  BY <1>4, <1>5, <1>6 DEF RowIsLatestSave

\* No other step touches a row that exists: an insert finds none.
LEMMA RowsStep ==
  ASSUME RowsInv, [RowsNext]_rowsVars
  PROVE  RowsInv'
<1> USE RowsAssumption DEF RowsInv, RowsTypeOK, SavesKnowRow, RowIsLatestSave
<1>1. CASE UNCHANGED rowsVars
  BY <1>1 DEF rowsVars
<1>2. ASSUME NEW s \in Saves, NEW k \in Keys, Look(s, k)
      PROVE  RowsInv'
  BY <1>2 DEF Look, Keys
<1>3. ASSUME NEW s \in Saves, DenyTemplate(s)
      PROVE  RowsInv'
  BY <1>3 DEF DenyTemplate, Step
<1>4. ASSUME NEW s \in Saves, InsertRow(s)
      PROVE  RowsInv'
  BY <1>4 DEF InsertRow, Step
<1>5. ASSUME NEW s \in Saves, ReadAgain(s)
      PROVE  RowsInv'
  <2> DEFINE read == [save[s] EXCEPT !.pc = "update", !.base = row[save[s].key]]
  <2>1. /\ save[s].key \in Keys /\ save[s].sent \in Row /\ row[save[s].key] \in Row
        /\ save' = [save EXCEPT ![s] = read]
        /\ UNCHANGED <<row, latest, torn>>
    BY <1>5 DEF ReadAgain
  <2>2. /\ read.key = save[s].key /\ read.sent = save[s].sent /\ read.pc = "update"
        /\ read.base = row[save[s].key]
    BY <1>5 DEF ReadAgain
  <2> DEFINE handler == [pc : {"new", "insert", "read", "update", "saved", "refused", "denied", "failed"},
                         key : Keys \cup {Nothing}, sent : Row \cup {Nothing}, base : Row \cup {Nothing}]
  <2>3. save[s] \in handler
    OBVIOUS
  <2>4. \A h \in handler, b \in Row \cup {Nothing} :
           [h EXCEPT !.pc = "update", !.base = b] \in handler
    OBVIOUS
  <2>5. read \in handler
    <3> HIDE DEF handler
    <3> QED
      BY <2>1, <2>3, <2>4
  <2> HIDE DEF read
  <2> QED
    BY <2>1, <2>2, <2>5
<1>6. ASSUME NEW s \in Saves, SaveStops(s)
      PROVE  RowsInv'
  BY <1>6 DEF SaveStops, Step
<1> QED
  BY <1>1, <1>2, <1>3, <1>4, <1>5, <1>6, UpdateStep DEF RowsNext, FindPreferences, FindTemplate, Keys

\* PreferencesRepository.save and TemplateRepository.save, for any users, event types, columns
\* and requests: a row is what the last save to write it was sent, unless an update read the
\* row before another one changed it.
THEOREM RowsHoldLatestSave == RowsSpec => []RowIsLatestSave
<1>1. RowsInv /\ [RowsNext]_rowsVars => RowsInv'
  BY RowsStep
<1>2. RowsInv => RowIsLatestSave
  BY DEF RowsInv
<1> QED
  BY RowsInitInv, <1>1, <1>2, PTL DEF RowsSpec
-----------------------------------------------------------------------------
(* The demo account. *)

\* What the handler has behind it when it is in one of its loops, and when it is through.
SoFar(d) ==
    LET past(items) == items \subseteq seeded[d] \cup skipped[d]
        rest == demo[d].left
    IN  /\ demo[d].pc = "trades" => past({Portfolio} \cup (DemoTrades \ rest))
        /\ demo[d].pc = "watchlist" => past({Portfolio} \cup DemoTrades \cup (DemoTickers \ rest))
        /\ demo[d].pc = "alerts" => past({Portfolio} \cup DemoTrades \cup DemoTickers \cup (DemoAlerts \ rest))
        /\ demo[d].pc = "notifications" =>
              past({Portfolio} \cup DemoTrades \cup DemoTickers \cup DemoAlerts \cup (DemoNotices \ rest))
        /\ demo[d].pc = "session" => past(Seeds)

\* The handlers and their rows are functions on the calls; nothing more is needed of them.
DemoHandlers ==
    [pc : {"new", "portfolio", "trades", "watchlist", "alerts", "notifications", "session", "failed", "ended"},
     left : SUBSET Seeds, expires : Nat]

DemoTypes ==
    /\ clock \in Nat
    /\ demo \in [Demos -> DemoHandlers]
    /\ seeded \in [Demos -> SUBSET Seeds] /\ skipped \in [Demos -> SUBSET Seeds]

DemoInv == DemoTypes /\ \A d \in Demos : SoFar(d)

LEMMA DayNat == Day \in Nat
  BY DemoAssumption

LEMMA DemoInitInv == DemoInit => DemoInv
<1> SUFFICES ASSUME DemoInit PROVE DemoInv
  OBVIOUS
<1>1. clock \in Nat
  BY DayNat DEF DemoInit
<1>2. Fresh \in DemoHandlers
  BY DEF Fresh, DemoHandlers
<1>3. DemoTypes
  BY <1>1, <1>2 DEF DemoInit, DemoTypes
<1>4. \A d \in Demos : demo[d].pc = "new"
  BY DEF DemoInit, Fresh
<1> QED
  BY <1>3, <1>4 DEF DemoInv, SoFar

\* A step of one call leaves the other calls what they have.
OnlyCall(d) ==
    \A c \in Demos \ {d} : demo'[c] = demo[c] /\ seeded'[c] = seeded[c] /\ skipped'[c] = skipped[c]

\* Entering a loop, and one turn of a loop that catches errors: types, and what the step does.
LEMMA EnterStep ==
  ASSUME DemoTypes, NEW d \in Demos,
         NEW pc \in {"portfolio", "trades", "watchlist", "alerts", "notifications"},
         NEW items \in SUBSET Seeds, Enter(d, pc, items)
  PROVE  /\ demo' \in [Demos -> DemoHandlers]
         /\ demo'[d].pc = pc /\ demo'[d].left = items
         /\ \A c \in Demos \ {d} : demo'[c] = demo[c]
  BY DEF DemoTypes, DemoHandlers, Enter

LEMMA MakeStep ==
  ASSUME DemoTypes, NEW d \in Demos, NEW item \in Seeds, Make(d, item)
  PROVE  /\ seeded' \in [Demos -> SUBSET Seeds]
         /\ seeded'[d] = seeded[d] \cup {item}
         /\ \A c \in Demos \ {d} : seeded'[c] = seeded[c]
  BY DEF DemoTypes, Make

LEMMA TryStep ==
  ASSUME DemoTypes, NEW d \in Demos, NEW item \in Seeds, TryItem(d, item), UNCHANGED clock
  PROVE  /\ DemoTypes' /\ OnlyCall(d)
         /\ demo'[d].pc = demo[d].pc /\ demo'[d].left = demo[d].left \ {item}
         /\ seeded'[d] \cup skipped'[d] = seeded[d] \cup skipped[d] \cup {item}
<1>1. /\ demo' \in [Demos -> DemoHandlers]
      /\ demo'[d].pc = demo[d].pc /\ demo'[d].left = demo[d].left \ {item}
      /\ \A c \in Demos \ {d} : demo'[c] = demo[c]
  <2>1. demo' = [demo EXCEPT ![d].left = @ \ {item}]
    BY DEF TryItem
  <2> QED
    BY <2>1 DEF DemoTypes, DemoHandlers
<1>2. CASE Make(d, item) /\ UNCHANGED skipped
  BY <1>1, <1>2, MakeStep DEF DemoTypes, OnlyCall
<1>3. CASE skipped' = [skipped EXCEPT ![d] = @ \cup {item}] /\ UNCHANGED seeded
  BY <1>1, <1>3 DEF DemoTypes, OnlyCall
<1> QED
  BY <1>2, <1>3 DEF TryItem

\* What a call has behind it is about that call alone.
LEMMA OthersKeep ==
  ASSUME NEW d, NEW c \in Demos \ {d}, OnlyCall(d), SoFar(c)
  PROVE  SoFar(c)'
  BY DEF OnlyCall, SoFar

LEMMA DemoCallStep ==
  ASSUME DemoInv, NEW d \in Demos,
         \/ CreateDemoUser(d) \/ SeedPortfolio(d) \/ SeedTrade(d) \/ SeedTicker(d)
         \/ SeedAlert(d) \/ SeedNotification(d) \/ IssueToken(d) \/ DemoStops(d) \/ Unauthorized(d)
  PROVE  DemoInv'
<1> SUFFICES DemoTypes' /\ OnlyCall(d) /\ SoFar(d)'
  BY OthersKeep DEF DemoInv
<1>0. DemoTypes /\ SoFar(d)
  BY DEF DemoInv
<1>t. \A x \in demo[d].left : x \in Seeds
  BY <1>0 DEF DemoTypes, DemoHandlers
<1>s. /\ Portfolio \in Seeds /\ DemoTrades \in SUBSET Seeds /\ DemoTickers \in SUBSET Seeds
      /\ DemoAlerts \in SUBSET Seeds /\ DemoNotices \in SUBSET Seeds /\ {} \in SUBSET Seeds
  BY DEF Seeds
<1>1. CASE CreateDemoUser(d)
  <2>1. Enter(d, "portfolio", {}) /\ UNCHANGED <<clock, seeded, skipped>>
    BY <1>1 DEF CreateDemoUser
  <2> QED
    BY <1>0, <1>s, <2>1, EnterStep DEF DemoTypes, OnlyCall, SoFar
<1>2. CASE SeedPortfolio(d)
  <2>1. Make(d, Portfolio) /\ Enter(d, "trades", DemoTrades) /\ UNCHANGED <<clock, skipped>>
    BY <1>2 DEF SeedPortfolio
  <2> QED
    BY <1>0, <1>s, <2>1, EnterStep, MakeStep DEF DemoTypes, OnlyCall, SoFar
<1>3. CASE SeedTrade(d)
  <2>1. ASSUME NEW item \in demo[d].left, TryItem(d, item), demo[d].pc = "trades", UNCHANGED clock
        PROVE  DemoTypes' /\ OnlyCall(d) /\ SoFar(d)'
    BY <1>0, <1>t, <2>1, TryStep DEF SoFar
  <2>2. CASE /\ demo[d].pc = "trades" /\ demo[d].left = {}
             /\ Enter(d, "watchlist", DemoTickers) /\ UNCHANGED <<clock, seeded, skipped>>
    BY <1>0, <1>s, <2>2, EnterStep DEF DemoTypes, OnlyCall, SoFar
  <2> QED
    BY <1>3, <2>1, <2>2 DEF SeedTrade
<1>4. CASE SeedTicker(d)
  <2>1. ASSUME NEW item \in demo[d].left, TryItem(d, item), demo[d].pc = "watchlist", UNCHANGED clock
        PROVE  DemoTypes' /\ OnlyCall(d) /\ SoFar(d)'
    BY <1>0, <1>t, <2>1, TryStep DEF SoFar
  <2>2. CASE /\ demo[d].pc = "watchlist" /\ demo[d].left = {}
             /\ Enter(d, "alerts", DemoAlerts) /\ UNCHANGED <<clock, seeded, skipped>>
    BY <1>0, <1>s, <2>2, EnterStep DEF DemoTypes, OnlyCall, SoFar
  <2> QED
    BY <1>4, <2>1, <2>2 DEF SeedTicker
<1>5. CASE SeedAlert(d)
  <2>1. ASSUME NEW item \in demo[d].left, TryItem(d, item), demo[d].pc = "alerts", UNCHANGED clock
        PROVE  DemoTypes' /\ OnlyCall(d) /\ SoFar(d)'
    BY <1>0, <1>t, <2>1, TryStep DEF SoFar
  <2>2. CASE /\ demo[d].pc = "alerts" /\ demo[d].left = {}
             /\ Enter(d, "notifications", DemoNotices) /\ UNCHANGED <<clock, seeded, skipped>>
    BY <1>0, <1>s, <2>2, EnterStep DEF DemoTypes, OnlyCall, SoFar
  <2> QED
    BY <1>5, <2>1, <2>2 DEF SeedAlert
<1>6. CASE SeedNotification(d)
  <2>1. PICK n \in demo[d].left : Make(d, n) /\ Enter(d, "notifications", demo[d].left \ {n})
    BY <1>6 DEF SeedNotification
  <2>2. n \in Seeds /\ demo[d].left \ {n} \in SUBSET Seeds /\ UNCHANGED <<clock, skipped>>
    BY <1>6, <1>t DEF SeedNotification
  <2>3. demo[d].pc = "notifications"
    BY <1>6 DEF SeedNotification
  <2> QED
    BY <1>0, <2>1, <2>2, <2>3, EnterStep, MakeStep DEF DemoTypes, OnlyCall, SoFar
<1>7. CASE IssueToken(d)
  <2>1. /\ demo[d].pc = "notifications" /\ demo[d].left = {}
        /\ demo' = [demo EXCEPT ![d].pc = "session", ![d].expires = clock + Day]
        /\ UNCHANGED <<clock, seeded, skipped>>
    BY <1>7 DEF IssueToken
  <2>2. clock + Day \in Nat
    BY <1>0, DayNat DEF DemoTypes
  <2>3. DemoTypes' /\ OnlyCall(d) /\ demo'[d].pc = "session"
    BY <1>0, <2>1, <2>2 DEF DemoTypes, DemoHandlers, OnlyCall
  <2>4. Seeds \subseteq seeded'[d] \cup skipped'[d]
    BY <1>0, <2>1 DEF SoFar, Seeds
  <2> QED
    BY <2>3, <2>4 DEF SoFar
<1>8. CASE DemoStops(d) \/ Unauthorized(d)
  <2>1. PICK pc \in {"failed", "ended"} : demo' = [demo EXCEPT ![d].pc = pc]
    BY <1>8 DEF DemoStops, Unauthorized, Uncaught
  <2>2. UNCHANGED <<clock, seeded, skipped>>
    BY <1>8 DEF DemoStops, Unauthorized
  <2>3. DemoTypes' /\ OnlyCall(d) /\ demo'[d].pc = pc
    BY <1>0, <2>1, <2>2 DEF DemoTypes, DemoHandlers, OnlyCall
  <2> QED
    BY <2>3 DEF SoFar
<1> QED
  BY <1>1, <1>2, <1>3, <1>4, <1>5, <1>6, <1>7, <1>8

LEMMA DemoInvNext == DemoInv /\ [DemoNext]_demoVars => DemoInv'
<1> SUFFICES ASSUME DemoInv, [DemoNext]_demoVars PROVE DemoInv'
  OBVIOUS
<1>1. CASE UNCHANGED demoVars
  BY <1>1 DEF demoVars, DemoInv, DemoTypes, SoFar
<1>2. CASE CleanupExpiredDemoUsers \/ DemoTick
  BY <1>2 DEF CleanupExpiredDemoUsers, DemoTick, DemoInv, DemoTypes, SoFar
<1> QED
  BY <1>1, <1>2, DemoCallStep DEF DemoNext

\* DemoSeedService and AuthService.createDemoSession, for any seeds and any number of calls
\* that overlap, fail or are cut off: who holds a session finds all of what is seeded, but
\* for the rows that a loop caught the failure of.
THEOREM DemoSeeds == DemoSpec => []SessionsSeeded
<1>1. DemoInv => SessionsSeeded
  BY DEF DemoInv, SoFar, SessionsSeeded
<1> QED
  BY DemoInitInv, DemoInvNext, <1>1, PTL DEF DemoSpec

\* The seeds are of five kinds that share nothing: a set that is as large as its parts together
\* has no element in two of them.
LEMMA KindsApart ==
  /\ {Portfolio} \cap DemoTrades = {}
  /\ ({Portfolio} \cup DemoTrades) \cap DemoTickers = {}
  /\ ({Portfolio} \cup DemoTrades \cup DemoTickers) \cap DemoAlerts = {}
  /\ ({Portfolio} \cup DemoTrades \cup DemoTickers \cup DemoAlerts) \cap DemoNotices = {}
<1> DEFINE A == {Portfolio}
           B == A \cup DemoTrades
           C == B \cup DemoTickers
           D == C \cup DemoAlerts
           E == D \cup DemoNotices
<1>1. /\ E = Seeds /\ IsFiniteSet(E)
      /\ Cardinality(E) = 1 + Cardinality(DemoTrades) + Cardinality(DemoTickers)
                            + Cardinality(DemoAlerts) + Cardinality(DemoNotices)
  BY DemoAssumption DEF Seeds
<1>2. /\ IsFiniteSet(DemoTrades) /\ IsFiniteSet(DemoTickers) /\ IsFiniteSet(DemoAlerts) /\ IsFiniteSet(DemoNotices)
      /\ IsFiniteSet(B) /\ IsFiniteSet(C) /\ IsFiniteSet(D)
  BY <1>1, FS_Subset
<1>3. IsFiniteSet(A) /\ Cardinality(A) = 1
  BY FS_Singleton
<1>4. Cardinality(B) = 1 + Cardinality(DemoTrades) - Cardinality(A \cap DemoTrades)
  BY <1>2, <1>3, FS_Union
<1>5. Cardinality(C) = Cardinality(B) + Cardinality(DemoTickers) - Cardinality(B \cap DemoTickers)
  BY <1>2, FS_Union
<1>6. Cardinality(D) = Cardinality(C) + Cardinality(DemoAlerts) - Cardinality(C \cap DemoAlerts)
  BY <1>2, FS_Union
<1>7. Cardinality(E) = Cardinality(D) + Cardinality(DemoNotices) - Cardinality(D \cap DemoNotices)
  BY <1>2, FS_Union
<1>8. /\ IsFiniteSet(A \cap DemoTrades) /\ IsFiniteSet(B \cap DemoTickers)
      /\ IsFiniteSet(C \cap DemoAlerts) /\ IsFiniteSet(D \cap DemoNotices)
  BY <1>2, FS_Subset
<1>9. /\ Cardinality(A \cap DemoTrades) \in Nat /\ Cardinality(B \cap DemoTickers) \in Nat
      /\ Cardinality(C \cap DemoAlerts) \in Nat /\ Cardinality(D \cap DemoNotices) \in Nat
      /\ Cardinality(B) \in Nat /\ Cardinality(C) \in Nat /\ Cardinality(D) \in Nat
      /\ Cardinality(DemoTrades) \in Nat /\ Cardinality(DemoTickers) \in Nat
      /\ Cardinality(DemoAlerts) \in Nat /\ Cardinality(DemoNotices) \in Nat
  BY <1>2, <1>8, FS_CardinalityType
<1> HIDE DEF A, B, C, D, E
<1>10. /\ Cardinality(A \cap DemoTrades) = 0 /\ Cardinality(B \cap DemoTickers) = 0
       /\ Cardinality(C \cap DemoAlerts) = 0 /\ Cardinality(D \cap DemoNotices) = 0
  <2>1. \A t, i, a, n, b, c, d, e, x1, x2, x3, x4 \in Nat :
            /\ b = 1 + t - x1 /\ c = b + i - x2 /\ d = c + a - x3 /\ e = d + n - x4 /\ e = 1 + t + i + a + n
            => x1 = 0 /\ x2 = 0 /\ x3 = 0 /\ x4 = 0
    OBVIOUS
  <2>2. Cardinality(E) \in Nat
    BY <1>1, FS_CardinalityType
  <2> QED
    BY <1>1, <1>4, <1>5, <1>6, <1>7, <1>9, <2>1, <2>2
<1>11. /\ A \cap DemoTrades = {} /\ B \cap DemoTickers = {}
       /\ C \cap DemoAlerts = {} /\ D \cap DemoNotices = {}
  BY <1>8, <1>10, FS_EmptySet
<1> QED
  BY <1>11 DEF A, B, C, D

\* Where a call has not been yet: nothing is made or skipped before its loop comes to it, and
\* nothing both made and skipped.
Unreached(d) ==
    LET within(items) == seeded[d] \cup skipped[d] \subseteq items
        rest == demo[d].left
    IN  /\ demo[d].pc \in {"new", "portfolio"} => within({})
        /\ demo[d].pc = "trades" => rest \subseteq DemoTrades /\ within({Portfolio} \cup (DemoTrades \ rest))
        /\ demo[d].pc = "watchlist" =>
              rest \subseteq DemoTickers /\ within({Portfolio} \cup DemoTrades \cup (DemoTickers \ rest))
        /\ demo[d].pc = "alerts" =>
              rest \subseteq DemoAlerts /\ within({Portfolio} \cup DemoTrades \cup DemoTickers \cup (DemoAlerts \ rest))
        /\ demo[d].pc = "notifications" =>
              /\ rest \subseteq DemoNotices
              /\ within({Portfolio} \cup DemoTrades \cup DemoTickers \cup DemoAlerts \cup (DemoNotices \ rest))

Apart(d) == seeded[d] \cap skipped[d] = {} /\ demo[d].expires \in 0..(MaxDemoTime + Day)

\* The clock, and the rows of users and the history of slow calls.
DemoFrame == clock \in 0..MaxDemoTime /\ DOMAIN users \subseteq Demos /\ slow \subseteq Demos

DemoKinds == DemoInv /\ DemoFrame /\ \A d \in Demos : Unreached(d) /\ Apart(d)

\* What is left of a loop has not been made or skipped.
LEMMA RestIsAhead ==
  ASSUME NEW d \in Demos, Unreached(d), demo[d].pc \in {"trades", "watchlist", "alerts", "notifications"}
  PROVE  demo[d].left \cap (seeded[d] \cup skipped[d]) = {}
  BY KindsApart DEF Unreached

\* One turn of a loop that catches errors.
LEMMA TryApart ==
  ASSUME DemoTypes, NEW d \in Demos, NEW item \in demo[d].left, item \in Seeds, TryItem(d, item), UNCHANGED clock,
         Unreached(d), Apart(d), demo[d].pc \in {"trades", "watchlist", "alerts"}
  PROVE  Unreached(d)' /\ Apart(d)' /\ OnlyCall(d)
<1>1. /\ DemoTypes' /\ OnlyCall(d)
      /\ demo'[d].pc = demo[d].pc /\ demo'[d].left = demo[d].left \ {item}
      /\ seeded'[d] \cup skipped'[d] = seeded[d] \cup skipped[d] \cup {item}
  BY TryStep
<1>2. item \notin seeded[d] \cup skipped[d]
  BY RestIsAhead
<1>3. \/ seeded'[d] = seeded[d] \cup {item} /\ skipped'[d] = skipped[d]
      \/ skipped'[d] = skipped[d] \cup {item} /\ seeded'[d] = seeded[d]
  BY DEF TryItem, Make, DemoTypes
<1>4. demo'[d].expires = demo[d].expires
  BY DEF TryItem, DemoTypes, DemoHandlers
<1>5. Apart(d)'
  BY <1>2, <1>3, <1>4 DEF Apart
<1>6. Unreached(d)'
  BY <1>1 DEF Unreached
<1> QED
  BY <1>1, <1>5, <1>6

LEMMA DemoKindsCall ==
  ASSUME DemoKinds, NEW d \in Demos,
         \/ CreateDemoUser(d) \/ SeedPortfolio(d) \/ SeedTrade(d) \/ SeedTicker(d)
         \/ SeedAlert(d) \/ SeedNotification(d) \/ IssueToken(d) \/ DemoStops(d) \/ Unauthorized(d)
  PROVE  DemoFrame' /\ \A c \in Demos : Unreached(c)' /\ Apart(c)'
<1>0. DemoTypes /\ DemoFrame /\ Unreached(d) /\ Apart(d)
  BY DEF DemoKinds, DemoInv
<1>t. \A x \in demo[d].left : x \in Seeds
  BY <1>0 DEF DemoTypes, DemoHandlers
<1>s. /\ Portfolio \in Seeds /\ DemoTrades \in SUBSET Seeds /\ DemoTickers \in SUBSET Seeds
      /\ DemoAlerts \in SUBSET Seeds /\ DemoNotices \in SUBSET Seeds /\ {} \in SUBSET Seeds
  BY DEF Seeds
<1>f. DemoFrame'
  BY <1>0 DEF DemoFrame, CreateDemoUser, SeedPortfolio, SeedTrade, SeedTicker, SeedAlert, SeedNotification, IssueToken,
              DemoStops, Unauthorized
<1>e. ASSUME NEW pc \in {"portfolio", "trades", "watchlist", "alerts", "notifications"},
             NEW items \in SUBSET Seeds, Enter(d, pc, items)
      PROVE  demo'[d].expires = demo[d].expires
  BY <1>0, <1>e DEF Enter, DemoTypes, DemoHandlers
<1> SUFFICES Unreached(d)' /\ Apart(d)' /\ OnlyCall(d)
  <2>1. ASSUME NEW c \in Demos \ {d}, OnlyCall(d)
        PROVE  Unreached(c)' /\ Apart(c)'
    BY <2>1 DEF DemoKinds, OnlyCall, Unreached, Apart
  <2> QED
    BY <1>f, <2>1
<1>1. CASE CreateDemoUser(d)
  <2>1. Enter(d, "portfolio", {}) /\ UNCHANGED <<clock, seeded, skipped>> /\ demo[d].pc = "new"
    BY <1>1 DEF CreateDemoUser
  <2> QED
    BY <1>0, <1>e, <1>s, <2>1, EnterStep DEF OnlyCall, Unreached, Apart
<1>2. CASE SeedPortfolio(d)
  <2>1. Make(d, Portfolio) /\ Enter(d, "trades", DemoTrades) /\ UNCHANGED <<clock, skipped>> /\ demo[d].pc = "portfolio"
    BY <1>2 DEF SeedPortfolio
  <2>2. /\ demo'[d].pc = "trades" /\ demo'[d].left = DemoTrades /\ demo'[d].expires = demo[d].expires
        /\ seeded'[d] = seeded[d] \cup {Portfolio} /\ skipped'[d] = skipped[d] /\ OnlyCall(d)
    BY <1>0, <1>e, <1>s, <2>1, EnterStep, MakeStep DEF OnlyCall
  <2>3. seeded[d] = {} /\ skipped[d] = {}
    BY <1>0, <2>1 DEF Unreached
  <2> QED
    BY <1>0, <2>2, <2>3 DEF Unreached, Apart
<1>3. ASSUME NEW now \in {"trades", "watchlist", "alerts"}, demo[d].pc = now,
             NEW next \in {"watchlist", "alerts", "notifications"}, NEW items \in SUBSET Seeds,
             \/ \E x \in demo[d].left : TryItem(d, x)
             \/ demo[d].left = {} /\ Enter(d, next, items) /\ UNCHANGED <<seeded, skipped>>,
             <<now, next, items>> \in {<<"trades", "watchlist", DemoTickers>>, <<"watchlist", "alerts", DemoAlerts>>,
                                       <<"alerts", "notifications", DemoNotices>>},
             UNCHANGED clock
      PROVE  Unreached(d)' /\ Apart(d)' /\ OnlyCall(d)
  <2>1. CASE \E x \in demo[d].left : TryItem(d, x)
    BY <1>0, <1>3, <1>t, <2>1, TryApart
  <2>2. CASE demo[d].left = {} /\ Enter(d, next, items) /\ UNCHANGED <<seeded, skipped>>
    <3>1. /\ demo'[d].pc = next /\ demo'[d].left = items /\ demo'[d].expires = demo[d].expires
          /\ seeded'[d] = seeded[d] /\ skipped'[d] = skipped[d] /\ OnlyCall(d)
      BY <1>0, <1>3, <1>e, <2>2, EnterStep DEF OnlyCall
    <3>2. \/ now = "trades" /\ next = "watchlist" /\ items = DemoTickers
          \/ now = "watchlist" /\ next = "alerts" /\ items = DemoAlerts
          \/ now = "alerts" /\ next = "notifications" /\ items = DemoNotices
      BY <1>3
    <3>3. Apart(d)'
      BY <1>0, <3>1 DEF Apart
    <3>4. Unreached(d)'
      BY <1>0, <1>3, <2>2, <3>1, <3>2 DEF Unreached
    <3> QED
      BY <3>1, <3>3, <3>4
  <2> QED
    BY <1>3, <2>1, <2>2
<1>4. CASE SeedTrade(d)
  BY <1>3, <1>4, <1>s DEF SeedTrade
<1>5. CASE SeedTicker(d)
  BY <1>3, <1>5, <1>s DEF SeedTicker
<1>6. CASE SeedAlert(d)
  BY <1>3, <1>6, <1>s DEF SeedAlert
<1>7. CASE SeedNotification(d)
  <2>1. PICK n \in demo[d].left : Make(d, n) /\ Enter(d, "notifications", demo[d].left \ {n})
    BY <1>7 DEF SeedNotification
  <2>2. n \in Seeds /\ demo[d].left \ {n} \in SUBSET Seeds /\ UNCHANGED <<clock, skipped>> /\ demo[d].pc = "notifications"
    BY <1>7, <1>t DEF SeedNotification
  <2>3. /\ demo'[d].pc = "notifications" /\ demo'[d].left = demo[d].left \ {n} /\ demo'[d].expires = demo[d].expires
        /\ seeded'[d] = seeded[d] \cup {n} /\ skipped'[d] = skipped[d] /\ OnlyCall(d)
    BY <1>0, <1>e, <2>1, <2>2, EnterStep, MakeStep DEF OnlyCall
  <2>4. n \notin skipped[d]
    BY <1>0, <2>2, RestIsAhead
  <2>5. Apart(d)'
    BY <1>0, <2>3, <2>4 DEF Apart
  <2>6. Unreached(d)'
    BY <1>0, <2>2, <2>3 DEF Unreached
  <2> QED
    BY <2>3, <2>5, <2>6
<1>8. CASE IssueToken(d)
  <2>1. /\ demo' = [demo EXCEPT ![d].pc = "session", ![d].expires = clock + Day]
        /\ UNCHANGED <<clock, seeded, skipped>>
    BY <1>8 DEF IssueToken
  <2>2. clock + Day \in 0..(MaxDemoTime + Day)
    BY <1>0, DemoAssumption DEF DemoFrame
  <2>3. OnlyCall(d) /\ demo'[d].pc = "session" /\ demo'[d].expires = clock + Day
    BY <1>0, <2>1 DEF DemoTypes, DemoHandlers, OnlyCall
  <2> QED
    BY <1>0, <2>1, <2>2, <2>3 DEF Unreached, Apart
<1>9. CASE DemoStops(d) \/ Unauthorized(d)
  <2>1. PICK pc \in {"failed", "ended"} : demo' = [demo EXCEPT ![d].pc = pc]
    BY <1>9 DEF DemoStops, Unauthorized, Uncaught
  <2>2. UNCHANGED <<clock, seeded, skipped>>
    BY <1>9 DEF DemoStops, Unauthorized
  <2>3. OnlyCall(d) /\ demo'[d].pc = pc /\ demo'[d].expires = demo[d].expires
    BY <1>0, <2>1, <2>2 DEF DemoTypes, DemoHandlers, OnlyCall
  <2> QED
    BY <1>0, <2>2, <2>3 DEF Unreached, Apart
<1> QED
  BY <1>1, <1>2, <1>4, <1>5, <1>6, <1>7, <1>8, <1>9

LEMMA DemoKindsInit == DemoInit => DemoKinds
<1> SUFFICES ASSUME DemoInit PROVE DemoKinds
  OBVIOUS
<1>1. DemoFrame
  BY DemoAssumption DEF DemoInit, DemoFrame
<1>2. \A d \in Demos : /\ demo[d].pc = "new" /\ demo[d].expires = 0 /\ seeded[d] = {} /\ skipped[d] = {}
  BY DEF DemoInit, Fresh
<1>3. 0 \in 0..(MaxDemoTime + Day)
  BY DemoAssumption
<1> QED
  BY <1>1, <1>2, <1>3, DemoInitInv DEF DemoKinds, Unreached, Apart

LEMMA DemoKindsNext == DemoKinds /\ [DemoNext]_demoVars => DemoKinds'
<1> SUFFICES ASSUME DemoKinds, [DemoNext]_demoVars PROVE DemoFrame' /\ \A d \in Demos : Unreached(d)' /\ Apart(d)'
  BY DemoInvNext DEF DemoKinds
<1>1. CASE UNCHANGED demoVars
  BY <1>1 DEF demoVars, DemoKinds, DemoFrame, Unreached, Apart
<1>2. CASE CleanupExpiredDemoUsers
  BY <1>2 DEF CleanupExpiredDemoUsers, DemoKinds, DemoFrame, Unreached, Apart
<1>3. CASE DemoTick
  <2>1. DemoFrame'
    BY <1>3, DemoAssumption DEF DemoTick, DemoKinds, DemoFrame
  <2> QED
    BY <1>3, <2>1 DEF DemoTick, DemoKinds, Unreached, Apart
<1> QED
  BY <1>1, <1>2, <1>3, DemoKindsCall DEF DemoNext

LEMMA DemoKindsType == DemoKinds => DemoTypeOK
<1> SUFFICES ASSUME DemoKinds PROVE DemoTypeOK
  OBVIOUS
<1>1. DemoFrame /\ DemoTypes
  BY DEF DemoKinds, DemoInv
<1>2. ASSUME NEW d \in Demos
      PROVE  /\ demo[d].pc \in {"new", "portfolio", "trades", "watchlist", "alerts", "notifications",
                                "session", "failed", "ended"}
             /\ demo[d].left \subseteq Seeds /\ demo[d].expires \in 0..(MaxDemoTime + Day)
             /\ seeded[d] \subseteq Seeds /\ skipped[d] \subseteq Seeds \ seeded[d]
  <2>1. demo[d] \in DemoHandlers /\ seeded[d] \subseteq Seeds /\ skipped[d] \subseteq Seeds /\ Apart(d)
    BY <1>1 DEF DemoKinds, DemoTypes
  <2> QED
    BY <2>1 DEF DemoHandlers, Apart
<1> QED
  BY <1>1, <1>2 DEF DemoTypeOK, DemoFrame

\* DemoSeedService.createDemoUserWithSeedData, for any seeds and calls: what a loop skipped it has
\* not made, and no call makes what its loop has behind it or not yet come to.
THEOREM DemoMakesOnce == DemoSpec => []DemoTypeOK
  BY DemoKindsInit, DemoKindsNext, DemoKindsType, PTL DEF DemoSpec

\* A call that no tick has passed made its user just now; a token ends with the day of its user.
UserOutlives(d) ==
    /\ demo[d].pc \in {"portfolio", "trades", "watchlist", "alerts", "notifications"} =>
          d \in slow \/ (d \in DOMAIN users /\ users[d] = clock)
    /\ demo[d].pc = "session" =>
          \/ d \in slow
          \/ demo[d].expires < clock
          \/ d \in DOMAIN users /\ users[d] \in Nat /\ demo[d].expires = users[d] + Day

\* A step of a call at one moment; the call alone can lose sight of its own user.
LEMMA OutlivesStep ==
  ASSUME DemoTypes, NEW d \in Demos, NEW c \in Demos, UserOutlives(c),
         \/ CreateDemoUser(d) \/ SeedPortfolio(d) \/ SeedTrade(d) \/ SeedTicker(d)
         \/ SeedAlert(d) \/ SeedNotification(d) \/ IssueToken(d) \/ DemoStops(d) \/ Unauthorized(d)
  PROVE  UserOutlives(c)'
<1> USE DEF UserOutlives
<1>1. CASE CreateDemoUser(d)
  <2>1. /\ UNCHANGED <<clock, slow>> /\ users' = [k \in DOMAIN users \cup {d} |-> IF k = d THEN clock ELSE users[k]]
        /\ demo'[d].pc = "portfolio" /\ \A k \in Demos \ {d} : demo'[k] = demo[k]
    BY <1>1 DEF CreateDemoUser, Enter, DemoTypes, DemoHandlers
  <2>2. CASE c = d
    BY <2>1, <2>2
  <2>3. CASE c # d
    BY <2>1, <2>3
  <2> QED
    BY <2>2, <2>3
<1>2. ASSUME UNCHANGED <<clock, users, slow>>, \A k \in Demos \ {d} : demo'[k] = demo[k],
             \/ demo'[d].pc \in {"failed", "ended"}
             \/ /\ demo[d].pc \in {"portfolio", "trades", "watchlist", "alerts", "notifications"}
                /\ demo'[d].pc \in {"portfolio", "trades", "watchlist", "alerts", "notifications"}
      PROVE  UserOutlives(c)'
  BY <1>2
<1>3. CASE SeedPortfolio(d) \/ SeedTrade(d) \/ SeedTicker(d) \/ SeedAlert(d) \/ SeedNotification(d)
  <2>1. \A k \in Demos \ {d} : demo'[k] = demo[k]
    BY <1>3 DEF SeedPortfolio, SeedTrade, SeedTicker, SeedAlert, SeedNotification, Enter, TryItem, DemoTypes
  <2>2. /\ demo[d].pc \in {"portfolio", "trades", "watchlist", "alerts", "notifications"}
        /\ demo'[d].pc \in {"portfolio", "trades", "watchlist", "alerts", "notifications"}
    BY <1>3 DEF SeedPortfolio, SeedTrade, SeedTicker, SeedAlert, SeedNotification, Enter, TryItem, DemoTypes, DemoHandlers
  <2> QED
    BY <1>2, <1>3, <2>1, <2>2 DEF SeedPortfolio, SeedTrade, SeedTicker, SeedAlert, SeedNotification
<1>4. CASE IssueToken(d)
  <2>1. /\ UNCHANGED <<clock, users, slow>> /\ demo[d].pc = "notifications"
        /\ demo'[d].pc = "session" /\ demo'[d].expires = clock + Day
        /\ \A k \in Demos \ {d} : demo'[k] = demo[k]
    BY <1>4 DEF IssueToken, DemoTypes, DemoHandlers
  <2>2. CASE c = d
    BY <2>1, <2>2 DEF DemoTypes
  <2>3. CASE c # d
    BY <2>1, <2>3
  <2> QED
    BY <2>2, <2>3
<1>5. CASE DemoStops(d) \/ Unauthorized(d)
  <2>1. demo'[d].pc \in {"failed", "ended"} /\ \A k \in Demos \ {d} : demo'[k] = demo[k]
    BY <1>5 DEF DemoStops, Unauthorized, Uncaught, DemoTypes, DemoHandlers
  <2> QED
    BY <1>2, <1>5, <2>1 DEF DemoStops, Unauthorized
<1> QED
  BY <1>1, <1>3, <1>4, <1>5

OutliveInv == DemoInv /\ \A d \in Demos : UserOutlives(d)

LEMMA OutliveNext == OutliveInv /\ [DemoNext]_demoVars => OutliveInv'
<1> SUFFICES ASSUME OutliveInv, [DemoNext]_demoVars PROVE OutliveInv'
  OBVIOUS
<1> SUFFICES ASSUME NEW c \in Demos PROVE UserOutlives(c)'
  BY DemoInvNext DEF OutliveInv
<1>0. DemoTypes /\ UserOutlives(c) /\ clock \in Nat /\ Day \in Nat \ {0} /\ demo[c].expires \in Nat
  BY DemoAssumption DEF OutliveInv, DemoInv, DemoTypes, DemoHandlers
<1>1. CASE UNCHANGED demoVars
  BY <1>0, <1>1 DEF demoVars, UserOutlives
<1>2. CASE CleanupExpiredDemoUsers
  BY <1>0, <1>2 DEF CleanupExpiredDemoUsers, Expired, UserOutlives
<1>3. CASE DemoTick
  BY <1>0, <1>3 DEF DemoTick, UserOutlives
<1> QED
  BY <1>0, <1>1, <1>2, <1>3, OutlivesStep DEF DemoNext

\* generateDemoTokens and DemoUsersCleanupJob, for any length of the day: a token that has not
\* expired has its user, unless the seeding took a tick or more.
THEOREM DemoUsersOutliveTokens == DemoSpec => []TokensHaveUser
<1>1. DemoInit => OutliveInv
  BY DemoInitInv DEF DemoInit, OutliveInv, UserOutlives, Fresh
<1>2. OutliveInv => TokensHaveUser
  BY DEF OutliveInv, DemoInv, DemoTypes, DemoHandlers, UserOutlives, TokensHaveUser, TokenValid
<1> QED
  BY OutliveNext, <1>1, <1>2, PTL DEF DemoSpec
-----------------------------------------------------------------------------
(* The failed logins. *)

\* The counter and the logins in it go together, and a login that is to give the counter its
\* time to live has let no tick pass.
CounterInv ==
    /\ LockoutTypeOK
    /\ \A l \in DOMAIN counted : counted[l] \in Nat
    /\ counter.count = 0 => counter.ttl = 0 /\ DOMAIN counted = {}
    /\ counter.count > 0 => counter.ttl \in 1..Forever
    /\ late \/ \A l \in Logins : login[l].pc = "expire" => \A k \in DOMAIN counted : counted[k] = 0
    /\ late \/ counter.ttl = Forever \/ \A l \in DOMAIN counted : counted[l] + counter.ttl <= Lockout

LEMMA LockoutSizes == Lockout \in Nat \ {0} /\ Forever = Lockout + 1 /\ MaxFailedLogins \in Nat \ {0}
  BY LockoutAssumption DEF Forever

LEMMA CounterInvInit == LockoutInit => CounterInv
  BY LockoutSizes DEF LockoutInit, CounterInv, LockoutTypeOK, LoginPc, NoCounter

\* A login goes on; the keys stay as they are.
LEMMA LoginMove ==
  ASSUME LockoutTypeOK, NEW l \in Logins, NEW pc \in LoginPc, Goto(l, pc)
  PROVE  /\ login' \in [Logins -> [pc : LoginPc, seen : Nat]]
         /\ login'[l].pc = pc /\ login'[l].seen = login[l].seen
         /\ \A k \in Logins \ {l} : login'[k] = login[k]
<1> DEFINE handler == [pc : LoginPc, seen : Nat]
<1>1. login \in [Logins -> handler] /\ login' = [login EXCEPT ![l].pc = pc]
  BY DEF LockoutTypeOK, Goto
<1>2. \A h \in handler : /\ [h EXCEPT !.pc = pc] \in handler
                         /\ [h EXCEPT !.pc = pc].pc = pc
                         /\ [h EXCEPT !.pc = pc].seen = h.seen
  OBVIOUS
<1>3. login[l] \in handler /\ login' = [login EXCEPT ![l] = [login[l] EXCEPT !.pc = pc]]
  BY <1>1
<1> HIDE DEF handler
<1>4. login' \in [Logins -> handler]
  BY <1>1, <1>2, <1>3
<1>5. login'[l].pc = pc /\ login'[l].seen = login[l].seen /\ \A k \in Logins \ {l} : login'[k] = login[k]
  BY <1>1, <1>2, <1>3
<1> QED
  BY <1>4, <1>5 DEF handler

LEMMA CounterInvNext == CounterInv /\ [LockoutNext]_lockoutVars => CounterInv'
<1> SUFFICES ASSUME CounterInv, [LockoutNext]_lockoutVars PROVE CounterInv'
  OBVIOUS
<1> USE LockoutSizes DEF CounterInv
<1>0. LockoutTypeOK /\ Failing \subseteq LoginPc /\ "expire" \in Failing
      /\ \A n : Verdict(n) \in LoginPc \ {"expire"}
  BY DEF LoginPc, Failing, Verdict
<1>1. ASSUME UNCHANGED <<keyVars, login, late>>, LockoutTypeOK' PROVE CounterInv'
  BY <1>1 DEF keyVars
<1>2. ASSUME NEW l \in Logins, NEW pc \in LoginPc \ {"expire"}, Goto(l, pc), UNCHANGED <<keyVars, late>>, LockoutTypeOK'
      PROVE  CounterInv'
  <2>1. \A k \in Logins : login'[k].pc = "expire" => login[k].pc = "expire"
    BY <1>0, <1>2, LoginMove
  <2> QED
    BY <1>2, <2>1 DEF keyVars
<1>3. ASSUME NEW g \in Registrations, FindEmail(g) \/ SaveUser(g) PROVE CounterInv'
  <2>1. LockoutTypeOK'
    BY <1>0, <1>3 DEF LockoutTypeOK, FindEmail, SaveUser, keyVars
  <2> QED
    BY <1>1, <1>3, <2>1 DEF FindEmail, SaveUser, lockoutHistory
<1>4. ASSUME NEW l \in Logins, IsLoginLocked(l) \/ FindUser(l) \/ ComparePassword(l) \/ LoginStops(l) PROVE CounterInv'
  <2>1. PICK pc \in LoginPc \ {"expire"} : Goto(l, pc)
    BY <1>4 DEF IsLoginLocked, FindUser, ComparePassword, LoginStops, LoginPc, Failing
  <2>2. UNCHANGED <<registered, keyVars, registration, late>> /\ guesses' \subseteq Logins
    BY <1>0, <1>4 DEF IsLoginLocked, FindUser, ComparePassword, LoginStops, lockoutHistory, LockoutTypeOK
  <2>3. LockoutTypeOK'
    BY <1>0, <2>1, <2>2, LoginMove DEF LockoutTypeOK, keyVars
  <2> QED
    BY <1>2, <2>1, <2>2, <2>3
<1>5. ASSUME NEW l \in Logins, SetLock(l) PROVE CounterInv'
  <2>1. Goto(l, "drop") /\ lockTtl' = Lockout /\ UNCHANGED <<registered, counter, registration, counted, guesses, late>>
    BY <1>5 DEF SetLock, lockoutHistory
  <2>2. "drop" \in LoginPc \ {"expire"}
    BY DEF LoginPc, Failing
  <2>3. \A k \in Logins : login'[k].pc = "expire" => login[k].pc = "expire"
    BY <1>0, <2>1, <2>2, LoginMove
  <2>4. LockoutTypeOK'
    BY <1>0, <2>1, <2>2, LoginMove DEF LockoutTypeOK
  <2> QED
    BY <2>1, <2>3, <2>4
<1>6. ASSUME NEW l \in Logins, ClearLock(l) PROVE CounterInv'
  <2>1. Goto(l, "ok") /\ lockTtl' = 0 /\ guesses' = {} /\ UNCHANGED <<registered, counter, registration, counted, late>>
    BY <1>6 DEF ClearLock
  <2>2. "ok" \in LoginPc \ {"expire"}
    BY DEF LoginPc
  <2>3. \A k \in Logins : login'[k].pc = "expire" => login[k].pc = "expire"
    BY <1>0, <2>1, <2>2, LoginMove
  <2>4. LockoutTypeOK'
    BY <1>0, <2>1, <2>2, LoginMove DEF LockoutTypeOK
  <2> QED
    BY <2>1, <2>3, <2>4
<1>7. ASSUME NEW l \in Logins, DropCounter(l) \/ ClearCounter(l) PROVE CounterInv'
  <2>1. PICK pc \in LoginPc : Goto(l, pc)
    BY <1>7 DEF DropCounter, ClearCounter, LoginPc
  <2>2. /\ counter' = NoCounter /\ counted' = [k \in {} |-> 0] /\ guesses' \in {guesses, {}}
        /\ UNCHANGED <<registered, lockTtl, registration, late>>
    BY <1>7 DEF DropCounter, ClearCounter, lockoutHistory
  <2>3. DOMAIN counted' = {} /\ counter'.count = 0 /\ counter'.ttl = 0 /\ counter' \in [count : Nat, ttl : 0..Forever]
    BY <2>2 DEF NoCounter
  <2>4. LockoutTypeOK'
    BY <1>0, <2>1, <2>2, <2>3, LoginMove DEF LockoutTypeOK
  <2> QED
    BY <2>2, <2>3, <2>4
<1>8. ASSUME NEW l \in Logins, Increment(l) PROVE CounterInv'
  <2> DEFINE n == counter.count + 1
             h == [pc |-> IF FirstOf(n) THEN "expire" ELSE Verdict(n), seen |-> n]
  <2>1. /\ counter' = [count |-> n, ttl |-> IF counter.count = 0 THEN Forever ELSE counter.ttl]
        /\ login' = [login EXCEPT ![l] = h]
        /\ counted' = [k \in DOMAIN counted \cup {l} |-> IF k = l THEN 0 ELSE counted[k]]
        /\ UNCHANGED <<registered, lockTtl, registration, guesses, late>>
    BY <1>8 DEF Increment, lockoutHistory
  <2>2. counter.count \in Nat /\ counter.ttl \in 0..Forever /\ n \in Nat \ {0} /\ h \in [pc : LoginPc, seen : Nat]
    BY <1>0 DEF LockoutTypeOK
  <2>3. h.pc = "expire" => counter.count = 0
    BY <1>0, <2>2 DEF FirstOf
  <2> HIDE DEF h
  <2>4. LockoutTypeOK'
    BY <1>0, <2>1, <2>2 DEF LockoutTypeOK
  <2>5. /\ DOMAIN counted' = DOMAIN counted \cup {l} /\ counted'[l] = 0
        /\ \A k \in DOMAIN counted \ {l} : counted'[k] = counted[k]
    BY <2>1
  <2>6. /\ counter'.count = n /\ counter'.ttl = IF counter.count = 0 THEN Forever ELSE counter.ttl
    BY <2>1
  <2>7. late' \/ \A k \in Logins : login'[k].pc = "expire" => \A j \in DOMAIN counted' : counted'[j] = 0
    BY <1>0, <2>1, <2>2, <2>3, <2>5 DEF LockoutTypeOK
  <2>8. late' \/ counter'.ttl = Forever \/ \A k \in DOMAIN counted' : counted'[k] + counter'.ttl <= Lockout
    BY <2>1, <2>2, <2>5, <2>6
  <2> QED
    BY <2>2, <2>4, <2>5, <2>6, <2>7, <2>8
<1>9. ASSUME NEW l \in Logins, SetExpiry(l) PROVE CounterInv'
  <2>1. /\ login[l].pc = "expire" /\ Goto(l, Verdict(login[l].seen))
        /\ counter' = IF counter.count = 0 THEN counter ELSE [counter EXCEPT !.ttl = Lockout]
        /\ UNCHANGED <<registered, lockTtl, registration, counted, guesses, late>>
    BY <1>9 DEF SetExpiry, lockoutHistory
  <2>2. counter' \in [count : Nat, ttl : 0..Forever] /\ counter'.count = counter.count
        /\ counter'.ttl = IF counter.count = 0 THEN counter.ttl ELSE Lockout
    BY <1>0, <2>1 DEF LockoutTypeOK
  <2>3. \A k \in Logins : login'[k].pc = "expire" => login[k].pc = "expire"
    BY <1>0, <2>1, LoginMove
  <2>4. LockoutTypeOK'
    BY <1>0, <2>1, <2>2, LoginMove DEF LockoutTypeOK
  <2> QED
    BY <2>1, <2>2, <2>3, <2>4
<1>10. CASE LockoutTick
  <2> DEFINE gone == KeyRunsOut(counter.ttl)
  <2>1. /\ counter' = IF gone THEN NoCounter ELSE [counter EXCEPT !.ttl = Aged(counter.ttl)]
        /\ counted' = IF gone THEN [k \in {} |-> 0]
                      ELSE [k \in DOMAIN counted |-> IF counted[k] > Lockout THEN counted[k] ELSE counted[k] + 1]
        /\ guesses' \in {guesses, {}} /\ lockTtl' = Aged(lockTtl)
        /\ late' = (late \/ \E l \in Logins : login[l].pc \in Failing)
        /\ UNCHANGED <<registered, login, registration>>
    BY <1>10 DEF LockoutTick
  <2>2. counter \in [count : Nat, ttl : 0..Forever] /\ lockTtl \in 0..Lockout
    BY <1>0 DEF LockoutTypeOK
  <2>3. lockTtl' \in 0..Lockout
    BY <2>1, <2>2 DEF Aged
  <2>4. late' \/ \A l \in Logins : login'[l].pc # "expire"
    BY <1>0, <2>1
  <2>5. CASE gone
    <3>1. counter'.count = 0 /\ counter'.ttl = 0 /\ counter' \in [count : Nat, ttl : 0..Forever] /\ DOMAIN counted' = {}
      BY <2>1, <2>5 DEF NoCounter
    <3>2. LockoutTypeOK'
      BY <1>0, <2>1, <2>3, <3>1 DEF LockoutTypeOK
    <3> QED
      BY <2>1, <2>4, <3>1, <3>2
  <2>6. CASE ~gone
    <3>1. counter'.count = counter.count /\ counter'.ttl = Aged(counter.ttl) /\ counter' \in [count : Nat, ttl : 0..Forever]
      BY <2>1, <2>2, <2>6 DEF Aged
    <3>2. /\ DOMAIN counted' = DOMAIN counted
          /\ \A k \in DOMAIN counted : counted'[k] = IF counted[k] > Lockout THEN counted[k] ELSE counted[k] + 1
      BY <2>1, <2>6
    <3>3. LockoutTypeOK'
      BY <1>0, <2>1, <2>3, <3>1, <3>2 DEF LockoutTypeOK
    <3>4. counter.count > 0 => counter'.ttl \in 1..Forever
      BY <2>2, <2>6, <3>1 DEF Aged, KeyRunsOut
    <3>5. late' \/ counter'.ttl = Forever \/ \A k \in DOMAIN counted' : counted'[k] + counter'.ttl <= Lockout
      <4>1. CASE counter.count = 0
        BY <3>2, <4>1
      <4>2. CASE counter.ttl = Forever
        BY <3>1, <4>2 DEF Aged
      <4>3. CASE counter.ttl \in 2..Lockout
        <5>1. counter'.ttl = counter.ttl - 1
          BY <3>1, <4>3 DEF Aged
        <5>2. ASSUME ~late', NEW k \in DOMAIN counted
              PROVE  counted'[k] + counter'.ttl <= Lockout
          <6>0. ~late
            BY <2>1, <5>2, Zenon
          <6>1. ~late /\ counted[k] \in Nat /\ counter.ttl # Forever
            BY <4>3, <6>0
          <6>2. counted[k] + counter.ttl <= Lockout
            BY <6>1
          <6>3. counted'[k] = counted[k] + 1
            BY <3>2, <4>3, <6>1, <6>2
          <6> QED
            BY <4>3, <5>1, <6>1, <6>2, <6>3
        <5> QED
          BY <3>2, <5>2
      <4>4. counter.count = 0 \/ counter.ttl = Forever \/ counter.ttl \in 2..Lockout
        BY <2>2, <2>6 DEF KeyRunsOut
      <4> QED
        BY <4>1, <4>2, <4>3, <4>4
    <3>6. counter.count = 0 => counter'.ttl = 0
      BY <3>1 DEF Aged
    <3>7. \A k \in DOMAIN counted' : counted'[k] \in Nat
      BY <3>2
    <3>8. late' \/ \A l \in Logins : login'[l].pc = "expire" => \A k \in DOMAIN counted' : counted'[k] = 0
      BY <2>4
    <3> QED
      BY <3>1, <3>2, <3>3, <3>4, <3>5, <3>6, <3>7, <3>8
  <2> QED
    BY <2>5, <2>6
<1>11. CASE UNCHANGED lockoutVars
  BY <1>0, <1>1, <1>11 DEF lockoutVars, keyVars, LockoutTypeOK
<1> QED
  BY <1>3, <1>4, <1>5, <1>6, <1>7, <1>8, <1>9, <1>10, <1>11 DEF LockoutNext

LEMMA CounterForgets == CounterInv => FailuresForgotten
<1> SUFFICES ASSUME CounterInv, ~late, NEW l \in DOMAIN counted, counter.ttl # Forever
             PROVE  counted[l] < Lockout
  BY DEF FailuresForgotten
<1>1. counter.count \in Nat \ {0} /\ counter.ttl \in 1..Forever
  BY DEF CounterInv, LockoutTypeOK
<1> QED
  BY <1>1, LockoutSizes DEF CounterInv

\* No success cleared the keys a failure was writing, no login stopped, no tick passed in one.
Calm == ~crossed /\ ~stopped /\ ~late

\* Logins whose wrong guess is not in the counter yet, and logins that are to lock the account.
Unshielded == {l \in Logins : login[l].pc = "incr"}
Locking(l) ==
    \/ login[l].pc \in {"lock", "drop"}
    \/ login[l].pc = "expire" /\ login[l].seen >= MaxFailedLogins

\* While all is calm an open account has every wrong guess in the counter or about to be, and
\* a counter at its limit has a login that locks the account.
GuessInv ==
    Calm =>
        /\ \A l \in Logins : login[l].pc = "drop" => lockTtl > 0
        /\ counter.count >= MaxFailedLogins => \E l \in Logins : Locking(l)
        /\ lockTtl > 0 \/ Cardinality(guesses) <= counter.count + Cardinality(Unshielded)

LEMMA GuessSizes ==
  ASSUME LockoutTypeOK
  PROVE  /\ IsFiniteSet(guesses) /\ Cardinality(guesses) \in Nat
         /\ IsFiniteSet(Unshielded) /\ Cardinality(Unshielded) \in Nat
         /\ Cardinality({}) = 0
<1>1. guesses \in SUBSET Logins /\ Unshielded \in SUBSET Logins /\ IsFiniteSet(Logins)
  BY LockoutAssumption DEF LockoutTypeOK, Unshielded
<1>2. IsFiniteSet(guesses) /\ IsFiniteSet(Unshielded)
  BY <1>1, FS_Subset
<1> QED
  BY <1>2, FS_CardinalityType, FS_EmptySet

LEMMA GuessInvInit == LockoutInit => GuessInv
<1> SUFFICES ASSUME LockoutInit PROVE GuessInv
  OBVIOUS
<1>1. LockoutTypeOK /\ counter.count = 0 /\ guesses = {} /\ \A l \in Logins : login[l].pc = "new"
  BY CounterInvInit DEF CounterInv, LockoutInit, NoCounter
<1> QED
  BY <1>1, GuessSizes, LockoutSizes DEF GuessInv

\* What disturbed the count stays on record.
LEMMA CalmBefore == [LockoutNext]_lockoutVars /\ Calm' => Calm
<1> SUFFICES ASSUME [LockoutNext]_lockoutVars PROVE Calm' => Calm
  OBVIOUS
<1>1. ASSUME UNCHANGED <<late, crossed, stopped>> PROVE Calm' => Calm
  BY <1>1 DEF Calm
<1>2. ASSUME NEW l \in Logins, ClearCounter(l) \/ ClearLock(l) PROVE Calm' => Calm
  BY <1>2, Zenon DEF ClearCounter, ClearLock, Calm
<1>3. ASSUME NEW l \in Logins, LoginStops(l) PROVE Calm' => Calm
  BY <1>3, Zenon DEF LoginStops, Calm
<1>4. CASE LockoutTick
  BY <1>4, Zenon DEF LockoutTick, Calm
<1> QED
  BY <1>1, <1>2, <1>3, <1>4 DEF LockoutNext, FindEmail, SaveUser, IsLoginLocked, FindUser, ComparePassword,
     Increment, SetExpiry, SetLock, DropCounter, lockoutHistory, lockoutVars

\* A step of a login that is neither a guess nor its count.
LEMMA GuessInvKept ==
  ASSUME LockoutTypeOK, GuessInv, Calm' => Calm, NEW l \in Logins,
         login[l].pc # "incr", login'[l].pc \notin {"incr", "drop"}, Locking(l) => Locking(l)',
         \A k \in Logins \ {l} : login'[k] = login[k],
         counter'.count = counter.count, UNCHANGED <<lockTtl, guesses>>
  PROVE  GuessInv'
<1>1. Unshielded' = Unshielded
  BY DEF Unshielded
<1>2. \A k \in Logins : Locking(k) => Locking(k)'
  BY DEF Locking
<1> QED
  BY <1>1, <1>2 DEF GuessInv

LEMMA GuessInvNext == CounterInv /\ GuessInv /\ [LockoutNext]_lockoutVars => GuessInv'
<1> SUFFICES ASSUME CounterInv, GuessInv, [LockoutNext]_lockoutVars PROVE GuessInv'
  OBVIOUS
<1>0. LockoutTypeOK /\ (Calm' => Calm) /\ counter.count \in Nat /\ lockTtl \in 0..Lockout
  BY CalmBefore DEF CounterInv, LockoutTypeOK
<1>1. ASSUME UNCHANGED <<login, counter, lockTtl, guesses>> PROVE GuessInv'
  BY <1>0, <1>1 DEF GuessInv, Unshielded, Locking
<1>2. ASSUME NEW g \in Registrations, FindEmail(g) \/ SaveUser(g) PROVE GuessInv'
  BY <1>1, <1>2 DEF FindEmail, SaveUser, keyVars
<1>3. ASSUME NEW l \in Logins, NEW pc \in LoginPc \ {"incr", "drop"}, Goto(l, pc), login[l].pc # "incr", ~Locking(l),
             UNCHANGED <<counter, lockTtl, guesses>>
      PROVE  GuessInv'
  BY <1>0, <1>3, LoginMove, GuessInvKept
<1>4. ASSUME NEW l \in Logins, NEW pc \in LoginPc, Goto(l, pc), pc = "incr", login[l].pc \in {"find", "compare"},
             guesses' = guesses \cup {l}, UNCHANGED <<counter, lockTtl>>
      PROVE  GuessInv'
  <2>1. login'[l].pc = "incr" /\ \A k \in Logins \ {l} : login'[k] = login[k]
    BY <1>0, <1>4, LoginMove
  <2>2. Unshielded' = Unshielded \cup {l} /\ l \notin Unshielded
    BY <1>4, <2>1 DEF Unshielded
  <2>3. Cardinality(Unshielded') = Cardinality(Unshielded) + 1
    BY <1>0, <2>2, GuessSizes, FS_AddElement
  <2>4. Cardinality(guesses') \in {Cardinality(guesses), Cardinality(guesses) + 1}
    <3>1. IsFiniteSet(guesses)
      BY <1>0, GuessSizes
    <3>2. Cardinality(guesses \cup {l}) = IF l \in guesses THEN Cardinality(guesses) ELSE Cardinality(guesses) + 1
      BY <3>1, FS_AddElement
    <3> QED
      BY <1>4, <3>2
  <2>5. Cardinality(guesses') \in Nat /\ Cardinality(guesses') <= Cardinality(guesses) + 1
    BY <1>0, <2>4, GuessSizes
  <2>6. \A k \in Logins : Locking(k) => Locking(k)'
    BY <1>4, <2>1 DEF Locking
  <2>7. lockTtl > 0 \/ Cardinality(guesses) <= counter.count + Cardinality(Unshielded)
             => lockTtl' > 0 \/ Cardinality(guesses') <= counter'.count + Cardinality(Unshielded')
    BY <1>0, <1>4, <2>3, <2>5, GuessSizes
  <2> QED
    BY <1>0, <1>4, <2>1, <2>6, <2>7 DEF GuessInv
<1>5. ASSUME NEW l \in Logins, IsLoginLocked(l) PROVE GuessInv'
  <2>1. PICK pc \in {"locked", "find"} : Goto(l, pc)
    BY <1>5 DEF IsLoginLocked
  <2> QED
    BY <1>3, <1>5, <2>1 DEF IsLoginLocked, Locking, LoginPc, keyVars
<1>6. ASSUME NEW l \in Logins, FindUser(l) PROVE GuessInv'
  <2>1. CASE registered
    BY <1>3, <1>6, <2>1 DEF FindUser, Locking, LoginPc, keyVars
  <2>2. CASE ~registered
    BY <1>4, <1>6, <2>2 DEF FindUser, LoginPc, Failing, keyVars
  <2> QED
    BY <2>1, <2>2
<1>7. ASSUME NEW l \in Logins, ComparePassword(l) PROVE GuessInv'
  <2>1. CASE Goto(l, "clearCounter") /\ UNCHANGED guesses
    BY <1>3, <1>7, <2>1 DEF ComparePassword, Locking, LoginPc, keyVars
  <2>2. CASE Goto(l, "incr") /\ guesses' = guesses \cup {l}
    BY <1>4, <1>7, <2>2 DEF ComparePassword, LoginPc, Failing, keyVars
  <2> QED
    BY <1>7, <2>1, <2>2 DEF ComparePassword
<1>8. ASSUME NEW l \in Logins, LoginStops(l) PROVE GuessInv'
  <2>1. ~Calm'
    BY <1>8 DEF LoginStops, Calm
  <2> QED
    BY <2>1 DEF GuessInv
<1>9. ASSUME NEW l \in Logins, Increment(l) PROVE GuessInv'
  <2> DEFINE n == counter.count + 1
             h == [pc |-> IF FirstOf(n) THEN "expire" ELSE Verdict(n), seen |-> n]
  <2>1. counter'.count = n /\ login' = [login EXCEPT ![l] = h] /\ UNCHANGED <<lockTtl, guesses>> /\ login[l].pc = "incr"
    BY <1>9 DEF Increment
  <2>2. h.pc \notin {"incr", "drop"} /\ (n >= MaxFailedLogins => h.pc \in {"expire", "lock"} /\ h.seen >= MaxFailedLogins)
    BY DEF Verdict
  <2> HIDE DEF h
  <2>3. login'[l] = h /\ \A k \in Logins \ {l} : login'[k] = login[k]
    BY <1>0, <2>1 DEF LockoutTypeOK
  <2>4. Unshielded' = Unshielded \ {l} /\ l \in Unshielded
    BY <2>1, <2>2, <2>3 DEF Unshielded
  <2>5. Cardinality(Unshielded') = Cardinality(Unshielded) - 1
    BY <1>0, <2>4, GuessSizes, FS_RemoveElement
  <2>6. counter'.count + Cardinality(Unshielded') = counter.count + Cardinality(Unshielded)
    BY <1>0, <2>1, <2>5, GuessSizes
  <2>7. counter'.count >= MaxFailedLogins => Locking(l)'
    BY <2>1, <2>2, <2>3 DEF Locking
  <2> QED
    BY <1>0, <2>1, <2>2, <2>3, <2>6, <2>7 DEF GuessInv
<1>10. ASSUME NEW l \in Logins, SetExpiry(l) PROVE GuessInv'
  <2>1. /\ login[l].pc = "expire" /\ Goto(l, Verdict(login[l].seen)) /\ UNCHANGED <<lockTtl, guesses>>
        /\ counter'.count = counter.count
    BY <1>0, <1>10 DEF SetExpiry, LockoutTypeOK
  <2>2. Verdict(login[l].seen) \in LoginPc \ {"incr", "drop"}
    BY DEF Verdict, LoginPc, Failing
  <2>3. /\ login'[l].pc = Verdict(login[l].seen) /\ \A k \in Logins \ {l} : login'[k] = login[k]
    BY <1>0, <2>1, <2>2, LoginMove
  <2>4. Locking(l) => Locking(l)'
    BY <2>1, <2>3 DEF Locking, Verdict
  <2> QED
    BY <1>0, <2>1, <2>2, <2>3, <2>4, GuessInvKept
<1>11. ASSUME NEW l \in Logins, SetLock(l) PROVE GuessInv'
  <2>1. lockTtl' > 0 /\ UNCHANGED counter
    BY <1>11, LockoutSizes DEF SetLock
  <2>2. login'[l].pc = "drop" /\ \A k \in Logins \ {l} : login'[k] = login[k]
    BY <1>0, <1>11, LoginMove DEF SetLock, LoginPc, Failing
  <2> QED
    BY <2>1, <2>2 DEF GuessInv, Locking
<1>12. ASSUME NEW l \in Logins, DropCounter(l) PROVE GuessInv'
  <2>1. counter'.count = 0 /\ UNCHANGED lockTtl /\ login[l].pc = "drop"
    BY <1>12 DEF DropCounter, NoCounter
  <2>2. login'[l].pc = "invalid" /\ \A k \in Logins \ {l} : login'[k] = login[k]
    BY <1>0, <1>12, LoginMove DEF DropCounter, LoginPc
  <2> QED
    BY <1>0, <2>1, <2>2, LockoutSizes DEF GuessInv
<1>13. ASSUME NEW l \in Logins, ClearCounter(l) PROVE GuessInv'
  <2>1. counter'.count = 0 /\ UNCHANGED lockTtl /\ guesses' = {}
    BY <1>13 DEF ClearCounter, NoCounter
  <2>2. login'[l].pc = "clearLock" /\ \A k \in Logins \ {l} : login'[k] = login[k]
    BY <1>0, <1>13, LoginMove DEF ClearCounter, LoginPc
  <2>3. Unshielded' \in SUBSET Unshielded
    BY <2>2 DEF Unshielded
  <2>4. Cardinality(Unshielded') \in Nat /\ Cardinality(guesses') = 0
    BY <1>0, <2>1, <2>3, GuessSizes, FS_Subset, FS_CardinalityType
  <2> QED
    BY <1>0, <2>1, <2>2, <2>4, LockoutSizes DEF GuessInv
<1>14. ASSUME \A l \in Logins : Calm' => login[l].pc \notin Failing /\ login'[l].pc \notin Failing,
              counter'.count \in {counter.count, 0},
              lockTtl' > 0 \/ guesses' = {} \/ (UNCHANGED <<guesses, login>> /\ counter'.count = counter.count /\ lockTtl = 0)
       PROVE  GuessInv'
  <2> SUFFICES ASSUME Calm' PROVE GuessInv'
    BY DEF GuessInv
  <2>1. \A l \in Logins : ~Locking(l) /\ login'[l].pc # "drop" /\ login'[l].pc # "incr"
    BY <1>14 DEF Locking, Failing
  <2>2. Unshielded' = {}
    BY <2>1 DEF Unshielded
  <2>3. ~(counter'.count >= MaxFailedLogins)
    BY <1>0, <1>14, <2>1, LockoutSizes DEF GuessInv
  <2>4. lockTtl' > 0 \/ Cardinality(guesses') <= counter'.count + Cardinality(Unshielded')
    <3>1. CASE guesses' = {}
      BY <1>0, <1>14, <2>2, <3>1, GuessSizes
    <3>2. CASE UNCHANGED <<guesses, login>> /\ counter'.count = counter.count /\ lockTtl = 0
      BY <1>0, <3>2 DEF GuessInv, Unshielded
    <3> QED
      BY <1>14, <3>1, <3>2
  <2> QED
    BY <2>1, <2>3, <2>4 DEF GuessInv
<1>15. ASSUME NEW l \in Logins, ClearLock(l) PROVE GuessInv'
  <2>1. UNCHANGED counter /\ guesses' = {}
    BY <1>15 DEF ClearLock
  <2>2. login'[l].pc = "ok" /\ \A k \in Logins \ {l} : login'[k] = login[k]
    BY <1>0, <1>15, LoginMove DEF ClearLock, LoginPc
  <2>3. Calm' => \A k \in Logins : login[k].pc \notin Failing
    BY <1>15, Zenon DEF ClearLock, Calm
  <2>4. \A k \in Logins : Calm' => login[k].pc \notin Failing /\ login'[k].pc \notin Failing
    BY <2>2, <2>3 DEF Failing
  <2> QED
    BY <1>14, <2>1, <2>4
<1>16. CASE LockoutTick
  <2>1. Calm' => \A k \in Logins : login[k].pc \notin Failing
    BY <1>16, Zenon DEF LockoutTick, Calm
  <2>2. UNCHANGED login /\ lockTtl' = Aged(lockTtl)
    BY <1>16 DEF LockoutTick
  <2>3. guesses' = {} \/ (UNCHANGED guesses /\ counter'.count = counter.count /\ ~KeyRunsOut(lockTtl))
    BY <1>0, <1>16 DEF LockoutTick, LockoutTypeOK
  <2>4. counter'.count \in {counter.count, 0}
    BY <1>0, <1>16 DEF LockoutTick, LockoutTypeOK, NoCounter
  <2>5. lockTtl' > 0 \/ guesses' = {} \/ (UNCHANGED guesses /\ counter'.count = counter.count /\ lockTtl = 0)
    BY <1>0, <2>2, <2>3, LockoutSizes DEF Aged, KeyRunsOut
  <2> QED
    BY <1>14, <2>1, <2>2, <2>4, <2>5
<1>17. CASE UNCHANGED lockoutVars
  BY <1>1, <1>17 DEF lockoutVars
<1> QED
  BY <1>2, <1>5, <1>6, <1>7, <1>8, <1>9, <1>10, <1>11, <1>12, <1>13, <1>15, <1>16, <1>17 DEF LockoutNext

LEMMA FewGuesses == CounterInv /\ GuessInv => OpenMeansFewGuesses
<1> SUFFICES ASSUME CounterInv, GuessInv, Calm, ~(lockTtl > 0), \A l \in Logins : login[l].pc \notin Failing
             PROVE  Cardinality(guesses) < MaxFailedLogins
  BY DEF OpenMeansFewGuesses, Calm
<1>1. LockoutTypeOK /\ counter.count \in Nat
  BY DEF CounterInv, LockoutTypeOK
<1>2. Unshielded = {} /\ \A l \in Logins : ~Locking(l)
  BY DEF Unshielded, Locking, Failing
<1>3. Cardinality(guesses) <= counter.count /\ ~(counter.count >= MaxFailedLogins)
  BY <1>1, <1>2, GuessSizes DEF GuessInv
<1> QED
  BY <1>1, <1>3, GuessSizes, LockoutSizes

\* AuthService.login and RedisLoginAttemptStore, for any number of logins side by side, any
\* limit and any lockout time: a failed login is forgotten in time, and an account that is
\* open has had fewer wrong guesses than the limit.
THEOREM LockoutProtects == LockoutSpec => []LockoutHolds
<1>1. CounterInv /\ GuessInv => LockoutHolds
  BY CounterForgets, FewGuesses DEF LockoutHolds
<1> QED
  BY CounterInvInit, CounterInvNext, GuessInvInit, GuessInvNext, <1>1, PTL DEF LockoutSpec

-----------------------------------------------------------------------------
(* The keys of ingested events. *)

USE IngestionAssumption

\* Requests for e that hold a claim or were accepted.
Live(e) == {r \in Requests : req[r].event = e /\ req[r].pc \in {"claimed", "accepted"}}

KeyCount(e) == IF key[e] = Null THEN 0 ELSE 1

\* Every claim needs a key that was not there: it was taken for the first time,
\* ran out, or was given back by a request that is no longer live.
LiveBound == \A e \in EventIds : Cardinality(Live(e)) <= expired[e] + KeyCount(e)

AcceptedRouted == \A r \in Requests : req[r].pc = "accepted" => r \in routed

\* Only a request that got past the interceptor is routed.
RoutedPassed == \A r \in routed : req[r].pc \in {"claimed", "accepted", "failed"}

Passed(r, e) == req[r].event = e /\ req[r].pc \in {"claimed", "accepted", "failed"}

\* A key that is left over was made by a request that failed.
LeftoverFailed == \A e \in leftover : \E r \in Requests : req[r].event = e /\ req[r].pc = "failed"

\* A duplicate follows a request that got past the interceptor.
DuplicateFollows ==
    \A r \in Requests : req[r].pc = "duplicate" =>
        req[r].event \in EventIds /\ \E o \in Requests : Passed(o, req[r].event)

IInv ==
    /\ TypeOK /\ LiveBound /\ AcceptedRouted /\ RoutedPassed
    /\ KeysHaveReason /\ LeftoverFailed /\ DuplicateFollows

LEMMA LiveFinite ==
    ASSUME NEW e
    PROVE  /\ Live(e) \in SUBSET Requests
           /\ IsFiniteSet(Live(e)) /\ Cardinality(Live(e)) \in Nat
<1>1. Live(e) \in SUBSET Requests
  BY DEF Live
<1> QED
  BY <1>1, FS_Subset, FS_CardinalityType

IsLive(j, e) == j.event = e /\ j.pc \in {"claimed", "accepted"}

\* A step of request r changes the live requests by r at most.
LEMMA LiveStep ==
    ASSUME req \in [Requests -> Job], NEW r \in Requests, NEW j,
           req' = [req EXCEPT ![r] = j], NEW e
    PROVE  Cardinality(Live(e))' =
             IF IsLive(j, e) THEN IF IsLive(req[r], e) THEN Cardinality(Live(e)) ELSE Cardinality(Live(e)) + 1
             ELSE IF IsLive(req[r], e) THEN Cardinality(Live(e)) - 1 ELSE Cardinality(Live(e))
<1>1. /\ \A o \in Requests : req'[o] = IF o = r THEN j ELSE req[o]
      /\ r \in Live(e) <=> IsLive(req[r], e)
  BY DEF Live, IsLive
<1>2. CASE IsLive(j, e)
  <2>1. Live(e)' = Live(e) \cup {r}
    BY <1>1, <1>2 DEF Live, IsLive
  <2> QED
    BY <1>1, <1>2, <2>1, LiveFinite, FS_AddElement
<1>3. CASE ~IsLive(j, e)
  <2>1. Live(e)' = Live(e) \ {r}
    BY <1>1, <1>3 DEF Live, IsLive
  <2> QED
    BY <1>1, <1>3, <2>1, LiveFinite, FS_RemoveElement
<1> QED
  BY <1>2, <1>3

LEMMA IInvInit == Init => IInv
<1> SUFFICES ASSUME Init PROVE IInv
  OBVIOUS
<1>1. \A e : Live(e) = {}
  BY DEF Init, New, Live
<1>2. LiveBound
  BY <1>1, FS_EmptySet DEF LiveBound, Init, KeyCount
<1> QED
  BY <1>2 DEF Init, New, IInv, TypeOK, Job, AcceptedRouted, RoutedPassed, KeysHaveReason,
     LeftoverFailed, DuplicateFollows

\* A request comes to an end without a claim, and its key, if it made one, is
\* left over.
LEMMA NoClaim ==
    ASSUME IInv, NEW r \in Requests, req[r].pc = "new",
           NEW j \in Job, req' = [req EXCEPT ![r] = j], j.pc = "failed",
           UNCHANGED <<routed, expired, crashes>>,
           \/ UNCHANGED <<key, leftover>>
           \/ /\ j.event \in EventIds /\ key[j.event] = Null
              /\ key' = [key EXCEPT ![j.event] = r]
              /\ leftover' = leftover \cup {j.event}
    PROVE  IInv'
<1> USE DEF IInv
<1>1. /\ req \in [Requests -> Job] /\ key \in [EventIds -> Requests \cup {Null}]
      /\ expired \in [EventIds -> Nat]
      /\ \A o \in Requests : req'[o] = IF o = r THEN j ELSE req[o]
  BY DEF TypeOK
<1>2. TypeOK'
  BY <1>1 DEF TypeOK
<1>3. \A e \in EventIds : KeyCount(e) <= KeyCount(e)' /\ KeyCount(e) \in Nat /\ KeyCount(e)' \in Nat
  BY <1>1 DEF KeyCount
<1>4. \A e : Cardinality(Live(e))' = Cardinality(Live(e)) /\ Cardinality(Live(e)) \in Nat
  BY <1>1, LiveStep, LiveFinite DEF IsLive
<1>5. LiveBound'
  BY <1>1, <1>3, <1>4 DEF LiveBound
<1>6. AcceptedRouted' /\ RoutedPassed'
  BY <1>1 DEF AcceptedRouted, RoutedPassed, TypeOK
<1>7. KeysHaveReason'
  BY <1>1 DEF KeysHaveReason
<1>8. LeftoverFailed'
  BY <1>1 DEF LeftoverFailed
<1>9. DuplicateFollows'
  BY <1>1 DEF DuplicateFollows, Passed
<1> QED
  BY <1>2, <1>5, <1>6, <1>7, <1>8, <1>9

\* A request with a claim throws: its key is deleted, whoever made it, or stays.
LEMMA ClaimDropped ==
    ASSUME IInv, NEW r \in Requests, req[r].pc = "claimed", Fail(r),
           UNCHANGED <<routed, expired, crashes>>
    PROVE  IInv'
<1> USE DEF IInv
<1> DEFINE j == [req[r] EXCEPT !.pc = "failed"]
           e == req[r].event
<1>1. /\ req \in [Requests -> Job] /\ key \in [EventIds -> Requests \cup {Null}]
      /\ expired \in [EventIds -> Nat] /\ e \in EventIds
  BY DEF TypeOK
<1>2. /\ j \in Job /\ j.pc = "failed" /\ j.event = e
      /\ req' = [req EXCEPT ![r] = j]
  BY <1>1 DEF Fail, Job
<1>3. \/ key' = [key EXCEPT ![e] = Null] /\ UNCHANGED leftover
      \/ UNCHANGED key /\ leftover' = leftover \cup {e}
  BY DEF Fail, Release
<1>4. IsLive(req[r], e) /\ \A c : c # e => ~IsLive(req[r], c)
  BY DEF IsLive
<1>p. PICK x : x = e
  OBVIOUS
<1>q. PICK k : k = j
  OBVIOUS
<1> HIDE DEF j, e
<1>5. \A o \in Requests : req'[o] = IF o = r THEN k ELSE req[o]
  BY <1>1, <1>2, <1>q
<1>6. TypeOK'
  BY <1>1, <1>2, <1>3, <1>5, <1>q DEF TypeOK
<1>7. \A c \in EventIds :
          /\ Cardinality(Live(c)) \in Nat
          /\ Cardinality(Live(c))' = IF c = x THEN Cardinality(Live(c)) - 1 ELSE Cardinality(Live(c))
  <2>1. req' = [req EXCEPT ![r] = k] /\ \A c : ~IsLive(k, c)
    BY <1>2, <1>q DEF IsLive
  <2> QED
    BY <1>1, <1>4, <1>p, <2>1, LiveStep, LiveFinite
<1>8. \A c \in EventIds :
          /\ KeyCount(c) \in Nat /\ KeyCount(c)' \in Nat /\ KeyCount(c) <= 1
          /\ c # x => KeyCount(c)' = KeyCount(c)
  BY <1>1, <1>3, <1>p DEF KeyCount
<1>9. LiveBound'
  BY <1>1, <1>7, <1>8 DEF LiveBound
<1>10. AcceptedRouted' /\ RoutedPassed'
  BY <1>2, <1>5, <1>q DEF AcceptedRouted, RoutedPassed, TypeOK
<1>11. KeysHaveReason'
  BY <1>1, <1>2, <1>3, <1>5, <1>p, <1>q DEF KeysHaveReason, e
<1>12. LeftoverFailed'
  BY <1>1, <1>2, <1>3, <1>5, <1>q DEF LeftoverFailed
<1>13. DuplicateFollows'
  BY <1>2, <1>5, <1>q DEF DuplicateFollows, Passed, e
<1> QED
  BY <1>6, <1>9, <1>10, <1>11, <1>12, <1>13

LEMMA IInvNext == IInv /\ [Next]_vars => IInv'
<1> SUFFICES ASSUME IInv, [Next]_vars PROVE IInv'
  OBVIOUS
<1> USE DEF IInv
<1>1. /\ req \in [Requests -> Job] /\ key \in [EventIds -> Requests \cup {Null}]
      /\ expired \in [EventIds -> Nat]
  BY DEF TypeOK
<1>2. \A e \in EventIds : KeyCount(e) \in Nat
  BY DEF KeyCount
<1>3. ASSUME NEW r \in Requests, SkipKey(r) PROVE IInv'
  <2>1. [req[r] EXCEPT !.pc = "failed"] \in Job
    BY <1>1 DEF Job
  <2> QED
    BY <1>1, <1>3, <2>1, NoClaim DEF SkipKey, Job
<1>4. ASSUME NEW r \in Requests, Claim(r) PROVE IInv'
  <2>1. PICK e \in EventIds, j \in Job :
          /\ key[e] = Null /\ key' = [key EXCEPT ![e] = r]
          /\ j.pc = "claimed" /\ j.event = e /\ req' = [req EXCEPT ![r] = j]
    BY <1>4 DEF Claim, Job
  <2>2. req[r].pc = "new" /\ UNCHANGED <<routed, expired, leftover, crashes>>
    BY <1>4 DEF Claim
  <2>3. \A o \in Requests : req'[o] = IF o = r THEN j ELSE req[o]
    BY <1>1, <2>1
  <2>4. TypeOK'
    BY <1>1, <2>1, <2>2, <2>3 DEF TypeOK
  <2>5. \A c : /\ Cardinality(Live(c)) \in Nat
               /\ Cardinality(Live(c))' = IF c = e THEN Cardinality(Live(c)) + 1 ELSE Cardinality(Live(c))
    BY <1>1, <2>1, <2>2, LiveStep, LiveFinite DEF IsLive
  <2>6. \A c \in EventIds : KeyCount(c)' = IF c = e THEN KeyCount(c) + 1 ELSE KeyCount(c)
    BY <1>1, <2>1 DEF KeyCount
  <2>7. LiveBound'
    BY <1>1, <1>2, <2>2, <2>5, <2>6 DEF LiveBound
  <2>8. AcceptedRouted' /\ RoutedPassed'
    BY <2>1, <2>2, <2>3 DEF AcceptedRouted, RoutedPassed, TypeOK
  <2>9. KeysHaveReason'
    BY <1>1, <2>1, <2>2, <2>3 DEF KeysHaveReason
  <2>10. LeftoverFailed'
    BY <2>2, <2>3 DEF LeftoverFailed
  <2>11. DuplicateFollows'
    BY <2>1, <2>2, <2>3 DEF DuplicateFollows, Passed
  <2> QED
    BY <2>4, <2>7, <2>8, <2>9, <2>10, <2>11
<1>5. ASSUME NEW r \in Requests, Duplicate(r) PROVE IInv'
  <2>1. PICK e \in EventIds, j \in Job :
          key[e] # Null /\ j.pc = "duplicate" /\ j.event = e /\ req' = [req EXCEPT ![r] = j]
    BY <1>5 DEF Duplicate, Job
  <2>2. req[r].pc = "new" /\ UNCHANGED <<key, routed, expired, leftover, crashes>>
    BY <1>5 DEF Duplicate
  <2>3. \A o \in Requests : req'[o] = IF o = r THEN j ELSE req[o]
    BY <1>1, <2>1
  <2>4. TypeOK'
    BY <1>1, <2>1, <2>2, <2>3 DEF TypeOK
  <2>5. \A c : Cardinality(Live(c))' = Cardinality(Live(c))
    BY <1>1, <2>1, <2>2, LiveStep DEF IsLive
  <2>6. LiveBound'
    BY <2>2, <2>5 DEF LiveBound, KeyCount
  <2>7. AcceptedRouted' /\ RoutedPassed'
    BY <2>1, <2>2, <2>3 DEF AcceptedRouted, RoutedPassed, TypeOK
  <2>8. KeysHaveReason'
    BY <1>1, <2>2, <2>3 DEF KeysHaveReason
  <2>9. LeftoverFailed'
    BY <2>2, <2>3 DEF LeftoverFailed
  <2>10. \E o \in Requests : Passed(o, e)
    BY <1>1, <2>1 DEF KeysHaveReason, LeftoverFailed, Passed
  <2>11. \A c : \A o \in Requests : Passed(o, c) => Passed(o, c)'
    BY <2>2, <2>3 DEF Passed
  <2>12. DuplicateFollows'
    <3> SUFFICES ASSUME NEW o \in Requests, req'[o].pc = "duplicate"
                 PROVE  /\ req'[o].event \in EventIds
                        /\ \E q \in Requests : /\ req'[q].event = req'[o].event
                                               /\ req'[q].pc \in {"claimed", "accepted", "failed"}
      BY DEF DuplicateFollows, Passed
    <3> PICK c : c = req'[o].event
      OBVIOUS
    <3>1. c \in EventIds /\ \E q \in Requests : Passed(q, c)
      BY <2>1, <2>3, <2>10 DEF DuplicateFollows
    <3>2. \E q \in Requests : Passed(q, c)'
      BY <2>11, <3>1
    <3> QED
      BY <3>1, <3>2 DEF Passed
  <2> QED
    BY <2>4, <2>6, <2>7, <2>8, <2>9, <2>12
<1>6. ASSUME NEW r \in Requests, ClaimFails(r) PROVE IInv'
  <2>1. PICK e \in EventIds, j \in Job :
          /\ j.pc = "failed" /\ j.event = e /\ req' = [req EXCEPT ![r] = j]
          /\ \/ UNCHANGED <<key, leftover>>
             \/ /\ key[e] = Null
                /\ key' = [key EXCEPT ![e] = r]
                /\ leftover' = leftover \cup {e}
    BY <1>6 DEF ClaimFails, Job
  <2>2. req[r].pc = "new" /\ UNCHANGED <<routed, expired, crashes>>
    BY <1>6 DEF ClaimFails
  <2> QED
    BY <2>1, <2>2, NoClaim
<1>7. ASSUME NEW r \in Requests, Refuse(r) \/ PublishFails(r) PROVE IInv'
  BY <1>7, ClaimDropped DEF Refuse, PublishFails
<1>8. ASSUME NEW r \in Requests, Route(r) PROVE IInv'
  <2>1. req[r].pc = "claimed" /\ routed' = routed \cup {r}
        /\ UNCHANGED <<key, req, expired, leftover, crashes>>
    BY <1>8 DEF Route
  <2> QED
    BY <2>1 DEF TypeOK, LiveBound, Live, KeyCount, AcceptedRouted, RoutedPassed, KeysHaveReason,
       LeftoverFailed, DuplicateFollows, Passed
<1>9. ASSUME NEW r \in Requests, Accept(r) PROVE IInv'
  <2>1. /\ req[r].pc = "claimed" /\ r \in routed
        /\ UNCHANGED <<key, routed, expired, leftover, crashes>>
    BY <1>9 DEF Accept
  <2>2. PICK j \in Job : /\ req' = [req EXCEPT ![r] = j]
                         /\ j.pc = "accepted" /\ j.event = req[r].event
    <3>1. [req[r] EXCEPT !.pc = "accepted"] \in Job
      BY <1>1 DEF Job
    <3> QED
      BY <1>1, <1>9, <3>1 DEF Accept, Job
  <2>3. \A o \in Requests : req'[o] = IF o = r THEN j ELSE req[o]
    BY <1>1, <2>2
  <2>4. TypeOK'
    BY <1>1, <2>1, <2>2, <2>3 DEF TypeOK
  <2>5. \A c : Cardinality(Live(c))' = Cardinality(Live(c))
    BY <1>1, <2>1, <2>2, LiveStep, ZenonT(60) DEF IsLive
  <2>6. LiveBound'
    BY <2>1, <2>5 DEF LiveBound, KeyCount
  <2>7. AcceptedRouted' /\ RoutedPassed'
    BY <2>1, <2>2, <2>3 DEF AcceptedRouted, RoutedPassed, TypeOK
  <2>8. KeysHaveReason'
    BY <1>1, <2>1, <2>2, <2>3 DEF KeysHaveReason
  <2>9. LeftoverFailed' /\ DuplicateFollows'
    BY <2>1, <2>2, <2>3 DEF LeftoverFailed, DuplicateFollows, Passed
  <2> QED
    BY <2>4, <2>6, <2>7, <2>8, <2>9
<1>10. ASSUME NEW e \in EventIds, Expire(e) PROVE IInv'
  <2>1. /\ key[e] # Null /\ key' = [key EXCEPT ![e] = Null]
        /\ expired' = [expired EXCEPT ![e] = @ + 1]
        /\ UNCHANGED <<req, routed, leftover, crashes>>
    BY <1>10 DEF Expire
  <2>2. TypeOK'
    BY <1>1, <2>1 DEF TypeOK
  <2>3. \A c \in EventIds : KeyCount(c)' + expired'[c] = KeyCount(c) + expired[c]
    BY <1>1, <2>1 DEF KeyCount
  <2>4. \A c : Cardinality(Live(c))' = Cardinality(Live(c))
    BY <2>1 DEF Live
  <2>5. LiveBound'
    <3> SUFFICES ASSUME NEW c \in EventIds
                 PROVE  Cardinality(Live(c))' <= expired'[c] + KeyCount(c)'
      BY DEF LiveBound
    <3>1. /\ KeyCount(c) \in Nat /\ KeyCount(c)' \in Nat
          /\ expired[c] \in Nat /\ expired'[c] \in Nat /\ Cardinality(Live(c)) \in Nat
      BY <1>1, <2>2, LiveFinite DEF KeyCount, TypeOK
    <3>2. Cardinality(Live(c)) <= expired[c] + KeyCount(c)
      BY DEF LiveBound
    <3> QED
      BY <2>3, <2>4, <3>1, <3>2
  <2>6. KeysHaveReason'
    BY <1>1, <2>1 DEF KeysHaveReason
  <2> QED
    BY <2>1, <2>2, <2>5, <2>6 DEF AcceptedRouted, RoutedPassed, LeftoverFailed, DuplicateFollows, Passed
<1>11. CASE Crash
  <2>1. /\ UNCHANGED <<key, routed, expired>> /\ crashes' = crashes + 1
        /\ leftover' = leftover \cup {req[r].event : r \in {o \in Requests : req[o].pc = "claimed"}}
        /\ \A r \in Requests :
              req'[r] = IF req[r].pc = "claimed" THEN [req[r] EXCEPT !.pc = "failed"] ELSE req[r]
    BY <1>11 DEF Crash
  <2>2. \A r \in Requests : /\ req'[r] \in Job /\ req'[r].event = req[r].event
                            /\ req'[r].pc = IF req[r].pc = "claimed" THEN "failed" ELSE req[r].pc
    BY <1>1, <2>1 DEF Job
  <2>3. req' \in [Requests -> Job]
    BY <1>11, <2>2 DEF Crash
  <2>4. \A e : e \in leftover' <=> e \in leftover \/ \E r \in Requests : req[r].pc = "claimed" /\ req[r].event = e
    BY <2>1
  <2>5. leftover' \subseteq EventIds
    BY <2>4 DEF TypeOK
  <2>6. TypeOK'
    BY <1>1, <2>1, <2>2, <2>3, <2>5 DEF TypeOK
  <2>7. \A e : Cardinality(Live(e))' <= Cardinality(Live(e)) /\ Cardinality(Live(e))' \in Nat
    <3> SUFFICES ASSUME NEW e PROVE Cardinality(Live(e))' <= Cardinality(Live(e)) /\ Cardinality(Live(e))' \in Nat
      OBVIOUS
    <3>1. Live(e)' \in SUBSET Live(e)
      BY <2>2 DEF Live
    <3> QED
      BY <3>1, LiveFinite, FS_Subset, FS_CardinalityType
  <2>8. LiveBound'
    BY <1>1, <1>2, <2>1, <2>7, LiveFinite DEF LiveBound, KeyCount
  <2>9. AcceptedRouted' /\ RoutedPassed'
    BY <2>1, <2>2 DEF AcceptedRouted, RoutedPassed, TypeOK
  <2>10. KeysHaveReason'
    BY <1>1, <2>1, <2>2, <2>4 DEF KeysHaveReason
  <2>11. LeftoverFailed'
    BY <2>2, <2>4 DEF LeftoverFailed
  <2>12. DuplicateFollows'
    BY <2>2 DEF DuplicateFollows, Passed
  <2> QED
    BY <2>6, <2>8, <2>9, <2>10, <2>11, <2>12
<1>12. CASE UNCHANGED vars
  BY <1>12 DEF vars, TypeOK, LiveBound, Live, KeyCount, AcceptedRouted, RoutedPassed,
     KeysHaveReason, LeftoverFailed, DuplicateFollows, Passed
<1> QED
  BY <1>3, <1>4, <1>5, <1>6, <1>7, <1>8, <1>9, <1>10, <1>11, <1>12 DEF Next

\* What the invariant says of the answers and of the exchange.
LEMMA IInvBound == IInv => OncePerKey
<1> SUFFICES ASSUME IInv, NEW e \in EventIds
             PROVE  Cardinality(RoutedFor(e)) <= 1 + expired[e] + Cardinality(FailedFor(e))
  BY DEF OncePerKey
<1> USE DEF IInv
<1>1. /\ RoutedFor(e) \in SUBSET Requests /\ FailedFor(e) \in SUBSET Requests
      /\ RoutedFor(e) \subseteq Live(e) \cup FailedFor(e)
  BY DEF RoutedFor, FailedFor, Live, RoutedPassed, TypeOK
<1>2. /\ IsFiniteSet(RoutedFor(e)) /\ IsFiniteSet(FailedFor(e)) /\ IsFiniteSet(Live(e))
  BY <1>1, FS_Subset, LiveFinite
<1>3. /\ IsFiniteSet(Live(e) \cup FailedFor(e))
      /\ Cardinality(Live(e) \cup FailedFor(e)) =
           Cardinality(Live(e)) + Cardinality(FailedFor(e)) - Cardinality(Live(e) \cap FailedFor(e))
      /\ Live(e) \cap FailedFor(e) = {}
  BY <1>2, FS_Union DEF Live, FailedFor
<1>4. Cardinality(RoutedFor(e)) <= Cardinality(Live(e) \cup FailedFor(e))
  BY <1>1, <1>3, FS_Subset
<1>5. Cardinality(Live(e)) <= expired[e] + 1
  BY LiveFinite DEF LiveBound, KeyCount, TypeOK
<1>6. /\ Cardinality(RoutedFor(e)) \in Nat /\ Cardinality(Live(e)) \in Nat
      /\ Cardinality(FailedFor(e)) \in Nat /\ expired[e] \in Nat
  BY <1>2, FS_CardinalityType DEF TypeOK
<1> QED
  BY <1>3, <1>4, <1>5, <1>6, FS_EmptySet

\* An event goes to the exchange again only when its key ran out or when a
\* request failed after the exchange had taken it, for any number of concurrent
\* requests: giving a key back never costs more than the publication it undoes,
\* even when the key was another request's.  (IdempotencyInterceptor.)
THEOREM EventsGoOutOnce == Spec => []OncePerKey
<1> QED
  BY IInvBound, IInvInit, IInvNext, PTL DEF Spec

\* A key without a request that holds it or has published is left over from a
\* restart or from a Redis command that failed.
THEOREM KeysAreBacked == Spec => [](TypeOK /\ KeysHaveReason)
<1>1. IInv => TypeOK /\ KeysHaveReason
  BY DEF IInv
<1> QED
  BY <1>1, IInvInit, IInvNext, PTL DEF Spec

\* If every answer for an event was 202 or "already processed or processing",
\* and there was one, the exchange has the event.
THEOREM GoodAnswersAreKept == Spec => []GoodAnswersKept
<1>1. IInv => GoodAnswersKept
  BY DEF IInv, GoodAnswersKept, AcceptedRouted, DuplicateFollows, Passed, RoutedFor
<1> QED
  BY <1>1, IInvInit, IInvNext, PTL DEF Spec

-----------------------------------------------------------------------------
(* All of them side by side. *)

\* A behaviour of the whole is one of each part: a part takes its own step or none.
LEMMA EachPartRuns ==
  AccountsSpec => /\ LockoutSpec /\ RowsSpec /\ WatchlistSpec /\ DemoSpec
                  /\ SessionSpec /\ FormSpec /\ EntrySpec /\ Spec
<1>1. AccountsInit => /\ LockoutInit /\ RowsInit /\ WatchlistInit /\ DemoInit
                      /\ SessionInit /\ FormInit /\ EntryInit /\ Init
  BY DEF AccountsInit
<1>2. [AccountsNext]_accountsVars => /\ [LockoutNext]_lockoutVars /\ [RowsNext]_rowsVars
                                     /\ [WatchlistNext]_watchlistVars /\ [DemoNext]_demoVars
                                     /\ [SessionNext]_sessionVars /\ [FormNext]_formVars
                                     /\ [EntryNext]_entryVars /\ [Next]_vars
  BY DEF AccountsNext, accountsVars, dataVars, pageVars
<1> QED
  BY <1>1, <1>2, PTL DEF AccountsSpec, LockoutSpec, RowsSpec, WatchlistSpec, DemoSpec, SessionSpec, FormSpec, EntrySpec,
                         Spec

\* Accounts, their rows, sessions and forms, and the keys of their events, for any number of each:
\* every part keeps to its types, as far as they say what is made once and in which order.
THEOREM AccountsTyped == AccountsSpec => []AccountsTypeOK
<1>1. CounterInv /\ RowsInv /\ WatchlistInv /\ DemoTypeOK /\ SessionInv /\ FormInv /\ EntryInv /\ IInv => AccountsTypeOK
  BY DEF AccountsTypeOK, CounterInv, RowsInv, WatchlistInv, SessionInv, FormInv, EntryInv, IInv
<1>2. RowsInv /\ [RowsNext]_rowsVars => RowsInv'
  BY RowsStep
<1>3. WatchlistInv /\ [WatchlistNext]_watchlistVars => WatchlistInv'
  BY WatchlistTypeStep, ListedStep DEF WatchlistInv
<1>4. LockoutSpec => []CounterInv
  BY CounterInvInit, CounterInvNext, PTL DEF LockoutSpec
<1>5. RowsSpec => []RowsInv
  BY RowsInitInv, <1>2, PTL DEF RowsSpec
<1>6. WatchlistSpec => []WatchlistInv
  BY WatchlistInitInv, <1>3, PTL DEF WatchlistSpec
<1>7. SessionSpec => []SessionInv
  BY SessionInvInit, SessionInvNext, PTL DEF SessionSpec
<1>8. FormSpec /\ EntrySpec => [](FormInv /\ EntryInv)
  BY FormInvInit, FormInvNext, EntryInvInit, EntryInvNext, PTL DEF FormSpec, EntrySpec
<1>9. Spec => []IInv
  BY IInvInit, IInvNext, PTL DEF Spec
<1> QED
  BY <1>1, <1>4, <1>5, <1>6, <1>7, <1>8, <1>9, EachPartRuns, DemoMakesOnce, PTL

\* What the run of the composition checks, for every behaviour of it.
THEOREM AccountsHold ==
  AccountsSpec => [](/\ LockoutHolds /\ RowIsLatestSave /\ ListedUnlessRemoved /\ SessionsSeeded /\ TokensHaveUser
                     /\ SessionIsUsers /\ FormsKeepWord /\ OncePerKey /\ KeysHaveReason /\ GoodAnswersKept)
  BY EachPartRuns, LockoutProtects, RowsHoldLatestSave, WatchlistKeeps, DemoSeeds, DemoUsersOutliveTokens, SessionKept,
     FormsKept, EventsGoOutOnce, KeysAreBacked, GoodAnswersAreKept, PTL
=============================================================================
