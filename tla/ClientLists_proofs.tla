-------------------------- MODULE ClientLists_proofs --------------------------
(***************************************************************************)
(* Proofs about what the web client keeps and shows of the server's data,  *)
(* for every number of loads, instruments, keys, changes, rows, sockets    *)
(* and pushes, and every page size: the copies in the browser, the cached  *)
(* lists, the pages of them, and the live data.                            *)
(***************************************************************************)
EXTENDS MCMarket, FiniteSetTheorems, TLAPS

-----------------------------------------------------------------------------
(* The copies in localStorage. *)

LoadRec == [pc : {"new", "dashboard", "catalog", "detail", "done"}, began : Nat, base : Nat, cached : [Parts -> Nat]]

\* What is stored is not from the future; and since a load began that no write overtook, the
\* store has nothing younger than its begin, and the dashboard's load knows all of it.
CachesInv ==
    /\ moment \in Nat \ {0} /\ writes \in Nat
    /\ store \in [Parts -> Nat] /\ \A p \in Parts : store[p] <= moment
    /\ load \in [Loads -> LoadRec]
    /\ \A l \in Loads, p \in Parts : load[l].cached[p] <= moment
    /\ \A l \in Loads : load[l].pc \in {"dashboard", "catalog", "detail"} =>
          /\ load[l].began \in 1..moment /\ load[l].base <= writes
          /\ load[l].base = writes => \A p \in Parts : store[p] <= load[l].began
          /\ load[l].base = writes /\ load[l].pc = "dashboard" => load[l].cached = store

LEMMA CachesInvInit == CachesInit => CachesInv
<1> SUFFICES ASSUME CachesInit PROVE CachesInv
  OBVIOUS
<1>1. Emptied \in [Parts -> Nat] /\ \A p \in Parts : Emptied[p] = 0
  BY DEF Emptied, Missing
<1>2. load \in [Loads -> LoadRec]
  BY <1>1 DEF CachesInit, NewLoad, LoadRec
<1> QED
  BY <1>1, <1>2 DEF CachesInit, CachesInv, NewLoad

\* A load ends, and what it may have written is not from the future.
LEMMA LoadEnds ==
    ASSUME CachesInv, NEW l \in Loads, Done(l), UNCHANGED moment,
           \/ UNCHANGED <<store, writes>>
           \/ store' \in [Parts -> Nat] /\ (\A p \in Parts : store'[p] <= moment) /\ writes' = writes + 1
    PROVE  CachesInv'
<1>1. /\ load' \in [Loads -> LoadRec] /\ load'[l].pc = "done"
      /\ \A k \in Loads : k # l => load'[k] = load[k]
  BY DEF Done, NewLoad, CachesInv, LoadRec, Emptied, Missing
<1>2. \A k \in Loads : load'[k].base \in Nat
  BY <1>1 DEF LoadRec
<1>3. load' = [load EXCEPT ![l] = [NewLoad EXCEPT !.pc = "done"]]
  BY DEF Done
<1>4. load'[l].cached = Emptied
  BY <1>3 DEF CachesInv, NewLoad
<1>5. \A k \in Loads, p \in Parts : load'[k].cached[p] <= moment
  BY <1>1, <1>4 DEF CachesInv, Emptied, Missing
<1> QED
  BY <1>1, <1>2, <1>5 DEF CachesInv

LEMMA LoadBegins ==
    ASSUME CachesInv, NEW l \in Loads, NEW pc \in {"dashboard", "catalog", "detail"}, Begin(l, pc)
    PROVE  CachesInv'
<1> DEFINE cached == IF pc = "dashboard" THEN store ELSE Emptied
           new == [pc |-> pc, began |-> moment, base |-> writes, cached |-> cached]
<1>1. /\ cached \in [Parts -> Nat] /\ (pc = "dashboard" => cached = store)
      /\ \A p \in Parts : cached[p] <= moment
  BY DEF CachesInv, Emptied, Missing
<1>2. load' = [load EXCEPT ![l] = new] /\ UNCHANGED <<moment, store, writes>>
  BY DEF Begin
<1> HIDE DEF cached
<1>3. new \in LoadRec
  BY <1>1 DEF LoadRec, CachesInv
<1>4. /\ new.pc = pc /\ new.began = moment /\ new.base = writes /\ new.cached = cached
  OBVIOUS
<1> HIDE DEF new
<1>5. \A k \in Loads : load'[k] = IF k = l THEN new ELSE load[k]
  BY <1>2 DEF CachesInv
<1>6. load' \in [Loads -> LoadRec]
  BY <1>2, <1>3 DEF CachesInv
<1> QED
  BY <1>1, <1>2, <1>4, <1>5, <1>6 DEF CachesInv

\* What the server may have answered, and the parts of the dashboard made of answers.
LEMMA AnswerType ==
    ASSUME CachesInv, NEW l \in Loads, load[l].pc = "dashboard", NEW got \in [Endpoints -> Answers(l)],
           NEW p \in DashboardParts
    PROVE  Received(p, got) = Missing \/ Received(p, got) \in load[l].began..moment
<1>1. \A e \in Endpoints : got[e] = Missing \/ got[e] \in load[l].began..moment
  BY DEF Answers
<1>2. {"dollar", "risk", "summary", "history", "movers"} \cup Instruments \subseteq Endpoints
  BY DEF Endpoints
<1>3. CASE p = "riskValue"
  BY <1>1, <1>2, <1>3 DEF Received, RiskValue
<1>4. CASE p = "riskHistory"
  BY <1>1, <1>2, <1>4 DEF Received
<1>5. CASE p \notin {"riskValue", "riskHistory"}
  <2>1. p \in Endpoints
    BY <1>2, <1>5 DEF DashboardParts
  <2>2. Received(p, got) = got[p]
    BY <1>5 DEF Received
  <2> QED
    BY <1>1, <2>1, <2>2
<1> QED
  BY <1>3, <1>4, <1>5

\* What a load of the dashboard writes, or leaves.
DashboardWritten(l) ==
    \/ UNCHANGED <<store, writes>>
    \/ /\ writes' = writes + 1 /\ store' \in [Parts -> Nat]
       /\ \A p \in Parts :
             \/ store'[p] = store[p]
             \/ store'[p] \in load[l].began..moment
             \/ store'[p] = IF p = "movers" THEN Missing ELSE load[l].cached[p]

LEMMA DashboardData ==
    ASSUME CachesInv, NEW l \in Loads, SaveDashboard(l)
    PROVE  DashboardWritten(l)
<1>1. load[l].pc = "dashboard" /\ load[l].began \in Nat /\ moment \in Nat
  BY DEF SaveDashboard, CachesInv, LoadRec
<1>2. PICK got \in [Endpoints -> Answers(l)] :
        Write(DashboardParts,
              [p \in DashboardParts |->
                  IF Received(p, got) # Missing THEN Received(p, got) ELSE Fallback(p, load[l].cached)])
  BY DEF SaveDashboard
<1> DEFINE data == [p \in DashboardParts |->
                       IF Received(p, got) # Missing THEN Received(p, got) ELSE Fallback(p, load[l].cached)]
<1>3. \A p \in DashboardParts : \/ data[p] \in load[l].began..moment
                                \/ data[p] = IF p = "movers" THEN Missing ELSE load[l].cached[p]
  BY <1>1, AnswerType DEF Fallback
<1>4. Write(DashboardParts, data)
  BY <1>2
<1> HIDE DEF data
<1>5. CASE UNCHANGED <<store, writes>>
  BY <1>5 DEF DashboardWritten
<1>6. CASE store' = [p \in Parts |-> IF p \in DashboardParts THEN data[p] ELSE store[p]] /\ writes' = writes + 1
  <2>1. \A p \in Parts : \/ store'[p] = store[p]
                         \/ store'[p] \in load[l].began..moment
                         \/ store'[p] = IF p = "movers" THEN Missing ELSE load[l].cached[p]
    BY <1>3, <1>6
  <2>2. store \in [Parts -> Nat] /\ load[l].cached \in [Parts -> Nat] /\ Missing \in Nat
    BY DEF CachesInv, LoadRec, Missing
  <2>3. \A p \in Parts : store'[p] \in Nat
    BY <1>1, <2>1, <2>2
  <2>4. store' \in [Parts -> Nat]
    BY <1>6, <2>3
  <2> QED
    BY <1>6, <2>1, <2>4 DEF DashboardWritten
<1> QED
  BY <1>4, <1>5, <1>6 DEF Write

\* A part that is loaded alone.
LEMMA PartWritten ==
    ASSUME CachesInv, NEW q \in Parts, NEW from \in Nat, NEW t \in from..moment,
           Write({q}, [p \in {q} |-> t])
    PROVE  \/ UNCHANGED <<store, writes>>
           \/ /\ writes' = writes + 1 /\ store' \in [Parts -> Nat]
              /\ store'[q] = t /\ \A p \in Parts \ {q} : store'[p] = store[p]
<1>1. CASE UNCHANGED <<store, writes>>
  BY <1>1
<1>2. CASE /\ store' = [p \in Parts |-> IF p \in {q} THEN [r \in {q} |-> t][p] ELSE store[p]]
           /\ writes' = writes + 1
  <2>1. store'[q] = t /\ \A p \in Parts \ {q} : store'[p] = store[p]
    BY <1>2
  <2>2. t \in Nat /\ store \in [Parts -> Nat]
    BY DEF CachesInv
  <2>3. store' \in [Parts -> Nat]
    BY <1>2, <2>1, <2>2
  <2> QED
    BY <1>2, <2>1, <2>3
<1> QED
  BY <1>1, <1>2 DEF Write

LEMMA CachesInvNext == CachesInv /\ [CachesNext]_cachesVars => CachesInv'
<1> SUFFICES ASSUME CachesInv, [CachesNext]_cachesVars PROVE CachesInv'
  OBVIOUS
<1>1. moment \in Nat \ {0} /\ \A l \in Loads : load[l].began \in Nat
  BY DEF CachesInv, LoadRec
<1>2. ASSUME NEW l \in Loads, LoadDashboard(l) \/ LoadCatalog(l) \/ LoadDetail(l) PROVE CachesInv'
  BY <1>2, LoadBegins DEF LoadDashboard, LoadCatalog, LoadDetail
<1>3. ASSUME NEW l \in Loads, SaveDashboard(l) PROVE CachesInv'
  <2>1. DashboardWritten(l) /\ Done(l) /\ UNCHANGED moment
    BY <1>3, DashboardData DEF SaveDashboard
  <2>2. \A p \in Parts : store[p] <= moment /\ load[l].cached[p] <= moment
    BY DEF CachesInv
  <2>3. UNCHANGED <<store, writes>> \/
        (store' \in [Parts -> Nat] /\ (\A p \in Parts : store'[p] <= moment) /\ writes' = writes + 1)
    BY <1>1, <2>1, <2>2 DEF DashboardWritten, Missing
  <2> QED
    BY <2>1, <2>3, LoadEnds
<1>4. ASSUME NEW l \in Loads, NEW q \in Parts, NEW from \in Nat, NEW t \in from..moment,
             Write({q}, [p \in {q} |-> t]), Done(l), UNCHANGED moment
      PROVE  CachesInv'
  <2>1. \A p \in Parts : store[p] <= moment
    BY DEF CachesInv
  <2>2. UNCHANGED <<store, writes>> \/
        (store' \in [Parts -> Nat] /\ (\A p \in Parts : store'[p] <= moment) /\ writes' = writes + 1)
    <3>1. \/ UNCHANGED <<store, writes>>
          \/ /\ writes' = writes + 1 /\ store' \in [Parts -> Nat]
             /\ store'[q] = t /\ \A p \in Parts \ {q} : store'[p] = store[p]
      BY <1>4, PartWritten
    <3>2. t <= moment
      BY <1>1, <1>4
    <3> QED
      BY <2>1, <3>1, <3>2
  <2> QED
    BY <1>4, <2>2, LoadEnds
<1>5. ASSUME NEW l \in Loads, SaveCatalog(l) PROVE CachesInv'
  <2>1. PICK t \in Answers(l) : Write({"price"}, [p \in {"price"} |-> t])
    BY <1>5 DEF SaveCatalog
  <2>2. "price" \in Parts /\ t \in 0..moment
    BY <1>1, <2>1 DEF Parts, Answers, Missing
  <2> QED
    BY <1>4, <1>5, <2>1, <2>2 DEF SaveCatalog
<1>6. ASSUME NEW l \in Loads, SaveDetail(l) PROVE CachesInv'
  <2>1. PICK t \in load[l].began..moment : Write({"detail"}, [p \in {"detail"} |-> t])
    BY <1>6 DEF SaveDetail
  <2>2. "detail" \in Parts
    BY DEF Parts
  <2> QED
    BY <1>1, <1>4, <1>6, <2>1, <2>2 DEF SaveDetail
<1>7. ASSUME NEW l \in Loads, LoadFails(l) PROVE CachesInv'
  BY <1>7, LoadEnds DEF LoadFails
<1>8. CASE Emptying
  <2>1. store' = Emptied /\ writes' = writes + 1 /\ UNCHANGED <<moment, load>>
    BY <1>8 DEF Emptying
  <2>2. store' \in [Parts -> Nat] /\ \A p \in Parts : store'[p] <= moment
    BY <1>1, <2>1 DEF Emptied, Missing
  <2>3. \A l \in Loads : load[l].base \in Nat
    BY DEF CachesInv, LoadRec
  <2> QED
    BY <2>1, <2>2, <2>3 DEF CachesInv
<1>9. CASE MomentPasses
  <2>1. moment' = moment + 1 /\ UNCHANGED <<store, writes, load>>
    BY <1>9 DEF MomentPasses
  <2>2. \A p \in Parts : store[p] \in Nat /\ \A l \in Loads : load[l].cached[p] \in Nat
    BY DEF CachesInv, LoadRec
  <2> QED
    BY <1>1, <2>1, <2>2 DEF CachesInv
<1>10. CASE UNCHANGED cachesVars
  BY <1>10 DEF cachesVars, CachesInv
<1> QED
  BY <1>2, <1>3, <1>5, <1>6, <1>7, <1>8, <1>9, <1>10 DEF CachesNext

\* The end of a load that nobody overtook.
LEMMA PartsStay ==
    CachesInv /\ [CachesNext]_cachesVars =>
        [\A l \in Loads :
            (load[l].pc \in {"dashboard", "detail"} /\ load'[l].pc = "done" /\ load[l].base = writes) =>
                \A p \in Parts \ {"movers"} : store'[p] >= store[p]]_cachesVars
<1> SUFFICES ASSUME CachesInv, [CachesNext]_cachesVars, NEW l \in Loads,
                    load[l].pc \in {"dashboard", "detail"}, load'[l].pc = "done", load[l].base = writes,
                    NEW p \in Parts \ {"movers"}
             PROVE  store'[p] >= store[p]
  OBVIOUS
<1>1. /\ load \in [Loads -> LoadRec] /\ store \in [Parts -> Nat] /\ moment \in Nat
      /\ load[l].began \in Nat /\ store[p] \in Nat /\ store[p] <= load[l].began
      /\ load[l].pc = "dashboard" => load[l].cached = store
  BY DEF CachesInv, LoadRec
<1>2. UNCHANGED store => store'[p] >= store[p]
  BY <1>1
<1>3. ASSUME NEW k \in Loads, SaveDashboard(k) \/ SaveCatalog(k) \/ SaveDetail(k) PROVE k = l
  <2>1. Done(k)
    BY <1>3 DEF SaveDashboard, SaveCatalog, SaveDetail
  <2> QED
    BY <1>1, <2>1 DEF Done
<1>4. CASE SaveDashboard(l)
  <2>1. load[l].pc = "dashboard" /\ DashboardWritten(l)
    BY <1>4, DashboardData DEF SaveDashboard
  <2> QED
    BY <1>1, <1>2, <2>1 DEF DashboardWritten
<1>5. CASE SaveDetail(l)
  <2>1. PICK t \in load[l].began..moment : Write({"detail"}, [q \in {"detail"} |-> t])
    BY <1>5 DEF SaveDetail
  <2>2. "detail" \in Parts
    BY DEF Parts
  <2>3. UNCHANGED store \/ (store'["detail"] = t /\ \A q \in Parts \ {"detail"} : store'[q] = store[q])
    BY <1>1, <2>1, <2>2, PartWritten, ZenonT(60)
  <2> QED
    BY <1>1, <1>2, <2>3
<1>6. CASE SaveCatalog(l)
  BY <1>6 DEF SaveCatalog
<1>7. CASE Emptying
  BY <1>7 DEF Emptying
<1> QED
  BY <1>2, <1>3, <1>4, <1>5, <1>6, <1>7 DEF CachesNext, LoadDashboard, LoadCatalog, LoadDetail, Begin,
     LoadFails, MomentPasses, cachesVars

\* Whichever requests of a load fail, and however many tabs load at once, a load that no
\* other write overtook never puts an older answer, or none, in the place of a part that
\* the browser has; the movers apart, which are not kept.
\* (useDashboardData, useAssetDetail: loadDashboardCache first, then fallbacks by part.)
THEOREM SeenPartsKept == CachesSpec => SeenPartsStay
<1> QED
  BY CachesInvInit, CachesInvNext, PartsStay, PTL DEF CachesSpec, SeenPartsStay

-----------------------------------------------------------------------------
(* The lists of the cache. *)

Answered == (SUBSET Mutations) \cup {NoData}

Entry == [data : Answered, stale : BOOLEAN, mounted : BOOLEAN, fetch : {"idle", "asked", "answered"},
          answer : Answered, failures : 0..1, error : BOOLEAN]

\* The changes that the user was told of, but for those that an answer left out.
Confirmed == {m \in Mutations \ unpriced : mutation[m] = "ok"}

\* Entry q has what the user was told of, and so has the answer that is on its way to it.
ShowsConfirmed(q) ==
    /\ q.data # NoData /\ ~q.stale => Confirmed \subseteq q.data
    /\ q.fetch = "answered" => Confirmed \subseteq q.answer

QueriesInv ==
    /\ query \in [Pages -> Entry]
    /\ rows \subseteq Mutations
    /\ mutation \in [Mutations -> {"new", "sent", "applied", "ok", "failed"}]
    /\ \A m \in Mutations : mutation[m] \in {"applied", "ok"} => m \in rows
    /\ \A k \in Pages \ cleared : ShowsConfirmed(query[k])

LEMMA NewQueryType == NewQuery \in Entry
<1>1. NoData \in Answered /\ 0 \in 0..1
  BY DEF Answered
<1> QED
  BY <1>1 DEF NewQuery, Entry

LEMMA QueriesInvInit == QueriesInit => QueriesInv
<1> SUFFICES ASSUME QueriesInit PROVE QueriesInv
  OBVIOUS
<1> QED
  BY NewQueryType DEF QueriesInit, QueriesInv, ShowsConfirmed, NewQuery

LEMMA AskingType ==
    ASSUME NEW q \in Entry
    PROVE  /\ Asking(q) \in Entry
           /\ Asking(q).data = q.data /\ Asking(q).stale = q.stale /\ Asking(q).fetch = "asked"
<1>1. NoData \in Answered /\ 0 \in 0..1
  BY DEF Answered
<1> QED
  BY <1>1 DEF Asking, Entry

\* One entry changes; nobody is told anything.
LEMMA EntryChanges ==
    ASSUME QueriesInv, NEW k \in Pages, NEW q \in Entry, query' = [query EXCEPT ![k] = q],
           UNCHANGED <<rows, mutation, cleared>>, unpriced \subseteq unpriced',
           k \notin cleared => ShowsConfirmed(q)'
    PROVE  QueriesInv'
<1>1. query' \in [Pages -> Entry] /\ \A j \in Pages : query'[j] = IF j = k THEN q ELSE query[j]
  BY DEF QueriesInv
<1>2. Confirmed' \subseteq Confirmed
  BY DEF Confirmed
<1>3. \A j \in Pages \ cleared : ShowsConfirmed(query[j]) /\ j # k => ShowsConfirmed(query[j])'
  BY <1>1, <1>2 DEF ShowsConfirmed
<1>4. k \notin cleared => ShowsConfirmed(query[k])'
  BY <1>1 DEF ShowsConfirmed
<1> QED
  BY <1>1, <1>3, <1>4 DEF QueriesInv

LEMMA QueriesInvNext == QueriesInv /\ [QueriesNext]_queriesVars => QueriesInv'
<1> SUFFICES ASSUME QueriesInv, [QueriesNext]_queriesVars PROVE QueriesInv'
  OBVIOUS
<1>1. \A k \in Pages : query[k] \in Entry
  BY DEF QueriesInv
<1>2. Confirmed \subseteq rows
  BY DEF Confirmed, QueriesInv
<1>3. UNCHANGED <<mutation, unpriced>> => Confirmed' = Confirmed
  BY DEF Confirmed
<1>4. ASSUME NEW k \in Pages, Mount(k) PROVE QueriesInv'
  <2>1. PICK p \in Entry : p = [query[k] EXCEPT !.mounted = TRUE]
    BY <1>1 DEF Entry
  <2>2. /\ p.data = query[k].data /\ p.stale = query[k].stale /\ p.fetch = query[k].fetch
        /\ p.answer = query[k].answer
    BY <1>1, <2>1 DEF Entry
  <2>3. PICK q \in Entry : q = IF p.fetch = "idle" /\ (p.data = NoData \/ p.stale) THEN Asking(p) ELSE p
    BY AskingType
  <2>4. query' = [query EXCEPT ![k] = q]
    BY <1>4, <2>1, <2>3 DEF Mount
  <2>5. UNCHANGED <<rows, mutation, cleared, unpriced>>
    BY <1>4 DEF Mount, fetchHistory
  <2>6. k \notin cleared => ShowsConfirmed(q)'
    BY <1>3, <2>2, <2>3, <2>5, AskingType DEF QueriesInv, ShowsConfirmed
  <2> QED
    BY <2>4, <2>5, <2>6, EntryChanges
<1>5. ASSUME NEW k \in Pages, Unmount(k) \/ Ages(k) PROVE QueriesInv'
  <2>1. PICK q \in Entry : /\ query' = [query EXCEPT ![k] = q] /\ (q.stale \/ q.stale = query[k].stale)
                           /\ q.data = query[k].data /\ q.fetch = query[k].fetch /\ q.answer = query[k].answer
    <3>1. CASE Unmount(k)
      <4> DEFINE q == [query[k] EXCEPT !.mounted = FALSE]
      <4>1. q \in Entry /\ query' = [query EXCEPT ![k] = q]
        BY <1>1, <3>1 DEF Unmount, Entry
      <4> QED
        BY <1>1, <4>1 DEF Entry
    <3>2. CASE Ages(k)
      <4> DEFINE q == [query[k] EXCEPT !.stale = TRUE]
      <4>1. q \in Entry /\ query' = [query EXCEPT ![k] = q]
        BY <1>1, <3>2 DEF Ages, Entry
      <4> QED
        BY <1>1, <4>1 DEF Entry
    <3> QED
      BY <1>5, <3>1, <3>2
  <2>2. UNCHANGED <<rows, mutation, cleared, unpriced>>
    BY <1>5 DEF Unmount, Ages, fetchHistory
  <2>3. k \notin cleared => ShowsConfirmed(q)'
    BY <1>3, <2>1, <2>2 DEF QueriesInv, ShowsConfirmed
  <2> QED
    BY <2>1, <2>2, <2>3, EntryChanges
<1>6. ASSUME NEW k \in Pages, NEW out \in SUBSET rows, Answer(k, out), unpriced' = unpriced \cup out
      PROVE  QueriesInv'
  <2>1. rows \ out \in Answered
    BY DEF QueriesInv, Answered
  <2>2. PICK q \in Entry : q = [query[k] EXCEPT !.fetch = "answered", !.answer = rows \ out]
    BY <1>1, <2>1 DEF Entry
  <2>3. q.data = query[k].data /\ q.stale = query[k].stale /\ q.answer = rows \ out
    BY <1>1, <2>2 DEF Entry
  <2>4. query' = [query EXCEPT ![k] = q]
    BY <1>6, <2>2 DEF Answer
  <2>5. UNCHANGED <<rows, mutation, cleared>>
    BY <1>6 DEF Answer
  <2>6. Confirmed' \subseteq Confirmed /\ Confirmed' \subseteq rows \ out
    BY <1>2, <1>6, <2>5 DEF Confirmed
  <2>7. k \notin cleared => ShowsConfirmed(q)'
    BY <2>3, <2>6 DEF QueriesInv, ShowsConfirmed
  <2> QED
    BY <1>6, <2>4, <2>5, <2>7, EntryChanges
<1>7. ASSUME NEW k \in Pages, ReadAlerts(k) \/ ReadNotifications(k) \/ ReadPortfolio(k) \/ ReadWatchlist(k)
      PROVE  QueriesInv'
  BY <1>6, <1>7 DEF ReadAlerts, ReadNotifications, ReadPortfolio, ReadWatchlist
<1>8. ASSUME NEW k \in Pages, FetchSucceeds(k) PROVE QueriesInv'
  <2>1. NoData \in Answered /\ query[k].answer \in Answered
    BY <1>1 DEF Entry, Answered
  <2>2. PICK q \in Entry : q = [query[k] EXCEPT !.data = query[k].answer, !.stale = FALSE, !.error = FALSE,
                                                !.fetch = "idle", !.answer = NoData]
    BY <1>1, <2>1 DEF Entry
  <2>3. q.data = query[k].answer /\ q.fetch = "idle"
    BY <1>1, <2>2 DEF Entry
  <2>4. query' = [query EXCEPT ![k] = q] /\ query[k].fetch = "answered"
    BY <1>8, <2>2 DEF FetchSucceeds
  <2>5. UNCHANGED <<rows, mutation, cleared, unpriced>>
    BY <1>8 DEF FetchSucceeds, fetchHistory
  <2>6. k \notin cleared => ShowsConfirmed(q)'
    BY <1>3, <2>3, <2>4, <2>5 DEF QueriesInv, ShowsConfirmed
  <2> QED
    BY <2>4, <2>5, <2>6, EntryChanges
<1>9. ASSUME NEW k \in Pages, FetchFails(k) PROVE QueriesInv'
  <2>1. NoData \in Answered /\ 1 \in 0..1
    BY DEF Answered
  <2>2. PICK q \in Entry :
          /\ q = IF query[k].failures = 0 /\ query[k].mounted
                 THEN [query[k] EXCEPT !.fetch = "asked", !.answer = NoData, !.failures = 1]
                 ELSE [query[k] EXCEPT !.fetch = "idle", !.answer = NoData, !.error = TRUE]
    BY <1>1, <2>1 DEF Entry
  <2>3. q.data = query[k].data /\ q.stale = query[k].stale /\ q.fetch \in {"asked", "idle"}
    BY <1>1, <2>2 DEF Entry
  <2>4. query' = [query EXCEPT ![k] = q]
    BY <1>9, <2>2 DEF FetchFails
  <2>5. UNCHANGED <<rows, mutation, cleared, unpriced>>
    BY <1>9 DEF FetchFails, fetchHistory
  <2>6. k \notin cleared => ShowsConfirmed(q)'
    BY <1>3, <2>3, <2>5 DEF QueriesInv, ShowsConfirmed
  <2> QED
    BY <2>4, <2>5, <2>6, EntryChanges
<1>10. ASSUME UNCHANGED <<query, cleared, unpriced>>, rows \subseteq rows', rows' \subseteq Mutations,
              NEW m \in Mutations, NEW at \in {"sent", "applied", "failed"}, mutation' = [mutation EXCEPT ![m] = at],
              at = "applied" => m \in rows'
       PROVE  QueriesInv'
  <2>1. Confirmed' \subseteq Confirmed
    BY <1>10 DEF Confirmed, QueriesInv
  <2>2. \A k \in Pages \ cleared : ShowsConfirmed(query[k])'
    BY <1>10, <2>1 DEF QueriesInv, ShowsConfirmed
  <2> QED
    BY <1>10, <2>2 DEF QueriesInv
<1>11. ASSUME NEW m \in Mutations,
              \/ ChangeAlerts(m) \/ ChangeNotifications(m) \/ CreatePortfolio(m) \/ RecordTrade(m)
              \/ ChangeWatchlist(m) \/ MutationFails(m) \/ ServerChanges(m)
       PROVE  QueriesInv'
  BY <1>10, <1>11 DEF ChangeAlerts, ChangeNotifications, CreatePortfolio, RecordTrade, ChangeWatchlist,
     Mutate, MutationFails, ServerChanges, fetchHistory, QueriesInv
<1>12. ASSUME NEW m \in Mutations, MutationSucceeds(m) PROVE QueriesInv'
  <2>1. /\ UNCHANGED <<rows, unpriced>> /\ mutation[m] = "applied" /\ mutation' = [mutation EXCEPT ![m] = "ok"]
        /\ query' = [k \in Pages |-> IF k \in Invalidated THEN Refetched([query[k] EXCEPT !.stale = TRUE])
                                     ELSE query[k]]
        /\ cleared' = cleared \cup {k \in Invalidated : query'[k].fetch = "answered"}
    BY <1>12 DEF MutationSucceeds
  <2>2. ASSUME NEW k \in Pages PROVE query'[k] \in Entry /\ query'[k].stale
    <3>1. PICK p \in Entry : p = [query[k] EXCEPT !.stale = TRUE]
      BY <1>1 DEF Entry
    <3>2. p.stale
      BY <1>1, <3>1 DEF Entry
    <3>3. query'[k] = Refetched(p)
      BY <2>1, <3>1 DEF Invalidated
    <3> QED
      BY <3>2, <3>3, AskingType DEF Refetched
  <2>3. \A k \in Pages \ cleared' : ShowsConfirmed(query[k])'
    BY <2>1, <2>2 DEF ShowsConfirmed, Invalidated
  <2>4. query' \in [Pages -> Entry]
    BY <2>1, <2>2
  <2> QED
    BY <2>1, <2>3, <2>4 DEF QueriesInv
<1>13. CASE UNCHANGED queriesVars
  BY <1>13 DEF queriesVars, fetchHistory, QueriesInv, ShowsConfirmed, Confirmed
<1> QED
  BY <1>4, <1>5, <1>7, <1>8, <1>9, <1>11, <1>12, <1>13 DEF QueriesNext

LEMMA ListsShowChanges == QueriesSpec => []FreshListsShowChanges
<1>1. QueriesInv => FreshListsShowChanges
  BY DEF QueriesInv, ShowsConfirmed, Confirmed, FreshListsShowChanges
<1> QED
  BY <1>1, QueriesInvInit, QueriesInvNext, PTL DEF QueriesSpec

-----------------------------------------------------------------------------
(* The pages of a list. *)

\* The rows before page p, and those on it.
LEMMA PageStarts ==
    ASSUME NEW p \in Nat \ {0}
    PROVE  /\ (p - 1) * PerPage \in Nat /\ p * PerPage \in Nat
           /\ p * PerPage = (p - 1) * PerPage + PerPage
<1>1. PerPage \in Nat \ {0}
  BY ListsAssumption
<1> QED
  BY <1>1

\* A page has rows if the pages before it do not take them all.
LEMMA PageHasRows ==
    ASSUME NEW n \in Nat, NEW p \in Nat \ {0}
    PROVE  RowsOn(n, p) > 0 <=> (p - 1) * PerPage < n
<1> DEFINE from == (p - 1) * PerPage
           to == p * PerPage
           S == {i \in 1..n : from < i /\ i <= to}
<1>1. from \in Nat /\ to \in Nat /\ to = from + PerPage /\ PerPage \in Nat \ {0}
  BY PageStarts, ListsAssumption
<1>2. RowsOn(n, p) = Cardinality(S)
  BY DEF RowsOn
<1> HIDE DEF from, to
<1>3. IsFiniteSet(S)
  <2>1. IsFiniteSet(1..n) /\ S \in SUBSET (1..n)
    BY FS_Interval
  <2> QED
    BY <2>1, FS_Subset
<1>4. Cardinality(S) \in Nat /\ (Cardinality(S) = 0 <=> S = {})
  BY <1>3, FS_CardinalityType, FS_EmptySet
<1>5. from < n => from + 1 \in S
  BY <1>1
<1>6. S # {} => from < n
  BY <1>1
<1> QED
  BY <1>2, <1>4, <1>5, <1>6 DEF from

\* A list with rows has pages, and each of them starts within it.
LEMMA PagesReach ==
    ASSUME NEW n \in Nat \ {0}
    PROVE  PagesOf(n) \in Nat \ {0} /\ \A p \in 1..PagesOf(n) : (p - 1) * PerPage < n
<1>1. PerPage \in Nat \ {0}
  BY ListsAssumption
<1> DEFINE m == PagesOf(n)
<1>2. m \in Nat /\ m * PerPage <= n + PerPage - 1 /\ n + PerPage - 1 < (m + 1) * PerPage
  BY <1>1 DEF PagesOf
<1> HIDE DEF m
<1>3. m # 0
  BY <1>1, <1>2
<1>4. ASSUME NEW p \in 1..m PROVE (p - 1) * PerPage < n
  <2>1. p * PerPage <= m * PerPage /\ p * PerPage \in Nat /\ m * PerPage \in Nat
    BY <1>1, <1>2
  <2>2. p * PerPage = (p - 1) * PerPage + PerPage /\ (p - 1) * PerPage \in Nat
    BY PageStarts
  <2> QED
    BY <1>1, <1>2, <2>1, <2>2
<1> QED
  BY <1>2, <1>3, <1>4 DEF m

LEMMA PagesType ==
    ASSUME NEW n \in Nat
    PROVE  PagesOf(n) \in Nat
BY ListsAssumption DEF PagesOf

\* The arrows lead to pages of the list.
LEMMA ArrowsLead ==
    ASSUME NEW p \in Nat \ {0}, NEW total \in Nat \ {0}
    PROVE  /\ Back(p) \in Nat \ {0} /\ Back(p) <= p
           /\ Forward(p, total) \in 1..total
BY DEF Back, Forward

\* The table's page starts within the rows that match, when there are any.
TableInv ==
    /\ table.data \subseteq Listed /\ table.page \in Nat \ {0} /\ "page" \in DOMAIN table
    /\ Matching # {} => table.page <= TotalPages

InboxRec == [tab : Tabs, page : Nat \ {0}, all : SUBSET Mails, unread : SUBSET Mails]

\* So does the page of notifications, unless it was lost; an empty list is on its first.
InboxInv ==
    /\ unread \subseteq Mails /\ held \subseteq Mails
    /\ inbox \in InboxRec
    /\ shrunk \in BOOLEAN
    /\ ~shrunk => IF Filtered = {} THEN inbox.page = 1 ELSE Drawn > 0

ListsInv == TableInv /\ InboxInv

LEMMA RowsCounted ==
    ASSUME NEW S, S \subseteq Listed \/ S \subseteq Mails
    PROVE  Cardinality(S) \in Nat /\ (Cardinality(S) = 0 <=> S = {})
<1>1. IsFiniteSet(S)
  BY ListsAssumption, FS_Subset
<1> QED
  BY <1>1, FS_CardinalityType, FS_EmptySet

\* How many of a list's rows are on a page.
LEMMA RowsType ==
    ASSUME NEW n \in Nat, NEW p
    PROVE  RowsOn(n, p) \in Nat
<1> DEFINE S == {i \in 1..n : (p - 1) * PerPage < i /\ i <= p * PerPage}
<1>1. IsFiniteSet(1..n) /\ S \in SUBSET (1..n)
  BY FS_Interval
<1>2. Cardinality(S) \in Nat
  BY <1>1, FS_Subset, FS_CardinalityType
<1> QED
  BY <1>2 DEF RowsOn

LEMMA FilteredType ==
    ASSUME InboxInv
    PROVE  /\ Filtered \subseteq Mails /\ Cardinality(Filtered) \in Nat
           /\ Filtered # {} => Cardinality(Filtered) \in Nat \ {0}
           /\ Drawn \in Nat
           /\ Drawn > 0 <=> (inbox.page - 1) * PerPage < Cardinality(Filtered)
<1>1. Filtered \subseteq Mails
  BY DEF InboxInv, InboxRec, Filtered
<1>2. Cardinality(Filtered) \in Nat /\ (Cardinality(Filtered) = 0 <=> Filtered = {})
  BY <1>1, RowsCounted
<1>3. inbox.page \in Nat \ {0}
  BY DEF InboxInv, InboxRec
<1>4. Drawn > 0 <=> (inbox.page - 1) * PerPage < Cardinality(Filtered)
  BY <1>2, <1>3, PageHasRows DEF Drawn
<1>5. Drawn \in Nat
  BY <1>2, RowsType DEF Drawn
<1> QED
  BY <1>1, <1>2, <1>4, <1>5

\* Page 1 of a list with rows has some.
LEMMA FirstPageHasRows ==
    ASSUME NEW n \in Nat \ {0}
    PROVE  RowsOn(n, 1) > 0
<1>1. (1 - 1) * PerPage = 0
  BY ListsAssumption
<1> QED
  BY <1>1, PageHasRows

LEMMA ListsInvInit == ListsInit => ListsInv
<1> SUFFICES ASSUME ListsInit PROVE ListsInv
  OBVIOUS
<1>1. PICK assets \in SUBSET Listed : table = Fresh(assets)
  BY DEF ListsInit
<1>2. table.data \subseteq Listed /\ table.page = 1 /\ "page" \in DOMAIN table
  BY <1>1 DEF Fresh
<1>3. Matching \subseteq Listed
  BY <1>2 DEF Matching
<1>4. Matching # {} => TotalPages \in Nat \ {0}
  BY <1>3, RowsCounted, PagesReach DEF TotalPages
<1>5. TableInv
  BY <1>2, <1>4 DEF TableInv
<1>6. inbox = [tab |-> "all", page |-> 1, all |-> {}, unread |-> {}]
  BY DEF ListsInit
<1>7. Filtered = {} /\ inbox.page = 1 /\ inbox \in [tab : Tabs, page : Nat \ {0}, all : SUBSET Mails, unread : SUBSET Mails]
  BY <1>6 DEF Filtered, Tabs
<1> QED
  BY <1>5, <1>7 DEF ListsInv, InboxInv, InboxRec, ListsInit

\* The table is on its first page, or on one of those that it had, of the same rows.
LEMMA TableMoves ==
    ASSUME TableInv, table'.data \subseteq Listed, table'.page \in Nat \ {0}, "page" \in DOMAIN table',
           \/ table'.page = 1
           \/ Matching' = Matching /\ (Matching # {} => table'.page <= TotalPages)
    PROVE  TableInv'
<1>1. CASE table'.page = 1
  <2>1. Matching' \subseteq Listed
    BY DEF Matching
  <2>2. Matching' # {} => TotalPages' \in Nat \ {0}
    BY <2>1, RowsCounted, PagesReach DEF TotalPages
  <2> QED
    BY <1>1, <2>2 DEF TableInv
<1>2. CASE Matching' = Matching /\ (Matching # {} => table'.page <= TotalPages)
  <2>1. TotalPages' = TotalPages
    BY <1>2 DEF TotalPages
  <2> QED
    BY <1>2, <2>1 DEF TableInv
<1> QED
  BY <1>1, <1>2

\* The links lead to pages that the table has.
LEMMA TableTurns ==
    ASSUME TableInv, NEW p \in Nat \ {0}, TurnTo(p), Matching # {} => p <= TotalPages
    PROVE  TableInv'
<1> DEFINE new == [table EXCEPT !.page = p]
<1>1. table' = new
  BY DEF TurnTo
<1>2. /\ new.data = table.data /\ new.type = table.type /\ new.search = table.search
      /\ new.page = p /\ "page" \in DOMAIN new
  BY DEF TableInv
<1> HIDE DEF new
<1>3. Matching' = Matching
  BY <1>1, <1>2 DEF Matching
<1> QED
  BY <1>1, <1>2, <1>3, TableMoves DEF TableInv

LEMMA TableInvNext == TableInv /\ TableNext => TableInv'
<1> SUFFICES ASSUME TableInv, TableNext PROVE TableInv'
  OBVIOUS
<1>1. table.data \subseteq Listed /\ table.page \in Nat \ {0} /\ "page" \in DOMAIN table
      /\ (Matching # {} => table.page <= TotalPages)
  BY DEF TableInv
<1>2. Matching \subseteq Listed /\ Cardinality(Matching) \in Nat
  BY <1>1, RowsCounted DEF Matching
<1>3. TotalPages \in Nat
  BY <1>2, PagesType DEF TotalPages
<1>4. ASSUME NEW new, table' = new, new.data = table.data, new.type = table.type, new.search = table.search,
             new.page = table.page, DOMAIN new = DOMAIN table
      PROVE  TableInv'
  <2>1. Matching' = Matching
    BY <1>4 DEF Matching
  <2> QED
    BY <1>1, <1>4, <2>1, TableMoves
<1>5. CASE CatalogLoads
  <2>1. CASE table' = table
    BY <1>4, <2>1
  <2>2. CASE \E assets \in SUBSET Listed : table' = Fresh(assets)
    <3>1. table'.data \subseteq Listed /\ table'.page = 1 /\ "page" \in DOMAIN table'
      BY <2>2 DEF Fresh
    <3> QED
      BY <3>1, TableMoves
  <2> QED
    BY <1>5, <2>1, <2>2 DEF CatalogLoads
<1>6. CASE CatalogFails
  <2> DEFINE new == [table EXCEPT !.up = FALSE]
  <2>1. table' = new
    BY <1>6 DEF CatalogFails
  <2>2. /\ new.data = table.data /\ new.type = table.type /\ new.search = table.search
        /\ new.page = table.page /\ DOMAIN new = DOMAIN table
    OBVIOUS
  <2> QED
    BY <1>4, <2>1, <2>2
<1>8. ASSUME NEW t, FilterByType(t) PROVE TableInv'
  <2> DEFINE new == [table EXCEPT !.type = t, !.page = 1]
  <2>1. table' = new
    BY <1>8 DEF FilterByType, Typed
  <2>2. new.data = table.data /\ new.page = 1 /\ "page" \in DOMAIN new
    BY <1>1
  <2> HIDE DEF new
  <2> QED
    BY <1>1, <2>1, <2>2, TableMoves
<1>9. CASE Search
  <2> DEFINE new == [table EXCEPT !.search = ~table.search, !.page = 1]
  <2>1. table' = new
    BY <1>9 DEF Search
  <2>2. new.data = table.data /\ new.page = 1 /\ "page" \in DOMAIN new
    BY <1>1
  <2> HIDE DEF new
  <2> QED
    BY <1>1, <2>1, <2>2, TableMoves
<1>10. ASSUME NEW f, SortBy(f) PROVE TableInv'
  <2> DEFINE turned == IF table.order = "asc" THEN "desc" ELSE "asc"
             one == [table EXCEPT !.order = turned]
             other == [table EXCEPT !.field = f, !.order = "desc"]
  <2>1. table' = one \/ table' = other
    BY <1>10 DEF SortBy
  <2>2. /\ one.data = table.data /\ one.type = table.type /\ one.search = table.search
        /\ one.page = table.page /\ DOMAIN one = DOMAIN table
    OBVIOUS
  <2>3. /\ other.data = table.data /\ other.type = table.type /\ other.search = table.search
        /\ other.page = table.page /\ DOMAIN other = DOMAIN table
    OBVIOUS
  <2> HIDE DEF one, other
  <2> QED
    BY <1>4, <2>1, <2>2, <2>3
<1>11. CASE PreviousAssets
  <2>1. /\ TurnTo(Back(table.page)) /\ Back(table.page) \in Nat \ {0} /\ Back(table.page) <= table.page
    BY <1>1, <1>3, <1>11, ArrowsLead DEF PreviousAssets, Back
  <2>2. Matching # {} => Back(table.page) <= TotalPages
    BY <1>1, <1>3, <2>1
  <2> QED
    BY <2>1, <2>2, TableTurns
<1>12. CASE NextAssets
  <2>1. TurnTo(Forward(table.page, TotalPages)) /\ TotalPages \in Nat \ {0}
    BY <1>3, <1>12 DEF NextAssets, TurnTo
  <2>2. Forward(table.page, TotalPages) \in 1..TotalPages
    BY <1>1, <2>1, ArrowsLead
  <2> QED
    BY <2>1, <2>2, TableTurns
<1>13. CASE PageOfAssets
  BY <1>3, <1>13, TableTurns DEF PageOfAssets
<1> QED
  BY <1>5, <1>6, <1>8, <1>9, <1>10, <1>11, <1>12, <1>13 DEF TableNext

\* What is left to show of a step of the page.
LEMMA InboxMoves ==
    ASSUME unread' \subseteq Mails, held' \subseteq Mails, inbox' \in InboxRec, shrunk' \in BOOLEAN,
           Filtered' # {} => Cardinality(Filtered') \in Nat \ {0},
           ~shrunk' => \/ inbox'.page = 1
                       \/ Filtered' # {} /\ Drawn' > 0
    PROVE  InboxInv'
<1>1. ASSUME Filtered' # {}, inbox'.page = 1 PROVE Drawn' > 0
  BY <1>1, FirstPageHasRows DEF Drawn
<1> QED
  BY <1>1 DEF InboxInv, InboxRec

\* The lists that the tabs filter are the user's.
LEMMA FilteredNext ==
    ASSUME inbox' \in InboxRec
    PROVE  /\ Cardinality(Filtered') \in Nat
           /\ Filtered' # {} => Cardinality(Filtered') \in Nat \ {0}
<1>1. Filtered' \subseteq Mails
  BY DEF InboxRec, Filtered
<1> QED
  BY <1>1, RowsCounted

LEMMA ArrowKeeps ==
    ASSUME InboxInv, NEW p \in Nat \ {0}, Arrow(p),
           ~shrunk => (p - 1) * PerPage < Cardinality(Filtered)
    PROVE  InboxInv'
<1> DEFINE new == [inbox EXCEPT !.page = p]
<1>1. inbox \in InboxRec /\ unread \subseteq Mails /\ held \subseteq Mails /\ shrunk \in BOOLEAN
  BY DEF InboxInv, InboxRec
<1>2. inbox' = new /\ Filtered # {} /\ shrunk' = (shrunk /\ Drawn' = 0) /\ UNCHANGED <<unread, held>>
  BY DEF Arrow
<1>3. /\ new \in InboxRec /\ new.tab = inbox.tab /\ new.all = inbox.all /\ new.unread = inbox.unread
      /\ new.page = p
  BY <1>1 DEF InboxRec
<1> HIDE DEF new
<1>4. Filtered' = Filtered
  BY <1>2, <1>3 DEF Filtered
<1>5. Cardinality(Filtered) \in Nat /\ (Filtered' # {} => Cardinality(Filtered') \in Nat \ {0})
  BY <1>2, <1>3, FilteredNext, FilteredType
<1>6. Drawn' = RowsOn(Cardinality(Filtered), p)
  BY <1>2, <1>3, <1>4 DEF Drawn
<1>7. Drawn' \in Nat
  BY <1>5, <1>6, RowsType
<1>8. ~shrunk => Drawn' > 0
  BY <1>5, <1>6, PageHasRows
<1>9. ~shrunk' => Drawn' > 0
  <2>1. CASE shrunk
    <3>1. ~shrunk' => Drawn' # 0
      BY <1>2, <2>1
    <3> QED
      BY <1>7, <3>1
  <2>2. CASE ~shrunk
    BY <1>8, <2>2
  <2> QED
    BY <2>1, <2>2
<1>10. shrunk' \in BOOLEAN
  BY <1>2
<1> QED
  BY <1>1, <1>2, <1>3, <1>4, <1>5, <1>9, <1>10, InboxMoves

LEMMA InboxInvNext == InboxInv /\ InboxNext => InboxInv'
<1> SUFFICES ASSUME InboxInv, InboxNext PROVE InboxInv'
  OBVIOUS
<1>1. inbox \in InboxRec /\ unread \subseteq Mails /\ held \subseteq Mails /\ shrunk \in BOOLEAN
  BY DEF InboxInv, InboxRec
<1>2. inbox.page \in Nat \ {0}
  BY <1>1 DEF InboxRec
<1>3. ASSUME UNCHANGED <<inbox, shrunk>>, unread' \subseteq Mails, held' \subseteq Mails PROVE InboxInv'
  BY <1>3 DEF InboxInv, Filtered, Drawn
<1>4. ASSUME NEW t \in Tabs, ChooseTab(t) PROVE InboxInv'
  <2> DEFINE new == [inbox EXCEPT !.tab = t, !.page = 1]
  <2>1. inbox' = new /\ shrunk' = FALSE /\ UNCHANGED <<unread, held>>
    BY <1>4 DEF ChooseTab
  <2>2. new \in InboxRec /\ new.page = 1
    <3> DEFINE P == Nat \ {0}
               S == SUBSET Mails
    <3>1. 1 \in P
      OBVIOUS
    <3>2. inbox \in [tab : Tabs, page : P, all : S, unread : S]
      BY <1>1 DEF InboxRec
    <3>3. InboxRec = [tab : Tabs, page : P, all : S, unread : S]
      BY DEF InboxRec
    <3> HIDE DEF P, S, InboxRec
    <3>4. new \in [tab : Tabs, page : P, all : S, unread : S] /\ new.page = 1
      BY <3>1, <3>2
    <3> QED
      BY <3>3, <3>4
  <2> HIDE DEF new
  <2> QED
    BY <1>1, <2>1, <2>2, FilteredNext, InboxMoves
<1>5. CASE ListLoads
  <2> DEFINE one == [inbox EXCEPT !.unread = unread]
             other == [inbox EXCEPT !.all = held]
  <2>1. /\ inbox' = one \/ inbox' = other
        /\ shrunk' = (shrunk \/ (Drawn > 0 /\ Drawn' = 0))
        /\ UNCHANGED <<unread, held>>
    BY <1>5 DEF ListLoads
  <2>2. one \in InboxRec /\ one.page = inbox.page
    BY <1>1 DEF InboxRec
  <2>3. other \in InboxRec /\ other.page = inbox.page
    BY <1>1 DEF InboxRec
  <2> HIDE DEF one, other
  <2>4. inbox' \in InboxRec /\ inbox'.page = inbox.page
    BY <2>1, <2>2, <2>3
  <2>5. /\ Cardinality(Filtered') \in Nat
        /\ Filtered' # {} => Cardinality(Filtered') \in Nat \ {0}
    BY <2>4, FilteredNext
  <2>6. Drawn' \in Nat
    BY <2>5, RowsType DEF Drawn
  <2>7. Drawn' > 0 => Filtered' # {}
    <3>1. Drawn' > 0 => (inbox'.page - 1) * PerPage < Cardinality(Filtered')
      BY <1>2, <2>4, <2>5, PageHasRows DEF Drawn
    <3>2. (inbox'.page - 1) * PerPage \in Nat
      BY <1>2, <2>4, PageStarts
    <3>3. Filtered' \subseteq Mails
      BY <2>4 DEF InboxRec, Filtered
    <3> QED
      BY <2>5, <3>1, <3>2, <3>3, RowsCounted
  <2>8. ASSUME ~shrunk' PROVE inbox'.page = 1 \/ (Filtered' # {} /\ Drawn' > 0)
    <3>1. ~shrunk /\ ~(Drawn > 0 /\ Drawn' = 0)
      BY <2>1, <2>8
    <3>2. inbox.page = 1 \/ Drawn > 0
      BY <3>1 DEF InboxInv
    <3> QED
      BY <2>4, <2>6, <2>7, <3>1, <3>2
  <2>9. shrunk' \in BOOLEAN
    BY <2>1
  <2> QED
    BY <1>1, <2>1, <2>4, <2>5, <2>8, <2>9, InboxMoves
<1>6. ASSUME NEW n \in Mails, MarkAsRead(n) PROVE InboxInv'
  BY <1>1, <1>3, <1>6 DEF MarkAsRead
<1>7. ASSUME NEW n \in Mails, DeleteMail(n) PROVE InboxInv'
  BY <1>1, <1>3, <1>7 DEF DeleteMail
<1>8. CASE MarkAllAsRead
  BY <1>1, <1>3, <1>8 DEF MarkAllAsRead
<1>9. Filtered # {} => Cardinality(Filtered) \in Nat \ {0}
  BY FilteredType
<1>10. CASE PreviousMails
  <2>1. Arrow(Back(inbox.page)) /\ Back(inbox.page) \in Nat \ {0} /\ Back(inbox.page) <= inbox.page
    BY <1>2, <1>10, ArrowsLead DEF PreviousMails, Back
  <2>2. ~shrunk => (inbox.page - 1) * PerPage < Cardinality(Filtered)
    BY <2>1, FilteredType DEF InboxInv, Arrow
  <2>3. (Back(inbox.page) - 1) * PerPage <= (inbox.page - 1) * PerPage
    BY <1>2, <2>1, ListsAssumption
  <2>4. /\ (Back(inbox.page) - 1) * PerPage \in Nat /\ (inbox.page - 1) * PerPage \in Nat
        /\ Cardinality(Filtered) \in Nat
    BY <1>2, <2>1, PageStarts, FilteredType
  <2>5. ~shrunk => (Back(inbox.page) - 1) * PerPage < Cardinality(Filtered)
    BY <2>2, <2>3, <2>4
  <2> QED
    BY <2>1, <2>5, ArrowKeeps
<1>11. CASE NextMails
  <2>1. Arrow(Forward(inbox.page, InboxPages)) /\ Cardinality(Filtered) \in Nat \ {0}
    BY <1>9, <1>11 DEF NextMails, Arrow
  <2>2. InboxPages = PagesOf(Cardinality(Filtered)) /\ InboxPages \in Nat \ {0}
    BY <2>1, PagesReach DEF InboxPages
  <2>3. Forward(inbox.page, InboxPages) \in 1..InboxPages
    BY <1>2, <2>2, ArrowsLead
  <2>4. (Forward(inbox.page, InboxPages) - 1) * PerPage < Cardinality(Filtered)
    BY <2>1, <2>2, <2>3, PagesReach
  <2> QED
    BY <2>1, <2>2, <2>3, <2>4, ArrowKeeps
<1> QED
  BY <1>4, <1>5, <1>6, <1>7, <1>8, <1>10, <1>11 DEF InboxNext

LEMMA ListsInvNext == ListsInv /\ [TableNext \/ InboxNext]_listsVars => ListsInv'
<1> SUFFICES ASSUME ListsInv, [TableNext \/ InboxNext]_listsVars PROVE ListsInv'
  OBVIOUS
<1>1. ASSUME UNCHANGED table PROVE TableInv'
  BY <1>1 DEF ListsInv, TableInv, Matching, TotalPages
<1>2. ASSUME UNCHANGED inboxVars PROVE InboxInv'
  BY <1>2 DEF ListsInv, InboxInv, inboxVars, Filtered, Drawn
<1>3. CASE TableNext
  <2>1. UNCHANGED inboxVars
    BY <1>3 DEF TableNext, CatalogLoads, CatalogFails, Search, PreviousAssets, NextAssets, PageOfAssets,
                TurnTo, FilterByType, SortBy
  <2> QED
    BY <1>2, <1>3, <2>1, TableInvNext DEF ListsInv
<1>4. CASE InboxNext
  <2>1. UNCHANGED table
    BY <1>4 DEF InboxNext, ChooseTab, MarkAsRead, DeleteMail, ListLoads, MarkAllAsRead, PreviousMails,
                NextMails, Arrow, tableVars
  <2> QED
    BY <1>1, <1>4, <2>1, InboxInvNext DEF ListsInv
<1>5. CASE UNCHANGED listsVars
  <2>1. UNCHANGED table /\ UNCHANGED inboxVars
    BY <1>5 DEF listsVars, tableVars
  <2> QED
    BY <1>1, <1>2, <2>1 DEF ListsInv
<1> QED
  BY <1>3, <1>4, <1>5

LEMMA RowsAreShown == ListsInv => PagesShowRows
<1> SUFFICES ASSUME ListsInv PROVE PagesShowRows
  OBVIOUS
<1>1. ASSUME Matching # {} PROVE RowsOn(Cardinality(Matching), table.page) > 0
  <2>1. Cardinality(Matching) \in Nat \ {0}
    BY <1>1, RowsCounted DEF ListsInv, TableInv, Matching
  <2>2. TotalPages \in Nat \ {0} /\ \A p \in 1..TotalPages : (p - 1) * PerPage < Cardinality(Matching)
    BY <2>1, PagesReach DEF TotalPages
  <2>3. table.page \in Nat \ {0} /\ table.page <= TotalPages
    BY <1>1 DEF ListsInv, TableInv
  <2>4. table.page \in 1..TotalPages
    BY <2>2, <2>3
  <2> QED
    BY <2>1, <2>2, <2>3, <2>4, PageHasRows
<1>2. ASSUME Filtered # {}
      PROVE  (shrunk \/ Drawn > 0) /\ RowsOn(Cardinality(Filtered), Forward(inbox.page, InboxPages)) > 0
  <2>1. Cardinality(Filtered) \in Nat \ {0}
    BY <1>2, FilteredType DEF ListsInv
  <2>2. /\ InboxPages \in Nat \ {0}
        /\ \A p \in 1..InboxPages : (p - 1) * PerPage < Cardinality(Filtered)
    BY <2>1, PagesReach DEF InboxPages
  <2>3. Forward(inbox.page, InboxPages) \in 1..InboxPages
    <3>1. inbox.page \in Nat \ {0}
      BY DEF ListsInv, InboxInv, InboxRec
    <3> QED
      BY <2>2, <3>1, ArrowsLead
  <2>4. Forward(inbox.page, InboxPages) \in Nat \ {0}
    BY <2>2, <2>3
  <2>5. RowsOn(Cardinality(Filtered), Forward(inbox.page, InboxPages)) > 0
    BY <2>1, <2>2, <2>3, <2>4, PageHasRows
  <2> QED
    BY <1>2, <2>5 DEF ListsInv, InboxInv
<1> QED
  BY <1>1, <1>2 DEF PagesShowRows

\* Whatever the user filters, sorts and turns, a list that has rows shows some, unless the
\* page of notifications lost its own when the list was loaded again; and a cached list that
\* is not stale has every change that was confirmed before it was asked for.
THEOREM ListsKept == QueriesSpec /\ ListsSpec => []ListsAreTrue
<1>1. ListsSpec => []PagesShowRows
  <2> QED
    BY ListsInvInit, ListsInvNext, RowsAreShown, PTL DEF ListsSpec
<1>2. FreshListsShowChanges /\ PagesShowRows => ListsAreTrue
  BY DEF ListsAreTrue
<1> QED
  BY <1>1, <1>2, ListsShowChanges, PTL

-----------------------------------------------------------------------------
(* The bell. *)

BellTypeOK ==
    /\ viewer \in Viewers \cup {NoViewer}
    /\ socket \in {"off", "connecting", "in"}
    /\ tokens \in 0..MaxTokensSeen /\ guests \subseteq Viewers
    /\ left \subseteq (1..tokens) \X guests /\ wire \subseteq Notices \X (1..tokens)
    /\ filed \in [Notices -> [owner : Viewers \cup {NoViewer}, read : BOOLEAN]]
    /\ live \in Seq(Notices)
    /\ listed \in Seq([notice : Notices, read : BOOLEAN])
    /\ toasts \subseteq Notices \X Viewers

\* The socket of the context is its user's, and no earlier one.
SocketsInv ==
    /\ viewer \in guests \cup {NoViewer}
    /\ viewer = NoViewer => socket = "off"
    /\ viewer # NoViewer => tokens >= 1 /\ \A l \in left : l[1] < tokens

\* What is on its way was made for a guest, and, on the socket of the context, for the viewer, who
\* has not heard it yet.
WireInv ==
    \A m \in wire : /\ filed[m[1]].owner \in guests
                    /\ Hears(m[2]) => filed[m[1]].owner = viewer /\ \A i \in DOMAIN live : live[i] # m[1]

\* What the page heard or fetched was made for somebody who had signed in on it.
BellInv ==
    /\ BellTypeOK /\ SocketsInv /\ WireInv
    /\ \A i \in DOMAIN live : filed[live[i]].owner \in guests
    /\ \A i \in DOMAIN listed : filed[listed[i].notice].owner \in guests
    /\ ToastsAreOwn

LEMMA BellInvInit == LiveInit => BellInv
  BY LiveAssumption DEF LiveInit, BellInv, BellTypeOK, SocketsInv, WireInv, Unmade, ToastsAreOwn

LEMMA ListedNotices ==
  ASSUME BellInv
  PROVE  \A i \in DOMAIN listed : listed[i].notice \in Notices /\ filed[listed[i].notice].owner \in guests
<1>1. \A i \in DOMAIN listed : listed[i] \in [notice : Notices, read : BOOLEAN]
  <2> DEFINE R == [notice : Notices, read : BOOLEAN]
  <2>1. listed \in Seq(R)
    BY DEF BellInv, BellTypeOK
  <2> HIDE DEF R
  <2>2. \A i \in DOMAIN listed : listed[i] \in R
    BY <2>1
  <2> QED
    BY <2>2 DEF R
<1> QED
  BY <1>1 DEF BellInv

LEMMA WireNotices ==
  ASSUME BellInv, NEW m \in wire
  PROVE  /\ m[1] \in Notices /\ m[2] \in 1..tokens /\ m = <<m[1], m[2]>> /\ filed[m[1]].owner \in guests
         /\ Hears(m[2]) => filed[m[1]].owner = viewer /\ \A i \in DOMAIN live : live[i] # m[1]
<1>1. m \in Notices \X (1..tokens)
  BY DEF BellInv, BellTypeOK
<1> QED
  BY <1>1 DEF BellInv, WireInv

\* Nothing is heard, notifications keep their owners, and what is still on its way comes to the
\* viewer's socket only if it did so before.
LEMMA BellStays ==
  ASSUME BellInv, BellTypeOK', SocketsInv', guests \subseteq guests',
         wire' \subseteq wire, \A m \in wire' : Hears(m[2])' => Hears(m[2]) /\ viewer' = viewer,
         UNCHANGED <<live, listed, toasts>>,
         \A n \in Notices : filed[n].owner \in Viewers => filed'[n].owner = filed[n].owner
  PROVE  BellInv'
<1>1. \A i \in DOMAIN live : live[i] \in Notices /\ filed[live[i]].owner \in guests
  BY DEF BellInv, BellTypeOK
<1>2. \A i \in DOMAIN listed : listed[i].notice \in Notices /\ filed[listed[i].notice].owner \in guests
  BY ListedNotices
<1>3. \A t \in toasts : t[1] \in Notices /\ t[2] \in Viewers /\ filed[t[1]].owner = t[2]
  BY DEF BellInv, BellTypeOK, ToastsAreOwn
<1>4. guests \subseteq Viewers
  BY DEF BellInv, BellTypeOK
<1>5. \A i \in DOMAIN live' : filed'[live'[i]].owner \in guests'
  BY <1>1, <1>4
<1>6. \A i \in DOMAIN listed' : filed'[listed'[i].notice].owner \in guests'
  BY <1>2, <1>4
<1>7. ToastsAreOwn'
  BY <1>3 DEF BellInv, ToastsAreOwn
<1>8. ASSUME NEW m \in wire'
      PROVE  /\ filed'[m[1]].owner \in guests'
             /\ Hears(m[2])' => filed'[m[1]].owner = viewer' /\ \A i \in DOMAIN live' : live'[i] # m[1]
  <2>1. m \in wire /\ (Hears(m[2])' => Hears(m[2]) /\ viewer' = viewer)
    OBVIOUS
  <2>2. /\ m[1] \in Notices /\ filed[m[1]].owner \in guests
        /\ Hears(m[2]) => filed[m[1]].owner = viewer /\ \A i \in DOMAIN live : live[i] # m[1]
    BY <2>1, WireNotices
  <2>3. filed'[m[1]].owner = filed[m[1]].owner
    BY <1>4, <2>2
  <2> QED
    BY <2>1, <2>2, <2>3
<1>9. WireInv'
  BY <1>8 DEF WireInv
<1> QED
  BY <1>5, <1>6, <1>7, <1>9 DEF BellInv

\* A new notification is nowhere on the page before it is made, and goes to rooms of its user.
LEMMA BellSent ==
  ASSUME BellInv, NEW n \in Notices, NEW u \in Viewers, NewNotification(n, u)
  PROVE  BellInv'
<1>1. /\ filed[n] = Unmade /\ filed' = [filed EXCEPT ![n] = [owner |-> u, read |-> FALSE]]
      /\ wire' = wire \cup {<<n, s>> : s \in Room(u)}
      /\ UNCHANGED <<viewer, socket, left, tokens, guests, live, listed, toasts>>
  BY DEF NewNotification
<1>2. filed' \in [Notices -> [owner : Viewers \cup {NoViewer}, read : BOOLEAN]] /\ filed'[n].owner = u
  BY <1>1 DEF BellInv, BellTypeOK
<1>3. \A m \in Notices : filed[m].owner \in Viewers => m # n /\ filed'[m] = filed[m]
  BY <1>1, LiveAssumption DEF BellInv, BellTypeOK, Unmade
<1>4. left \subseteq (1..tokens) \X guests /\ guests \subseteq Viewers /\ tokens \in 0..MaxTokensSeen
  BY DEF BellInv, BellTypeOK
<1>5. ASSUME NEW s \in Room(u) PROVE s \in 1..tokens /\ u \in guests /\ (Hears(s) => u = viewer)
  <2>1. CASE <<s, u>> \in left
    BY <1>4, <2>1 DEF BellInv, SocketsInv, Hears
  <2>2. CASE socket = "in" /\ viewer = u /\ s = tokens
    BY <1>4, <2>2, LiveAssumption DEF BellInv, SocketsInv
  <2> QED
    BY <2>1, <2>2 DEF Room
<1>6. wire' \subseteq Notices \X (1..tokens)
  <2>1. \A s \in Room(u) : <<n, s>> \in Notices \X (1..tokens)
    BY <1>5
  <2>2. wire \subseteq Notices \X (1..tokens)
    BY DEF BellInv, BellTypeOK
  <2> QED
    BY <1>1, <2>1, <2>2
<1>7. BellTypeOK' /\ SocketsInv'
  BY <1>1, <1>2, <1>6 DEF BellInv, BellTypeOK, SocketsInv
<1>8. \A i \in DOMAIN live : live[i] \in Notices /\ filed[live[i]].owner \in guests /\ live[i] # n
  BY <1>3, <1>4 DEF BellInv, BellTypeOK
<1>9. \A i \in DOMAIN live' : filed'[live'[i]].owner \in guests'
  BY <1>1, <1>3, <1>4, <1>8
<1>10. \A i \in DOMAIN listed' : filed'[listed'[i].notice].owner \in guests'
  BY <1>1, <1>3, <1>4, ListedNotices
<1>11. ToastsAreOwn'
  <2>1. \A t \in toasts : t[1] \in Notices /\ t[2] \in Viewers /\ filed[t[1]].owner = t[2]
    BY DEF BellInv, BellTypeOK, ToastsAreOwn
  <2> QED
    BY <1>1, <1>3, <2>1 DEF BellInv, ToastsAreOwn
<1>12. ASSUME NEW m \in wire'
       PROVE  /\ filed'[m[1]].owner \in guests'
              /\ Hears(m[2])' => filed'[m[1]].owner = viewer' /\ \A i \in DOMAIN live' : live'[i] # m[1]
  <2>1. Hears(m[2])' = Hears(m[2])
    BY <1>1 DEF Hears
  <2>2. CASE m \in wire
    <3>1. /\ m[1] \in Notices /\ filed[m[1]].owner \in guests
          /\ Hears(m[2]) => filed[m[1]].owner = viewer /\ \A i \in DOMAIN live : live[i] # m[1]
      BY <2>2, WireNotices
    <3>2. filed'[m[1]] = filed[m[1]]
      BY <1>3, <1>4, <3>1
    <3> QED
      BY <1>1, <2>1, <3>1, <3>2
  <2>3. CASE \E s \in Room(u) : m = <<n, s>>
    <3>1. m[1] = n /\ u \in guests /\ (Hears(m[2]) => u = viewer)
      BY <1>5, <2>3
    <3> QED
      BY <1>1, <1>2, <1>8, <2>1, <3>1
  <2> QED
    BY <1>1, <2>2, <2>3
<1>13. WireInv'
  BY <1>12 DEF WireInv
<1> QED
  BY <1>7, <1>9, <1>10, <1>11, <1>13 DEF BellInv

\* What comes on the viewer's socket was made for the viewer, and comes there once.
LEMMA BellHears ==
  ASSUME BellInv, NoticeComes
  PROVE  BellInv'
<1>1. PICK m \in wire :
         /\ wire' = wire \ {m}
         /\ \/ Hears(m[2]) /\ live' = <<m[1]>> \o live /\ toasts' = toasts \cup {<<m[1], viewer>>}
            \/ UNCHANGED <<live, toasts>>
  BY DEF NoticeComes
<1>2. UNCHANGED <<viewer, socket, left, tokens, guests, filed, listed>> /\ \A s : Hears(s)' = Hears(s)
  BY DEF NoticeComes, Hears
<1>3. m[1] \in Notices /\ m = <<m[1], m[2]>> /\ filed[m[1]].owner \in guests
      /\ (Hears(m[2]) => filed[m[1]].owner = viewer /\ \A i \in DOMAIN live : live[i] # m[1])
  BY <1>1, WireNotices
<1>4. SocketsInv'
  BY <1>2 DEF BellInv, SocketsInv
<1>5. CASE UNCHANGED <<live, toasts>>
  <2>1. BellTypeOK'
    BY <1>1, <1>2, <1>5 DEF BellInv, BellTypeOK
  <2> QED
    BY <1>1, <1>2, <1>4, <1>5, <2>1, BellStays
<1>6. CASE Hears(m[2]) /\ live' = <<m[1]>> \o live /\ toasts' = toasts \cup {<<m[1], viewer>>}
  <2> DEFINE n == m[1]
  <2>1. viewer \in Viewers /\ filed[n].owner = viewer /\ \A i \in DOMAIN live : live[i] # n
    BY <1>3, <1>6 DEF Hears, BellInv, BellTypeOK
  <2> HIDE DEF n
  <2>2. live \in Seq(Notices) /\ guests \subseteq Viewers /\ n \in Notices /\ live' = <<n>> \o live
    BY <1>3, <1>6 DEF BellInv, BellTypeOK, n
  <2>3. /\ live' \in Seq(Notices) /\ DOMAIN live' = 1..(Len(live) + 1) /\ live'[1] = n
        /\ \A i \in 2..(Len(live) + 1) : live'[i] = live[i - 1]
    BY <2>2
  <2>4. \A i \in DOMAIN live' : i = 1 \/ (i - 1 \in 1..Len(live) /\ live'[i] = live[i - 1])
    BY <2>2, <2>3
  <2>5. \A i \in 1..Len(live) : filed[live[i]].owner \in guests /\ live[i] # n
    BY <2>1, <2>2 DEF BellInv
  <2>6. \A i \in DOMAIN live' : filed'[live'[i]].owner \in guests'
    BY <1>2, <1>3, <2>3, <2>4, <2>5 DEF n
  <2>7. \A i \in DOMAIN listed' : filed'[listed'[i].notice].owner \in guests'
    BY <1>2 DEF BellInv
  <2>8. \A t \in toasts' : filed'[t[1]].owner = t[2]
    BY <1>2, <1>6, <2>1 DEF BellInv, ToastsAreOwn, n
  <2>9. ASSUME NEW i \in DOMAIN live', NEW j \in DOMAIN live', live'[i] = live'[j] PROVE i = j
    <3>1. \A k, l \in 1..Len(live) : live[k] = live[l] => k = l
      BY <2>2 DEF BellInv, ToastsAreOwn
    <3>2. i \in Nat /\ j \in Nat
      BY <2>2, <2>3
    <3> QED
      BY <2>3, <2>4, <2>5, <2>9, <3>1, <3>2
  <2>10. ToastsAreOwn'
    BY <2>8, <2>9 DEF ToastsAreOwn
  <2>11. toasts' \subseteq Notices \X Viewers
    BY <1>6, <2>1, <2>2 DEF BellInv, BellTypeOK, n
  <2>12. BellTypeOK'
    BY <1>1, <1>2, <2>3, <2>11 DEF BellInv, BellTypeOK
  <2>13. ASSUME NEW o \in wire'
         PROVE  /\ filed'[o[1]].owner \in guests'
                /\ Hears(o[2])' => filed'[o[1]].owner = viewer' /\ \A i \in DOMAIN live' : live'[i] # o[1]
    <3>1. o \in wire /\ o # m
      BY <1>1
    <3>2. /\ o = <<o[1], o[2]>> /\ filed[o[1]].owner \in guests
          /\ Hears(o[2]) => filed[o[1]].owner = viewer /\ \A i \in DOMAIN live : live[i] # o[1]
      BY <3>1, WireNotices
    <3>3. ASSUME Hears(o[2]) PROVE \A i \in DOMAIN live' : live'[i] # o[1]
      <4>1. o[2] = m[2]
        BY <1>6, <3>3 DEF Hears
      <4>2. o[1] # n
        BY <1>3, <3>1, <3>2, <4>1 DEF n
      <4> QED
        BY <2>2, <2>3, <2>4, <3>2, <3>3, <4>2
    <3> QED
      BY <1>2, <3>2, <3>3
  <2>14. WireInv'
    BY <2>13 DEF WireInv
  <2> QED
    BY <1>4, <2>6, <2>7, <2>10, <2>12, <2>14 DEF BellInv
<1> QED
  BY <1>1, <1>5, <1>6

LEMMA BellFetched ==
  ASSUME BellInv, FetchBell
  PROVE  BellInv'
<1>1. PICK k \in 0..BellSize : \E s \in [1..k -> {n \in Notices : filed[n].owner = viewer}] :
         listed' = [i \in DOMAIN s |-> [notice |-> s[i], read |-> filed[s[i]].read]]
  BY DEF FetchBell
<1>2. PICK s \in [1..k -> {n \in Notices : filed[n].owner = viewer}] :
         listed' = [i \in 1..k |-> [notice |-> s[i], read |-> filed[s[i]].read]]
  BY <1>1
<1>3. k \in Nat /\ \A i \in 1..k : s[i] \in Notices /\ filed[s[i]].owner = viewer /\ filed[s[i]].read \in BOOLEAN
  BY <1>2, LiveAssumption DEF BellInv, BellTypeOK
<1>4. viewer \in guests /\ UNCHANGED <<viewer, socket, left, wire, tokens, guests, filed, live, toasts>>
  BY DEF FetchBell, BellInv, SocketsInv
<1>5. DOMAIN listed' = 1..k /\ \A i \in 1..k : listed'[i].notice = s[i]
  BY <1>2
<1>6. listed' \in Seq([notice : Notices, read : BOOLEAN])
  <2> DEFINE Row == [notice : Notices, read : BOOLEAN]
  <2>1. \A i \in 1..k : [notice |-> s[i], read |-> filed[s[i]].read] \in Row
    BY <1>3
  <2> HIDE DEF Row
  <2>2. listed' \in [1..k -> Row]
    BY <1>2, <2>1
  <2>3. \A g \in [1..k -> Row] : g \in Seq(Row)
    BY <1>3, SMT
  <2>4. listed' \in Seq(Row)
    BY <2>2, <2>3
  <2> QED
    BY <2>4 DEF Row
<1>7. BellTypeOK' /\ SocketsInv' /\ WireInv'
  BY <1>4, <1>6 DEF BellInv, BellTypeOK, SocketsInv, WireInv, Hears
<1>8. ToastsAreOwn' /\ \A i \in DOMAIN live' : filed'[live'[i]].owner \in guests'
  BY <1>4 DEF BellInv, ToastsAreOwn
<1> QED
  BY <1>3, <1>4, <1>5, <1>7, <1>8 DEF BellInv

\* A token, a sign-out or a connection.
LEMMA BellConnects ==
  ASSUME BellInv, (\E u \in Viewers : NewToken(u)) \/ Leave \/ JoinRoom \/ Disconnect \/ Drop
  PROVE  BellInv'
<1>1. ASSUME NEW u \in Viewers, NewToken(u) PROVE BellInv'
  <2>1. /\ guests' = guests \cup {u} /\ viewer' = u /\ tokens' = tokens + 1 /\ socket' = "connecting"
        /\ left' = IF socket = "in" THEN left \cup {<<tokens, viewer>>} ELSE left
        /\ UNCHANGED <<wire, live, listed, toasts, filed>>
    BY <1>1, LiveAssumption DEF NewToken, NewSocket
  <2>2. tokens' \in 1..MaxTokensSeen
    BY <1>1, LiveAssumption DEF NewToken, BellInv, BellTypeOK
  <2>3. socket = "in" => viewer \in guests /\ tokens \in 1..tokens
    BY LiveAssumption DEF BellInv, BellTypeOK, SocketsInv
  <2>4. left' \subseteq (1..tokens) \X guests
    BY <2>1, <2>3 DEF BellInv, BellTypeOK
  <2>5. wire \subseteq Notices \X (1..tokens) /\ tokens \in Nat
    BY DEF BellInv, BellTypeOK
  <2>6. left' \subseteq (1..tokens') \X guests' /\ wire' \subseteq Notices \X (1..tokens')
    BY <2>1, <2>4, <2>5
  <2>7. BellTypeOK'
    BY <2>1, <2>2, <2>6 DEF BellInv, BellTypeOK
  <2>8. \A l \in left' : l[1] < tokens'
    BY <2>1, <2>4, <2>5
  <2>9. SocketsInv'
    BY <2>1, <2>2, <2>8, LiveAssumption DEF SocketsInv
  <2>10. \A m \in wire' : ~Hears(m[2])'
    BY <2>1, <2>5 DEF Hears
  <2> QED
    BY <2>1, <2>7, <2>9, <2>10, BellStays
<1>2. CASE Leave
  <2>1. /\ viewer' = NoViewer /\ socket' = "off" /\ UNCHANGED <<wire, tokens, guests, live, listed, toasts, filed>>
        /\ left' = IF socket = "in" THEN left \cup {<<tokens, viewer>>} ELSE left
    BY <1>2 DEF Leave, NewSocket
  <2>2. socket = "in" => viewer \in guests /\ tokens \in 1..tokens
    BY LiveAssumption DEF BellInv, BellTypeOK, SocketsInv
  <2>3. left' \subseteq (1..tokens) \X guests
    BY <2>1, <2>2 DEF BellInv, BellTypeOK
  <2>4. BellTypeOK' /\ SocketsInv'
    BY <2>1, <2>3 DEF BellInv, BellTypeOK, SocketsInv
  <2>5. \A m \in wire' : ~Hears(m[2])'
    BY <2>1 DEF Hears
  <2> QED
    BY <2>1, <2>4, <2>5, BellStays
<1>3. CASE JoinRoom \/ Disconnect \/ Drop
  <2>1. /\ UNCHANGED <<viewer, left, tokens, guests, live, listed, toasts, filed>> /\ viewer # NoViewer
        /\ socket' \in {"off", "connecting", "in"} /\ wire' \subseteq wire
    BY <1>3 DEF JoinRoom, Disconnect, Drop, BellInv, SocketsInv
  <2>2. BellTypeOK' /\ SocketsInv'
    BY <2>1 DEF BellInv, BellTypeOK, SocketsInv
  <2>3. \A m \in wire' : Hears(m[2])' => Hears(m[2])
    BY <2>1 DEF Hears
  <2> QED
    BY <2>1, <2>2, <2>3, BellStays
<1> QED
  BY <1>1, <1>2, <1>3

LEMMA BellInvNext == BellInv /\ [LiveNext]_liveVars => BellInv'
<1> SUFFICES ASSUME BellInv, [LiveNext]_liveVars PROVE BellInv'
  OBVIOUS
<1>1. ASSUME NEW n \in Notices, ReadNotice(n) PROVE BellInv'
  <2>1. /\ UNCHANGED <<viewer, socket, left, wire, tokens, guests, live, listed, toasts>>
        /\ \A m \in Notices : filed'[m].owner = filed[m].owner
    BY <1>1 DEF ReadNotice, BellInv, BellTypeOK
  <2>2. BellTypeOK' /\ SocketsInv'
    BY <1>1, <2>1 DEF ReadNotice, BellInv, BellTypeOK, SocketsInv
  <2>3. \A m \in wire' : Hears(m[2])' => Hears(m[2])
    BY <2>1 DEF Hears
  <2> QED
    BY <2>1, <2>2, <2>3, BellStays
<1>2. ASSUME UNCHANGED bellVars PROVE BellInv'
  BY <1>2 DEF bellVars, BellInv, BellTypeOK, SocketsInv, WireInv, Hears, ToastsAreOwn
<1>3. CASE BoardNext \/ UNCHANGED liveVars
  BY <1>2, <1>3 DEF BoardNext, liveVars, StoreQuote, StoreSilently, EmitQuote, ReceiveQuote, MarketDrops, MarketConnects,
                    OpenWatchlist, CloseWatchlist, LoadFromProvider, LoadFromRows, ReceivePrices, OpenDashboard,
                    CloseDashboard, PushDollar, PushRisk
<1> QED
  BY <1>1, <1>3, BellConnects, BellSent, BellHears, BellFetched DEF LiveNext, BellNext

LEMMA ListsJoined ==
  ASSUME NEW S, NEW s \in Seq(S), NEW t \in Seq(S)
  PROVE  /\ s \o t \in Seq(S) /\ Len(s \o t) = Len(s) + Len(t)
         /\ \A j \in 1..Len(s \o t) : (s \o t)[j] = IF j <= Len(s) THEN s[j] ELSE t[j - Len(s)]
  OBVIOUS

\* The bell draws a prefix of what was heard and what was fetched.
LEMMA BellDrawsOwn == BellInv => BellIsOwn
<1> SUFFICES ASSUME BellInv, viewer # NoViewer, guests \subseteq {viewer}, NEW i \in DOMAIN Inbox
             PROVE  filed[Inbox[i].notice].owner = viewer
  BY DEF BellIsOwn
<1> DEFINE heard == [j \in 1..Len(live) |-> [notice |-> live[j], read |-> FALSE]]
           all == heard \o listed
           n == IF Len(all) < BellSize THEN Len(all) ELSE BellSize
           R == [notice : Notices, read : BOOLEAN]
<1>1. live \in Seq(Notices) /\ listed \in Seq(R)
  BY DEF BellInv, BellTypeOK
<1>2. heard \in Seq(R) /\ Len(heard) = Len(live) /\ \A j \in 1..Len(live) : heard[j].notice = live[j]
  BY <1>1
<1>3. Inbox = SubSeq(all, 1, n)
  BY DEF Inbox
<1> HIDE DEF heard, R
<1>4. /\ all \in Seq(R) /\ Len(all) = Len(heard) + Len(listed)
      /\ \A j \in 1..Len(all) : all[j] = IF j <= Len(heard) THEN heard[j] ELSE listed[j - Len(heard)]
  BY <1>1, <1>2, ListsJoined
<1> HIDE DEF all
<1>5. n \in Nat /\ n <= Len(all)
  BY <1>4, LiveAssumption
<1> HIDE DEF n
<1>6. i \in 1..Len(all) /\ Inbox[i] = all[i]
  BY <1>3, <1>4, <1>5
<1>7. filed[all[i].notice].owner \in guests
  <2>1. CASE i <= Len(live)
    BY <1>1, <1>2, <1>4, <1>6, <2>1 DEF BellInv
  <2>2. CASE ~(i <= Len(live))
    <3>1. i - Len(heard) \in 1..Len(listed) /\ all[i] = listed[i - Len(heard)]
      BY <1>1, <1>2, <1>4, <1>6, <2>2
    <3>2. 1..Len(listed) = DOMAIN listed
      BY <1>1
    <3> QED
      BY <3>1, <3>2 DEF BellInv
  <2> QED
    BY <2>1, <2>2
<1> QED
  BY <1>6, <1>7

-----------------------------------------------------------------------------
(* The prices. *)

QuoteRec ==
    [stored : 0..LastPush, refreshed : 0..LastPush, due : SUBSET (1..LastPush), silent : SUBSET (1..LastPush)]

PricesRec ==
    [open : BOOLEAN, on : BOOLEAN, coming : Seq(1..LastPush), pushed : 0..LastPush, answer : 0..LastPush,
     fetched : 0..LastPush, missed : BOOLEAN]

\* The latest refreshed quote has yet to be pushed, is the last one on its way, or is what the page has.
Reaches(refreshed, due, coming, pushed) ==
    \/ refreshed \in due
    \/ coming # <<>> /\ coming[Len(coming)] = refreshed
    \/ coming = <<>> /\ pushed = refreshed

\* A quote later than the latest refreshed one was stored by who never pushes.
Accounted(stored, refreshed, untold) ==
    refreshed <= stored /\ \A q \in 1..stored : q > refreshed => q \in untold

QuoteInv ==
    /\ quote \in QuoteRec /\ prices \in PricesRec
    /\ prices.answer <= quote.stored /\ prices.fetched <= quote.stored
    /\ Accounted(quote.stored, quote.refreshed, quote.silent)
    /\ prices.missed \/ Reaches(quote.refreshed, quote.due, prices.coming, prices.pushed)

LEMMA QuoteFields ==
  ASSUME QuoteInv
  PROVE  /\ quote \in QuoteRec /\ quote.stored \in 0..LastPush /\ quote.refreshed \in 0..LastPush
         /\ quote.due \subseteq 1..LastPush /\ quote.silent \subseteq 1..LastPush
  BY DEF QuoteInv, QuoteRec

LEMMA PricesFields ==
  ASSUME QuoteInv
  PROVE  /\ prices \in PricesRec /\ prices.coming \in Seq(1..LastPush) /\ prices.pushed \in 0..LastPush
         /\ prices.answer \in 0..LastPush /\ prices.fetched \in 0..LastPush
         /\ prices.open \in BOOLEAN /\ prices.on \in BOOLEAN /\ prices.missed \in BOOLEAN
  BY DEF QuoteInv, PricesRec

LEMMA QuoteInvInit == LiveInit => QuoteInv
<1> SUFFICES ASSUME LiveInit PROVE QuoteInv
  OBVIOUS
<1>1. quote = NoQuotes /\ prices = NoPrices
  BY DEF LiveInit
<1>2. quote \in QuoteRec /\ prices \in PricesRec
  BY <1>1, LiveAssumption DEF QuoteRec, PricesRec, NoQuotes, NoPrices
<1> QED
  BY <1>1, <1>2 DEF QuoteInv, Accounted, Reaches, NoQuotes, NoPrices

\* A quote that a refresh stores is due.
LEMMA QuoteStored == QuoteInv /\ StoreQuote => QuoteInv'
<1> SUFFICES ASSUME QuoteInv, StoreQuote PROVE QuoteInv'
  OBVIOUS
<1> DEFINE n == NextQuote
           dues == quote.due \cup {n}
<1>1. n \in 0..LastPush /\ n \in 1..LastPush /\ n = quote.stored + 1 /\ dues \in SUBSET (1..LastPush) /\ n \in dues
  BY QuoteFields, LiveAssumption DEF StoreQuote, NextQuote
<1>2. quote' = [quote EXCEPT !.stored = n, !.refreshed = n, !.due = dues] /\ prices' = prices
  BY DEF StoreQuote
<1> HIDE DEF n, dues
<1>3. /\ quote' \in QuoteRec /\ quote'.stored = n /\ quote'.refreshed = n /\ quote'.due = dues
      /\ quote'.silent = quote.silent
  BY <1>1, <1>2, QuoteFields DEF QuoteRec
<1>4. Accounted(n, n, quote.silent) /\ Reaches(n, dues, prices.coming, prices.pushed)
  BY <1>1 DEF Accounted, Reaches
<1>5. prices.answer <= n /\ prices.fetched <= n
  BY <1>1, QuoteFields, PricesFields DEF QuoteInv
<1> QED
  BY <1>2, <1>3, <1>4, <1>5 DEF QuoteInv

\* One that is stored silently is accounted for; the page may be given it at once.
LEMMA QuoteSilent ==
  ASSUME QuoteInv, quote.stored < LastPush,
         quote' = [quote EXCEPT !.stored = NextQuote, !.silent = @ \cup {NextQuote}],
         prices' = prices \/ prices' = [prices EXCEPT !.answer = NextQuote]
  PROVE  QuoteInv'
<1> DEFINE n == NextQuote
           told == quote.silent \cup {n}
<1>1. n \in 0..LastPush /\ n \in 1..LastPush /\ n = quote.stored + 1 /\ told \in SUBSET (1..LastPush) /\ n \in told
  BY QuoteFields, LiveAssumption DEF NextQuote
<1>2. quote' = [quote EXCEPT !.stored = n, !.silent = told] /\ (prices' = prices \/ prices' = [prices EXCEPT !.answer = n])
      /\ quote.silent \subseteq told
  OBVIOUS
<1> HIDE DEF n, told
<1>3. /\ quote' \in QuoteRec /\ quote'.stored = n /\ quote'.refreshed = quote.refreshed /\ quote'.due = quote.due
      /\ quote'.silent = told
  BY <1>1, <1>2, QuoteFields DEF QuoteRec
<1>4. /\ prices' \in PricesRec /\ prices'.answer \in {prices.answer, n} /\ prices'.fetched = prices.fetched
      /\ prices'.coming = prices.coming /\ prices'.pushed = prices.pushed /\ prices'.missed = prices.missed
  BY <1>1, <1>2, PricesFields DEF PricesRec
<1>5. Accounted(n, quote.refreshed, told)
  <2>1. quote.stored \in Nat /\ quote.refreshed <= quote.stored /\ \A q \in 1..quote.stored : q > quote.refreshed => q \in quote.silent
    BY QuoteFields DEF QuoteInv, Accounted
  <2>2. \A q \in 1..n : q = n \/ q \in 1..quote.stored
    BY <1>1, <2>1
  <2> QED
    BY <1>1, <1>2, <2>1, <2>2, QuoteFields DEF Accounted
<1>6. prices'.answer <= n /\ prices'.fetched <= n
  BY <1>1, <1>4, QuoteFields, PricesFields DEF QuoteInv
<1> QED
  BY <1>3, <1>4, <1>5, <1>6 DEF QuoteInv

\* A push is no longer due: it is on its way, last of all, or it was not heard.
LEMMA QuoteEmitted == QuoteInv /\ EmitQuote => QuoteInv'
<1> SUFFICES ASSUME QuoteInv, EmitQuote PROVE QuoteInv'
  OBVIOUS
<1> DEFINE heard == prices.open /\ prices.on
<1>1. PICK n \in quote.due :
         /\ quote' = [quote EXCEPT !.due = @ \ {n}]
         /\ prices' = [prices EXCEPT !.coming = IF heard THEN Append(@, n) ELSE @,
                                     !.missed = IF n = quote.refreshed THEN ~heard ELSE @ \/ heard]
  BY DEF EmitQuote
<1> DEFINE dues == quote.due \ {n}
           way == IF heard THEN Append(prices.coming, n) ELSE prices.coming
           lost == IF n = quote.refreshed THEN ~heard ELSE prices.missed \/ heard
<1>2. n \in 1..LastPush /\ dues \in SUBSET (1..LastPush) /\ way \in Seq(1..LastPush) /\ lost \in BOOLEAN
  <2> DEFINE S == 1..LastPush
  <2>1. n \in S /\ quote.due \subseteq S /\ prices.coming \in Seq(S) /\ prices.missed \in BOOLEAN
    BY <1>1, QuoteFields, PricesFields
  <2> HIDE DEF S
  <2>2. dues \in SUBSET S /\ way \in Seq(S) /\ lost \in BOOLEAN
    <3>1. Append(prices.coming, n) \in Seq(S)
      BY <2>1
    <3>2. dues \in SUBSET S /\ lost \in BOOLEAN
      BY <2>1, Zenon
    <3> QED
      BY <2>1, <3>1, <3>2, Zenon
  <2> QED
    BY <2>1, <2>2 DEF S
<1>3. quote' = [quote EXCEPT !.due = dues] /\ prices' = [prices EXCEPT !.coming = way, !.missed = lost]
  BY <1>1
<1>4. lost \/ Reaches(quote.refreshed, dues, way, prices.pushed)
  <2>1. CASE n = quote.refreshed /\ heard
    <3>1. way = Append(prices.coming, n) /\ prices.coming \in Seq(1..LastPush)
      BY <2>1, PricesFields
    <3>2. Len(way) = Len(prices.coming) + 1 /\ way[Len(prices.coming) + 1] = n /\ way # <<>>
      BY <3>1
    <3> QED
      BY <2>1, <3>2 DEF Reaches
  <2>2. CASE n # quote.refreshed /\ ~heard
    <3>1. way = prices.coming /\ (lost \/ Reaches(quote.refreshed, quote.due, prices.coming, prices.pushed))
      BY <2>2 DEF QuoteInv
    <3>2. quote.refreshed \in quote.due => quote.refreshed \in dues
      BY <2>2
    <3> QED
      BY <3>1, <3>2 DEF Reaches
  <2> QED
    BY <2>1, <2>2
<1> HIDE DEF dues, way, lost
<1>5. /\ quote' \in QuoteRec /\ quote'.stored = quote.stored /\ quote'.refreshed = quote.refreshed /\ quote'.due = dues
      /\ quote'.silent = quote.silent
  BY <1>2, <1>3, QuoteFields DEF QuoteRec
<1>6. /\ prices' \in PricesRec /\ prices'.answer = prices.answer /\ prices'.fetched = prices.fetched
      /\ prices'.coming = way /\ prices'.pushed = prices.pushed /\ prices'.missed = lost
  BY <1>2, <1>3, PricesFields DEF PricesRec
<1> QED
  BY <1>4, <1>5, <1>6 DEF QuoteInv

LEMMA HeadAndTail ==
  ASSUME NEW S, NEW s \in Seq(S), s # <<>>
  PROVE  /\ Head(s) = s[1] /\ Head(s) \in S /\ Tail(s) \in Seq(S)
         /\ Len(s) \in Nat \ {0} /\ Len(Tail(s)) \in Nat /\ Len(Tail(s)) + 1 = Len(s)
         /\ \A i \in 1..Len(Tail(s)) : Tail(s)[i] = s[i + 1]
         /\ Tail(s) = <<>> <=> Len(Tail(s)) = 0
<1>1. /\ Head(s) = s[1] /\ Tail(s) \in Seq(S) /\ Len(s) \in Nat \ {0} /\ Len(Tail(s)) = Len(s) - 1
      /\ \A i \in 1..Len(Tail(s)) : Tail(s)[i] = s[i + 1]
  OBVIOUS
<1>2. Head(s) \in S
  OBVIOUS
<1> DEFINE t == Tail(s)
<1>3. t \in Seq(S)
  BY <1>1
<1> HIDE DEF t
<1>4. Len(t) \in Nat /\ (t = <<>> <=> Len(t) = 0)
  BY <1>3
<1> QED
  BY <1>1, <1>2, <1>4 DEF t

LEMMA QuoteReceived == QuoteInv /\ ReceiveQuote => QuoteInv'
<1> SUFFICES ASSUME QuoteInv, ReceiveQuote PROVE QuoteInv'
  OBVIOUS
<1> DEFINE way == Tail(prices.coming)
           got == Head(prices.coming)
<1>1. prices.coming \in Seq(1..LastPush) /\ prices.coming # <<>> /\ quote' = quote
  BY PricesFields DEF ReceiveQuote
<1>2. /\ got = prices.coming[1] /\ got \in 1..LastPush /\ way \in Seq(1..LastPush)
      /\ Len(prices.coming) \in Nat \ {0} /\ Len(way) \in Nat /\ Len(way) + 1 = Len(prices.coming)
      /\ \A i \in 1..Len(way) : way[i] = prices.coming[i + 1]
      /\ way = <<>> <=> Len(way) = 0
  BY <1>1, HeadAndTail
<1>3. prices' = [prices EXCEPT !.coming = way, !.pushed = got]
  BY DEF ReceiveQuote
<1>4. got \in 0..LastPush
  BY <1>2
<1> HIDE DEF way, got
<1>5. /\ prices' \in PricesRec /\ prices'.answer = prices.answer /\ prices'.fetched = prices.fetched
      /\ prices'.coming = way /\ prices'.pushed = got /\ prices'.missed = prices.missed
  BY <1>2, <1>3, <1>4, PricesFields DEF PricesRec
<1>6. ASSUME Reaches(quote.refreshed, quote.due, prices.coming, prices.pushed)
      PROVE  Reaches(quote.refreshed, quote.due, way, got)
  <2>1. quote.refreshed \in quote.due \/ prices.coming[Len(prices.coming)] = quote.refreshed
    BY <1>1, <1>6 DEF Reaches
  <2>2. CASE Len(way) = 0
    BY <1>2, <2>1, <2>2 DEF Reaches
  <2>3. CASE Len(way) # 0
    <3>1. Len(way) \in 1..Len(way) /\ Len(way) + 1 = Len(prices.coming)
      BY <1>2, <2>3
    <3>2. way[Len(way)] = prices.coming[Len(prices.coming)]
      BY <1>2, <3>1
    <3> QED
      BY <1>2, <2>1, <2>3, <3>2 DEF Reaches
  <2> QED
    BY <2>2, <2>3
<1> QED
  BY <1>1, <1>5, <1>6 DEF QuoteInv

\* A lost connection, a closed page: what was on its way, or was shown, is missed.
LEMMA QuoteDropped == QuoteInv /\ (MarketDrops \/ CloseWatchlist) => QuoteInv'
<1> SUFFICES ASSUME QuoteInv, MarketDrops \/ CloseWatchlist PROVE QuoteInv'
  OBVIOUS
<1> DEFINE none == <<>>
<1>1. none \in Seq(1..LastPush) /\ quote' = quote
  BY DEF MarketDrops, CloseWatchlist
<1>2. CASE MarketDrops
  <2> DEFINE lost == prices.missed \/ prices.coming # <<>>
  <2>1. lost \in BOOLEAN /\ prices' = [prices EXCEPT !.on = FALSE, !.coming = none, !.missed = lost]
    BY <1>2, PricesFields DEF MarketDrops
  <2>2. lost \/ Reaches(quote.refreshed, quote.due, none, prices.pushed)
    BY DEF QuoteInv, Reaches
  <2> HIDE DEF lost, none
  <2>3. /\ prices' \in PricesRec /\ prices'.answer = prices.answer /\ prices'.fetched = prices.fetched
        /\ prices'.coming = none /\ prices'.pushed = prices.pushed /\ prices'.missed = lost
    BY <1>1, <2>1, PricesFields DEF PricesRec
  <2> QED
    BY <1>1, <2>2, <2>3 DEF QuoteInv
<1>3. CASE CloseWatchlist
  <2> DEFINE lost == quote.refreshed # 0
             zero == 0
  <2>1. lost \in BOOLEAN /\ zero \in 0..LastPush
        /\ prices' = [prices EXCEPT !.open = FALSE, !.coming = none, !.pushed = zero, !.missed = lost]
    BY <1>3, LiveAssumption DEF CloseWatchlist
  <2>2. lost \/ Reaches(quote.refreshed, quote.due, none, zero)
    BY DEF Reaches
  <2> HIDE DEF lost, none, zero
  <2>3. /\ prices' \in PricesRec /\ prices'.answer = prices.answer /\ prices'.fetched = prices.fetched
        /\ prices'.coming = none /\ prices'.pushed = zero /\ prices'.missed = lost
    BY <1>1, <2>1, PricesFields DEF PricesRec
  <2> QED
    BY <1>1, <2>2, <2>3 DEF QuoteInv
<1> QED
  BY <1>2, <1>3

\* A connection, a page that opens, an answer: nothing changes of what is pushed.
LEMMA QuoteAsked == QuoteInv /\ (MarketConnects \/ OpenWatchlist \/ LoadFromRows \/ ReceivePrices) => QuoteInv'
<1> SUFFICES ASSUME QuoteInv, MarketConnects \/ OpenWatchlist \/ LoadFromRows \/ ReceivePrices PROVE QuoteInv'
  OBVIOUS
<1>1. quote' = quote
  BY DEF MarketConnects, OpenWatchlist, LoadFromRows, ReceivePrices
<1>2. /\ prices' \in PricesRec /\ prices'.answer \in {0, quote.stored, prices.answer}
      /\ prices'.fetched \in {prices.fetched, prices.answer}
      /\ prices'.coming = prices.coming /\ prices'.pushed = prices.pushed /\ prices'.missed = prices.missed
  <2>1. CASE MarketConnects \/ OpenWatchlist
    <3>1. prices' = [prices EXCEPT !.on = TRUE] \/ prices' = [prices EXCEPT !.open = TRUE]
      BY <2>1 DEF MarketConnects, OpenWatchlist
    <3> QED
      BY <3>1, PricesFields DEF PricesRec
  <2>2. CASE LoadFromRows
    <3>1. PICK q \in {0, quote.stored} : prices' = [prices EXCEPT !.answer = q]
      BY <2>2 DEF LoadFromRows
    <3>2. q \in 0..LastPush
      BY QuoteFields, LiveAssumption
    <3> QED
      BY <3>1, <3>2, PricesFields DEF PricesRec
  <2>3. CASE ReceivePrices
    BY <2>3, PricesFields DEF PricesRec, ReceivePrices
  <2> QED
    BY <2>1, <2>2, <2>3
<1>3. prices'.answer <= quote.stored /\ prices'.fetched <= quote.stored
  BY <1>2, QuoteFields, PricesFields DEF QuoteInv
<1> QED
  BY <1>1, <1>2, <1>3 DEF QuoteInv

LEMMA QuoteInvNext == QuoteInv /\ [LiveNext]_liveVars => QuoteInv'
<1> SUFFICES ASSUME QuoteInv, [LiveNext]_liveVars PROVE QuoteInv'
  OBVIOUS
<1>1. CASE UNCHANGED <<quote, prices>>
  BY <1>1 DEF QuoteInv
<1>2. CASE BellNext \/ OpenDashboard \/ CloseDashboard \/ PushDollar \/ PushRisk \/ UNCHANGED liveVars
  BY <1>1, <1>2 DEF BellNext, OpenDashboard, CloseDashboard, PushDollar, PushRisk, liveVars, boardVars, NewToken,
                    NewNotification, NoticeComes, Leave, JoinRoom, Disconnect, Drop, FetchBell, ReadNotice
<1>3. CASE StoreSilently \/ LoadFromProvider
  BY <1>3, QuoteSilent DEF StoreSilently, LoadFromProvider
<1> QED
  BY <1>2, <1>3, QuoteStored, QuoteEmitted, QuoteReceived, QuoteDropped, QuoteAsked DEF LiveNext, BoardNext

\* The bell of the header and the watchlist, for any users, notifications, tokens and quotes: a
\* notification pops up once and before its user, whenever it comes and whoever signed in since,
\* the bell draws its user's until a second person signs in, and the watchlist shows the latest
\* refreshed price unless the push of it was lost or overtaken, and hides a newer one that it
\* loaded only if nobody pushes that.
THEOREM LiveTold == LiveSpec => []LiveIsTrue
<1>1. BellInv => ToastsAreOwn /\ BellIsOwn
  BY BellDrawsOwn DEF BellInv
<1>2. QuoteInv => PricesCatchUp
  <2> SUFFICES ASSUME QuoteInv, prices.fetched # 0, quote.due = {}, prices.coming = <<>>, ~prices.missed
               PROVE  /\ Overlaid = IF quote.refreshed # 0 THEN quote.refreshed ELSE prices.fetched
                      /\ prices.fetched > Overlaid => prices.fetched \in quote.silent
    BY DEF PricesCatchUp
  <2>1. prices.pushed = quote.refreshed
    BY DEF QuoteInv, Reaches
  <2>2. Overlaid = IF quote.refreshed # 0 THEN quote.refreshed ELSE prices.fetched
    BY <2>1 DEF Overlaid
  <2>3. prices.fetched \in 1..quote.stored /\ ~(prices.fetched > prices.fetched)
    BY QuoteFields, PricesFields, LiveAssumption DEF QuoteInv
  <2>4. prices.fetched > quote.refreshed => prices.fetched \in quote.silent
    BY <2>3 DEF QuoteInv, Accounted
  <2> QED
    BY <2>2, <2>3, <2>4
<1>3. BellInv /\ QuoteInv => LiveIsTrue
  BY <1>1, <1>2 DEF LiveIsTrue
<1> QED
  BY BellInvInit, BellInvNext, QuoteInvInit, QuoteInvNext, <1>3, PTL DEF LiveSpec
=============================================================================
