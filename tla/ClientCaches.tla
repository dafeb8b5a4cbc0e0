---------------------------- MODULE ClientCaches ----------------------------
(***************************************************************************)
(* What the web client keeps in localStorage for when the server does not  *)
(* answer: the parts of the dashboard (useDashboardData), the catalogue    *)
(* and the detail of an asset (useAsset).  Two tabs, or two mounts of a    *)
(* page, load at once and share the store.  A datum is known by the moment *)
(* at which the server gave it.                                            *)
(***************************************************************************)
EXTENDS Naturals

CONSTANTS
    Loads,       \* runs of a query function
    Instruments, \* FEATURED_INSTRUMENTS
    LastMoment   \* bound: the clock

ASSUME CachesAssumption == LastMoment \in Nat \ {0}

VARIABLES
    moment,
    store,  \* what localStorage has of each part, Missing if nothing
    writes, \* how often it was written or emptied
    load    \* load -> what it is for, when it began, and what it had read by then

cachesVars == <<moment, store, writes, load>>

Missing == 0

\* A part of the dashboard is one field of DashboardData, or one instrument's index; beside
\* it there are the price of an asset in the catalogue, and the detail of one.
DashboardParts == {"dollar", "riskValue", "riskHistory", "movers"} \cup Instruments
Parts == DashboardParts \cup {"price", "detail"}
Endpoints == {"dollar", "risk", "summary", "history", "movers"} \cup Instruments

Emptied == [p \in Parts |-> Missing]
Stored == [Parts -> 0..LastMoment]
NewLoad == [pc |-> "new", began |-> 0, base |-> 0, cached |-> Emptied]

CachesInit ==
    /\ moment = 1
    /\ store = Emptied
    /\ writes = 0
    /\ load = [l \in Loads |-> NewLoad]

\* What the server may have answered since the load began, or no usable answer.
Answers(l) == load[l].began..moment \cup {Missing}

Done(l) == load' = [load EXCEPT ![l] = [NewLoad EXCEPT !.pc = "done"]]

\* localStorage.setItem, which fails silently when the browser refuses.
Write(parts, data) ==
    \/ store' = [p \in Parts |-> IF p \in parts THEN data[p] ELSE store[p]] /\ writes' = writes + 1
    \/ UNCHANGED <<store, writes>>
-----------------------------------------------------------------------------
Begin(l, pc) ==
    /\ load[l].pc = "new"
    /\ load' = [load EXCEPT ![l] = [pc |-> pc, began |-> moment, base |-> writes,
                                    cached |-> IF pc = "dashboard" THEN store ELSE Emptied]]
    /\ UNCHANGED <<moment, store, writes>>

\* loadDashboardCache comes first; the detail and the catalogue read the store only when
\* an answer fails.
LoadDashboard(l) == Begin(l, "dashboard")
LoadCatalog(l) == Begin(l, "catalog")
LoadDetail(l) == Begin(l, "detail")

\* The value of the country risk comes from the first of three answers.
RiskValue(got) ==
    IF got["risk"] # Missing THEN got["risk"]
    ELSE IF got["summary"] # Missing THEN got["summary"] ELSE got["history"]

Received(p, got) ==
    CASE p = "riskValue" -> RiskValue(got)
      [] p = "riskHistory" -> got["history"]
      [] OTHER -> got[p]

\* Mutant of Fallback: nor for the history of the risk.
Fallback_Less(p, cached) == IF p \in {"movers", "riskHistory"} THEN Missing ELSE cached[p]

\* What stands in for a part that did not come; nothing does for the movers.
Fallback(p, cached) == IF p = "movers" THEN Missing ELSE cached[p]

\* All requests have settled, each with an answer or not; the result is shown and saved.
SaveDashboard(l) ==
    /\ load[l].pc = "dashboard"
    /\ \E got \in [Endpoints -> Answers(l)] :
          Write(DashboardParts,
                [p \in DashboardParts |->
                    IF Received(p, got) # Missing THEN Received(p, got) ELSE Fallback(p, load[l].cached)])
    /\ Done(l)
    /\ UNCHANGED moment

\* The catalogue came; the price of an asset whose statistics did not is 0.
SaveCatalog(l) ==
    /\ load[l].pc = "catalog"
    /\ \E t \in Answers(l) : Write({"price"}, [p \in {"price"} |-> t])
    /\ Done(l)
    /\ UNCHANGED moment

\* The detail needs all its answers, the statistics of related assets apart.
SaveDetail(l) ==
    /\ load[l].pc = "detail"
    /\ \E t \in load[l].began..moment : Write({"detail"}, [p \in {"detail"} |-> t])
    /\ Done(l)
    /\ UNCHANGED moment

\* The answer does not come: the store's is shown, or an error; 404 is shown as no asset.
LoadFails(l) ==
    /\ load[l].pc \in {"catalog", "detail"}
    /\ Done(l)
    /\ UNCHANGED <<moment, store, writes>>

\* The browser's storage is emptied.
Emptying ==
    /\ store # Emptied
    /\ store' = Emptied
    /\ writes' = writes + 1
    /\ UNCHANGED <<moment, load>>

MomentPasses ==
    /\ moment < LastMoment
    /\ moment' = moment + 1
    /\ UNCHANGED <<store, writes, load>>

CachesNext ==
    \/ \E l \in Loads :
          \/ LoadDashboard(l) \/ LoadCatalog(l) \/ LoadDetail(l)
          \/ SaveDashboard(l) \/ SaveCatalog(l) \/ SaveDetail(l) \/ LoadFails(l)
    \/ Emptying \/ MomentPasses

CachesSpec == CachesInit /\ [][CachesNext]_cachesVars
-----------------------------------------------------------------------------
(* Types: the store and the loads under way. *)
CachesTypeOK ==
    /\ moment \in 1..LastMoment
    /\ store \in Stored
    /\ writes \in Nat
    /\ load \in [Loads -> [pc : {"new", "dashboard", "catalog", "detail", "done"}, began : 0..LastMoment,
                           base : Nat, cached : Stored]]

\* useDashboardData, useAssetDetail: a load that no other write overtook never replaces a
\* part by an older one or by nothing, whichever of its requests fail: a part once seen
\* stays on the dashboard.  The movers are not kept.
SeenPartsStay ==
    [][\A l \in Loads :
          (load[l].pc \in {"dashboard", "detail"} /\ load'[l].pc = "done" /\ load[l].base = writes) =>
              \A p \in Parts \ {"movers"} : store'[p] >= store[p]]_cachesVars
=============================================================================
