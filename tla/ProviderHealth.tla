--------------------------- MODULE ProviderHealth ---------------------------
(***************************************************************************)
(* The record of how the sources of data do: ProviderHealthTracker runs    *)
(* every request to a site and stores a check of it, the query of the      *)
(* repository sums the checks up, the job of every five minutes renews the *)
(* summary and deletes old checks, GET /health/providers shows it, and the *)
(* scorer ranks the providers by it.                                       *)
(***************************************************************************)
EXTENDS Integers, FiniteSets, SequencesExt

CONSTANTS
    Sites,      \* registeredProviders that are asked here
    Calls,      \* requests that track runs
    Hour, Day,  \* windows of the summary
    HealthTtl,  \* five minutes, for which the endpoint uses the snapshot
    KeepChecks, \* 14 days
    LastTick    \* bound: the clock stops here

ASSUME HealthAssumption ==
    /\ IsFiniteSet(Sites)
    /\ Hour \in Nat \ {0} /\ Day \in Nat \ {0} /\ KeepChecks \in Nat \ {0} /\ Hour <= Day /\ Day <= KeepChecks
    /\ HealthTtl \in Nat /\ LastTick \in Nat /\ KeepChecks <= LastTick

VARIABLES
    tick,     \* the clock
    checks,   \* rows of provider_health
    tracked,  \* call -> its site, where it stands, and when its answer was handed on
    reading,  \* reader of the summary -> where it stands, and what its query brought
    latest,   \* cachedSnapshot
    display,  \* what the endpoint showed last
    ranking   \* what the scorer made of it last

healthVars == <<tick, checks, tracked, reading, latest, display, ranking>>

Readers == {"job", "endpoint", "scorer"}

Check(c, ok) == [site |-> tracked[c].site, call |-> c, ok |-> ok, at |-> tick]

NoSummary == [status |-> "UNKNOWN", uptime |-> 0, errors |-> 0, checked |-> FALSE, age |-> 0]
NothingKnown == [s \in Sites |-> NoSummary]
NoSnapshotYet == [updated |-> -1, sites |-> NothingKnown, asked |-> {}]

HealthInit ==
    /\ tick = KeepChecks
    /\ checks = {}
    /\ tracked \in [Calls -> {[site |-> s, pc |-> "new", at |-> 0] : s \in Sites}]
    /\ reading = [r \in Readers |-> [pc |-> "idle", rows |-> {}, asked |-> {}]]
    /\ latest = NoSnapshotYet
    /\ display = NoSnapshotYet
    /\ ranking = <<>>
-----------------------------------------------------------------------------
(* track. *)

TrackedTo(c, pc) == tracked' = [tracked EXCEPT ![c].pc = pc]

\* The operation begins, and ends.
Track(c) ==
    /\ tracked[c].pc = "new" /\ TrackedTo(c, "asked")
    /\ UNCHANGED <<tick, checks, reading, latest, display, ranking>>

OperationEnds(c) ==
    /\ tracked[c].pc = "asked"
    /\ \E pc \in {"succeeded", "failed"} : TrackedTo(c, pc)
    /\ UNCHANGED <<tick, checks, reading, latest, display, ranking>>

\* The answer is handed on when its check is saved.
SaveSuccess(c) ==
    /\ tracked[c].pc = "succeeded"
    /\ checks' = checks \cup {Check(c, TRUE)}
    /\ tracked' = [tracked EXCEPT ![c].pc = "handed", ![c].at = tick]
    /\ UNCHANGED <<tick, reading, latest, display, ranking>>

\* Mutant of AfterLostCheck: the answer is handed on all the same.
AfterLostCheck_Handed(c) == [tracked EXCEPT ![c].pc = "handed", ![c].at = tick]

\* The insert is inside the try: its failure counts as one of the site.
AfterLostCheck(c) == [tracked EXCEPT ![c].pc = "failed"]

\* The insert fails, or its answer is lost.
SuccessIsLost(c) ==
    /\ tracked[c].pc = "succeeded"
    /\ checks' \in {checks, checks \cup {Check(c, TRUE)}}
    /\ tracked' = AfterLostCheck(c)
    /\ UNCHANGED <<tick, reading, latest, display, ranking>>

\* The failure is saved, or that fails too; the caller gets an error.
SaveFailure(c) ==
    /\ tracked[c].pc = "failed"
    /\ checks' \in {checks, checks \cup {Check(c, FALSE)}}
    /\ TrackedTo(c, "thrown")
    /\ UNCHANGED <<tick, reading, latest, display, ranking>>
-----------------------------------------------------------------------------
(* getProviderSummaries. *)

ChecksOf(s, since) == {k \in checks : k.site = s /\ k.at >= since}
Percent(part, all) == IF all = {} THEN 0 ELSE (100 * Cardinality(part)) \div Cardinality(all)

\* What the driver makes of a count that the query casts to int.
CountType == "number"

\* A row of the result; of checks at the same time any may be the last event.
RawRow(s) ==
    LET dayChecks == ChecksOf(s, tick - Day)
        hourChecks == ChecksOf(s, tick - Hour)
        last == CHOOSE k \in dayChecks : \A o \in dayChecks : o.at <= k.at
    IN  [site |-> s, counts |-> CountType, status |-> IF last.ok THEN "SUCCESS" ELSE "FAILURE",
         uptime |-> Percent({k \in dayChecks : k.ok}, dayChecks),
         errors |-> Percent({k \in hourChecks : ~k.ok}, hourChecks), checked |-> TRUE, age |-> tick - last.at]

RawRows == {RawRow(s) : s \in {t \in Sites : ChecksOf(t, tick - Day) # {}}}

\* isRawSummaryRow: a row whose counts are not strings is left out.
IsRawSummaryRow(row) == row.counts = "string"

Summaries == {row \in RawRows : IsRawSummaryRow(row)}
-----------------------------------------------------------------------------
(* getProviderHealth and refreshRollingMetrics. *)

\* The endpoint uses a snapshot of the last five minutes.
SnapshotServes == latest.updated >= 0 /\ tick - latest.updated <= HealthTtl

ShowSnapshot ==
    /\ reading["endpoint"].pc = "idle" /\ SnapshotServes
    /\ display' = latest
    /\ UNCHANGED <<tick, checks, tracked, reading, latest, ranking>>

\* The job and the scorer query always.
QuerySummaries(r) ==
    /\ reading[r].pc = "idle"
    /\ r = "endpoint" => ~SnapshotServes
    /\ reading' = [reading EXCEPT ![r] = [pc |-> "queried", rows |-> Summaries, asked |-> {row.site : row \in RawRows}]]
    /\ UNCHANGED <<tick, checks, tracked, latest, display, ranking>>

\* Registered providers without a row are unknown.
ByProvider(rows) ==
    [s \in Sites |-> IF \E row \in rows : row.site = s
                     THEN LET row == CHOOSE x \in rows : x.site = s
                          IN  [status |-> row.status, uptime |-> row.uptime, errors |-> row.errors,
                               checked |-> row.checked, age |-> row.age]
                     ELSE NoSummary]

\* toAgeScore, in two classes; the latency is left out.
AgeScore(h) == IF h.checked /\ h.age <= HealthTtl THEN 100 ELSE 0

\* toProviderScore, in tenths, without the part of the latency.
HealthScore(h) == 4 * h.uptime + 3 * (100 - h.errors) + AgeScore(h)

\* scoreProviders: the sort keeps providers with equal scores in the order in which they are registered.
Registered == SetToSeq(Sites)
Place(s) == CHOOSE i \in DOMAIN Registered : Registered[i] = s
Outranks(h, s, t) ==
    \/ HealthScore(h[s]) > HealthScore(h[t])
    \/ HealthScore(h[s]) = HealthScore(h[t]) /\ Place(s) < Place(t)

\* The one order of all sites in which each outranks those after it.
Ranked(h) == {order \in SetToSeqs(Sites) : \A i, j \in DOMAIN order : i < j => Outranks(h, order[i], order[j])}

\* The snapshot is dated by the moment the query comes back.
KeepSnapshot(r) ==
    /\ reading[r].pc = "queried"
    /\ latest' = [updated |-> tick, sites |-> ByProvider(reading[r].rows), asked |-> reading[r].asked]
    /\ reading' = [reading EXCEPT ![r].pc = IF r = "job" THEN "cleanup" ELSE "idle"]
    /\ display' = IF r = "endpoint" THEN latest' ELSE display
    /\ ranking' \in IF r = "scorer" THEN Ranked(latest'.sites) ELSE {ranking}
    /\ UNCHANGED <<tick, checks, tracked>>

\* ProviderHealthJob and the others catch it or hand it on: nothing is kept.
QueryFails(r) ==
    /\ reading[r].pc = "queried"
    /\ reading' = [reading EXCEPT ![r].pc = "idle"]
    /\ UNCHANGED <<tick, checks, tracked, latest, display, ranking>>

\* Mutant of Expired: the window of the summary instead of the retention.
Expired_Day == {k \in checks : k.at < tick - Day}

Expired == {k \in checks : k.at < tick - KeepChecks}

\* cleanupStaleChecks, at the end of the job.
CleanUp ==
    /\ reading["job"].pc = "cleanup"
    /\ checks' \in {checks \ Expired, checks}
    /\ reading' = [reading EXCEPT !["job"].pc = "idle"]
    /\ UNCHANGED <<tick, tracked, latest, display, ranking>>

TickPasses ==
    /\ tick < LastTick
    /\ tick' = tick + 1
    /\ UNCHANGED <<checks, tracked, reading, latest, display, ranking>>

HealthNext ==
    \/ \E c \in Calls : Track(c) \/ OperationEnds(c) \/ SaveSuccess(c) \/ SuccessIsLost(c) \/ SaveFailure(c)
    \/ \E r \in Readers : QuerySummaries(r) \/ KeepSnapshot(r) \/ QueryFails(r)
    \/ ShowSnapshot \/ CleanUp \/ TickPasses

HealthSpec == HealthInit /\ [][HealthNext]_healthVars
-----------------------------------------------------------------------------
(* Types: the checks, the requests and the snapshot. *)
HealthTypeOK ==
    /\ tick \in KeepChecks..LastTick
    /\ checks \subseteq [site : Sites, call : Calls, ok : BOOLEAN, at : 0..LastTick]
    /\ tracked \in [Calls -> [site : Sites, pc : {"new", "asked", "succeeded", "failed", "handed", "thrown"},
                              at : 0..LastTick]]
    /\ \A r \in Readers : reading[r].pc \in {"idle", "queried", "cleanup"}
    /\ latest.updated \in -1..LastTick
    /\ \A s \in Sites : latest.sites[s].status \in {"UNKNOWN", "SUCCESS", "FAILURE"}
    /\ ranking = <<>> \/ {ranking[i] : i \in DOMAIN ranking} = Sites

\* ProviderHealthTracker.track and cleanupStaleChecks: an answer that was handed on has the
\* success of its site on record for 14 days, whatever fails on the way, and no failure.
HandedOnIsOnRecord ==
    \A c \in Calls : tracked[c].pc = "handed" =>
        /\ tracked[c].at >= tick - KeepChecks => \E k \in checks : k.call = c /\ k.ok
        /\ \A k \in checks : k.call = c => k.ok

\* "Endpoint GET /api/v1/health/providers con estado de cada fuente": a source that had checks
\* within the day when the summary was queried is shown with a state.
HealthIsKnown == \A s \in display.asked : display.sites[s].status # "UNKNOWN"
=============================================================================
