------------------------- MODULE IdempotentIngestion -------------------------
(***************************************************************************)
(* POST /events: IdempotencyInterceptor takes a Redis key per event id     *)
(* before the access check, the validation and the publication, and gives  *)
(* it back when one of them throws.  Requests interleave at each await; a  *)
(* Redis command takes effect in the order the one connection sent it, so  *)
(* the DEL that is not awaited still comes before any later SET NX.        *)
(***************************************************************************)
EXTENDS Naturals, FiniteSets

CONSTANTS
    Requests,
    EventIds,
    Null,
    MaxCrashes,  \* bound: restarts of the backend process
    MaxExpiries  \* bound: keys that run out of their 24 hours, for each event

ASSUME IngestionAssumption ==
    /\ IsFiniteSet(Requests)
    /\ Null \notin Requests \cup EventIds
    /\ MaxCrashes \in Nat
    /\ MaxExpiries \in Nat

VARIABLES
    key,      \* event id -> the request whose SET NX made the key, Null if there is none
    req,      \* request -> the state of its handler
    routed,   \* requests whose event the exchange took
    expired,  \* event id -> how many times its key ran out
    leftover, \* history: event ids whose key outlived a request that failed
    crashes

vars == <<key, req, routed, expired, leftover, crashes>>

\* sound: the API key is right and the body is valid.
Job == [pc: {"new", "claimed", "accepted", "duplicate", "failed"},
        event: EventIds \cup {Null}, sound: BOOLEAN]

New == [pc |-> "new", event |-> Null, sound |-> FALSE]

-----------------------------------------------------------------------------
(* The interceptor. *)

\* A body without an event id passes by the keys; validation refuses it.
SkipKey(r) ==
    /\ req[r].pc = "new"
    /\ req' = [req EXCEPT ![r].pc = "failed"]
    /\ UNCHANGED <<key, routed, expired, leftover, crashes>>

\* Mutant of Claim: SET without NX.
Claim_Overwrites(r) ==
    /\ req[r].pc = "new"
    /\ \E e \in EventIds, sound \in BOOLEAN :
          /\ key' = [key EXCEPT ![e] = r]
          /\ req' = [req EXCEPT ![r] = [pc |-> "claimed", event |-> e, sound |-> sound]]
    /\ UNCHANGED <<routed, expired, leftover, crashes>>

\* SET NX makes the key.
Claim(r) ==
    /\ req[r].pc = "new"
    /\ \E e \in EventIds, sound \in BOOLEAN :
          /\ key[e] = Null
          /\ key' = [key EXCEPT ![e] = r]
          /\ req' = [req EXCEPT ![r] = [pc |-> "claimed", event |-> e, sound |-> sound]]
    /\ UNCHANGED <<routed, expired, leftover, crashes>>

\* There is a key: 200, "Event already processed or processing".
Duplicate(r) ==
    /\ req[r].pc = "new"
    /\ \E e \in EventIds, sound \in BOOLEAN :
          /\ key[e] # Null
          /\ req' = [req EXCEPT ![r] = [pc |-> "duplicate", event |-> e, sound |-> sound]]
    /\ UNCHANGED <<key, routed, expired, leftover, crashes>>

\* setNx throws, with the key made or not: nobody will delete it.
ClaimFails(r) ==
    /\ req[r].pc = "new"
    /\ \E e \in EventIds, sound \in BOOLEAN :
          /\ req' = [req EXCEPT ![r] = [pc |-> "failed", event |-> e, sound |-> sound]]
          /\ \/ UNCHANGED <<key, leftover>>
             \/ /\ key[e] = Null
                /\ key' = [key EXCEPT ![e] = r]
                /\ leftover' = leftover \cup {e}
    /\ UNCHANGED <<routed, expired, crashes>>

\* The DEL of tap's error branch: it removes the key, whoever made it, or fails
\* and is only logged.
Release(e) ==
    \/ key' = [key EXCEPT ![e] = Null] /\ UNCHANGED leftover
    \/ UNCHANGED key /\ leftover' = leftover \cup {e}

\* Mutant of Fail: only a publication that failed gives the key back.
Fail_KeepsKey(r) ==
    /\ req' = [req EXCEPT ![r].pc = "failed"]
    /\ IF req[r].sound THEN Release(req[r].event) ELSE UNCHANGED <<key, leftover>>

Fail(r) ==
    /\ req' = [req EXCEPT ![r].pc = "failed"]
    /\ Release(req[r].event)

-----------------------------------------------------------------------------
(* The controller and the publisher. *)

\* 400, 401 or 503.
Refuse(r) ==
    /\ req[r].pc = "claimed"
    /\ ~req[r].sound
    /\ Fail(r)
    /\ UNCHANGED <<routed, expired, crashes>>

\* The exchange takes the event.
Route(r) ==
    /\ req[r].pc = "claimed"
    /\ req[r].sound
    /\ r \notin routed
    /\ routed' = routed \cup {r}
    /\ UNCHANGED <<key, req, expired, leftover, crashes>>

\* Mutant of Accept: publishEvent does not wait for the broker.
Accept_Unconfirmed(r) ==
    /\ req[r].pc = "claimed"
    /\ req[r].sound
    /\ req' = [req EXCEPT ![r].pc = "accepted"]
    /\ UNCHANGED <<key, routed, expired, leftover, crashes>>

\* The broker confirmed: 202.
Accept(r) ==
    /\ req[r].pc = "claimed"
    /\ r \in routed
    /\ req' = [req EXCEPT ![r].pc = "accepted"]
    /\ UNCHANGED <<key, routed, expired, leftover, crashes>>

\* emit fails, with the event in the exchange or not.
PublishFails(r) ==
    /\ req[r].pc = "claimed"
    /\ req[r].sound
    /\ Fail(r)
    /\ UNCHANGED <<routed, expired, crashes>>

-----------------------------------------------------------------------------
(* The environment. *)

\* Nothing keeps a publication from outlasting its key: while the broker is
\* away, emit waits.
Expire(e) ==
    /\ key[e] # Null
    /\ expired[e] < MaxExpiries
    /\ key' = [key EXCEPT ![e] = Null]
    /\ expired' = [expired EXCEPT ![e] = @ + 1]
    /\ UNCHANGED <<req, routed, leftover, crashes>>

\* The process restarts: Redis keeps its keys.
Crash ==
    /\ crashes < MaxCrashes
    /\ crashes' = crashes + 1
    /\ req' = [r \in Requests |-> IF req[r].pc = "claimed" THEN [req[r] EXCEPT !.pc = "failed"]
                                  ELSE req[r]]
    /\ leftover' = leftover \cup {req[r].event : r \in {o \in Requests : req[o].pc = "claimed"}}
    /\ UNCHANGED <<key, routed, expired>>

Init ==
    /\ key = [e \in EventIds |-> Null]
    /\ req = [r \in Requests |-> New]
    /\ routed = {}
    /\ expired = [e \in EventIds |-> 0]
    /\ leftover = {}
    /\ crashes = 0

Next ==
    \/ \E r \in Requests :
          \/ SkipKey(r) \/ Claim(r) \/ Duplicate(r) \/ ClaimFails(r)
          \/ Refuse(r) \/ Route(r) \/ Accept(r) \/ PublishFails(r)
    \/ \E e \in EventIds : Expire(e)
    \/ Crash

Spec == Init /\ [][Next]_vars

-----------------------------------------------------------------------------
(* Properties. *)

\* The type invariant; whoever holds a claim named an event.
TypeOK ==
    /\ key \in [EventIds -> Requests \cup {Null}]
    /\ req \in [Requests -> Job]
    /\ \A r \in Requests : req[r].pc \in {"claimed", "accepted"} => req[r].event \in EventIds
    /\ routed \in SUBSET Requests
    /\ expired \in [EventIds -> Nat]
    /\ leftover \in SUBSET EventIds
    /\ crashes \in Nat

RoutedFor(e) == {r \in routed : req[r].event = e}
FailedFor(e) == {r \in RoutedFor(e) : req[r].pc = "failed"}

\* An event reaches the exchange once, and once more for every time its key ran
\* out and for every request that failed though the exchange had taken it:
\* neither concurrent requests nor the DEL of a key that another request has
\* made meanwhile add to that.  (IdempotencyInterceptor.intercept.)
OncePerKey ==
    \A e \in EventIds :
        Cardinality(RoutedFor(e)) <= 1 + expired[e] + Cardinality(FailedFor(e))

\* The answers that tell a client not to send the event again are kept: if some
\* request for an event was accepted or called a duplicate, none failed and none
\* is under way, the exchange has the event.  (A duplicate is answered while the
\* request that holds the key has not published yet.)
GoodAnswersKept ==
    \A e \in EventIds :
        LET of == {r \in Requests : req[r].event = e} IN
        (\E r \in of : req[r].pc \in {"accepted", "duplicate"})
            /\ (\A r \in of : req[r].pc \notin {"claimed", "failed"})
        => RoutedFor(e) # {}

\* A key stands for a request that holds it or has published; what keeps an event
\* out for the rest of the day without one is a restart, a DEL that failed or a
\* SET NX that failed after all.
KeysHaveReason ==
    \A e \in EventIds :
        key[e] # Null /\ e \notin leftover =>
            req[key[e]].pc \in {"claimed", "accepted"} /\ req[key[e]].event = e
=============================================================================
