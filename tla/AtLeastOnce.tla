----------------------------- MODULE AtLeastOnce -----------------------------
(***************************************************************************)
(* What a consumer of a durable queue promises when it acknowledges by     *)
(* hand, never requeues and is handed its unacknowledged messages again    *)
(* after a restart: a message is settled once and for good, and a unit of  *)
(* its work (a notification row, the trigger of one alert) is done at most *)
(* once for every time the message may have been handed out.               *)
(*                                                                         *)
(* AlertEngine and NotificationDispatch implement it.                      *)
(***************************************************************************)
EXTENDS Naturals

CONSTANTS
    Deliveries, \* messages
    Units       \* what can be done for a message

VARIABLES
    state,    \* delivery -> what the broker knows of it
    done,     \* delivery -> unit -> how often its effect took place
    restarts  \* of the consumer

vars == <<state, done, restarts>>

Init ==
    /\ state = [d \in Deliveries |-> "none"]
    /\ done = [d \in Deliveries |-> [u \in Units |-> 0]]
    /\ restarts = 0

Route(d) ==
    /\ state[d] = "none"
    /\ state' = [state EXCEPT ![d] = "held"]
    /\ UNCHANGED <<done, restarts>>

\* The consumer learns that it was done, or fails over the missing answer.
Do(d, u) ==
    /\ state[d] = "held"
    /\ done[d][u] <= restarts
    /\ done' = [done EXCEPT ![d][u] = @ + 1]
    /\ \E s \in {"held", "acked", "dead"} : state' = [state EXCEPT ![d] = s]
    /\ UNCHANGED restarts

Settle(d) ==
    /\ state[d] = "held"
    /\ \E s \in {"acked", "dead"} : state' = [state EXCEPT ![d] = s]
    /\ UNCHANGED <<done, restarts>>

Restart ==
    /\ restarts' = restarts + 1
    /\ UNCHANGED <<state, done>>

Next ==
    \/ \E d \in Deliveries : Route(d) \/ Settle(d) \/ \E u \in Units : Do(d, u)
    \/ Restart

Spec == Init /\ [][Next]_vars
=============================================================================
