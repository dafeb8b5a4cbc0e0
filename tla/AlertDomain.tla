----------------------------- MODULE AlertDomain -----------------------------
(***************************************************************************)
(* The alert entity: what a price alert looks like, when it may fire, what *)
(* firing does to it and which event announces it.  No state of its own:   *)
(* the alerts table, and everybody who writes it, is in AlertEngine.       *)
(***************************************************************************)
EXTENDS Integers

CONSTANTS
    Users,      \* owners of alerts
    Scopes,     \* asset ids and dollar types an alert or a market event names
    Null,       \* null and undefined
    Thresholds, \* the prices, risk values and percentages that occur
    Cooldown    \* 60_000 ms, in ticks of the model's clock

ASSUME DomainAssumption ==
    /\ Null \notin Scopes
    /\ Thresholds \subseteq Int
    /\ Cooldown \in Nat \ {0}

AlertStatus == {"ACTIVE", "PAUSED", "TRIGGERED", "EXPIRED"}
AlertType == {"PRICE", "PCT_CHANGE", "DOLLAR", "RISK", "PORTFOLIO"}
AlertCondition == {"ABOVE", "BELOW", "CROSSES", "PCT_UP", "PCT_DOWN"}

\* What the owner configures and the engine only reads.
Rule == [type: AlertType, condition: AlertCondition, threshold: Thresholds,
         asset: Scopes \cup {Null}, period: Scopes \cup {Null}]

\* lastTriggeredAt of an alert that never fired.
Never == -1

\* A row of the alerts table.
Alert == [owner: Users, rule: Rule, recurring: BOOLEAN, status: AlertStatus,
          last: Nat \cup {Never}, deleted: BOOLEAN]

\* Alert.evaluate: CROSSES has no memory of the previous value, it is ABOVE.
Evaluate(rule, value) ==
    \/ rule.condition \in {"ABOVE", "PCT_UP", "CROSSES"} /\ value >= rule.threshold
    \/ rule.condition \in {"BELOW", "PCT_DOWN"} /\ value <= rule.threshold

\* Mutant of CanTrigger: a recurring alert has no cooldown.
CanTrigger_NoCooldown(row, t) ==
    /\ row.status = "ACTIVE"
    /\ row.last = Never \/ row.recurring

\* Alert.canTrigger.
CanTrigger(row, t) ==
    /\ row.status = "ACTIVE"
    /\ row.last = Never \/ (row.recurring /\ t - row.last >= Cooldown)

\* Alert.trigger.
Triggered(row, t) ==
    [row EXCEPT !.last = t, !.status = IF row.recurring THEN @ ELSE "TRIGGERED"]

Unsupported == "none"

\* AlertEvaluationConsumer.resolveAlertEventType.  A PCT_CHANGE or PORTFOLIO
\* alert whose condition is not a percentage has no event.
EventOf(rule) ==
    CASE rule.type \in {"PRICE", "PCT_CHANGE", "PORTFOLIO"} /\ rule.condition = "PCT_UP" -> "alert.pct.up"
      [] rule.type \in {"PRICE", "PCT_CHANGE", "PORTFOLIO"} /\ rule.condition = "PCT_DOWN" -> "alert.pct.down"
      [] rule.type = "PRICE" /\ rule.condition = "BELOW" -> "alert.price.below"
      [] rule.type = "PRICE" /\ rule.condition \in {"ABOVE", "CROSSES"} -> "alert.price.above"
      [] rule.type = "DOLLAR" /\ rule.condition = "BELOW" -> "alert.dollar.below"
      [] rule.type = "DOLLAR" /\ rule.condition # "BELOW" -> "alert.dollar.above"
      [] rule.type = "RISK" /\ rule.condition = "BELOW" -> "alert.risk.below"
      [] rule.type = "RISK" /\ rule.condition # "BELOW" -> "alert.risk.above"
      [] OTHER -> Unsupported
=============================================================================
