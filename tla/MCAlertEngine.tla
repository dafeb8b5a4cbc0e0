---------------------------- MODULE MCAlertEngine ----------------------------
(* Constant values for the runs of AlertEngine. *)
EXTENDS AlertEngine, TLC

CONSTANTS asset, blue

MCScopes == {asset, blue}

PriceAbove == [type |-> "PRICE", condition |-> "ABOVE", threshold |-> 1,
               asset |-> asset, period |-> Null]
DollarBelow == [type |-> "DOLLAR", condition |-> "BELOW", threshold |-> 1,
                asset |-> Null, period |-> blue]
\* Legal at the API, fires, and has no event.
PctAbove == [type |-> "PCT_CHANGE", condition |-> "ABOVE", threshold |-> 1,
             asset |-> asset, period |-> Null]
PctUp == [type |-> "PCT_CHANGE", condition |-> "PCT_UP", threshold |-> 2,
          asset |-> asset, period |-> Null]

Quote == [source |-> "QUOTE", scope |-> asset, value |-> 1, changePct |-> 0]
HighQuote == [source |-> "QUOTE", scope |-> asset, value |-> 2, changePct |-> 0]
LowQuote == [source |-> "QUOTE", scope |-> asset, value |-> 0, changePct |-> 0]
NoPrice == [source |-> "QUOTE", scope |-> asset, value |-> Null, changePct |-> 0]

NoChange == [rule |-> Null, recurring |-> Null, status |-> Null]
Pause == [NoChange EXCEPT !.status = "PAUSED"]
Activate == [NoChange EXCEPT !.status = "ACTIVE"]
Reconfigure == [NoChange EXCEPT !.rule = PctAbove]

EngineRules == {PriceAbove}
EngineMessages == {Quote, LowQuote}
EnginePatches == {Pause, Reconfigure}

QuotaRules == {PriceAbove, PctAbove}
QuotaMessages == {Quote, NoPrice}
QuotaPatches == {Pause, Activate}

\* Ids and requests are interchangeable: no property orders or chooses them.
QuotaSymmetry == Permutations(AlertIds) \cup Permutations(Requests)

PercentRules == {PctUp}
PercentMessages == {HighQuote}
=============================================================================
