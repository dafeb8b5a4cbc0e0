\* One alert on a percentage and a quote whose price meets the threshold while
\* its change does not.
CONSTANTS
    Null = Null
    asset = asset
    blue = blue
    Users = {u1}
    Scopes <- MCScopes
    Thresholds = {0, 1, 2}
    Cooldown = 2
    AlertIds = {a1}
    Rules <- PercentRules
    Messages <- PercentMessages
    Patches <- EnginePatches
    Deliveries = {d1, d2}
    Requests = {t1}
    MaxActive = 1
    MaxTime = 2
    MaxCrashes = 1
SPECIFICATION Spec
INVARIANT PercentAlertsMeetPercent
CHECK_DEADLOCK FALSE
