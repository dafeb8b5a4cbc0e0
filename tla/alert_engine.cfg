\* One alert, two market messages that overlap, one REST request, one restart;
\* the clock runs through one cooldown.
CONSTANTS
    Null = Null
    asset = asset
    blue = blue
    Users = {u1}
    Scopes <- MCScopes
    Thresholds = {0, 1, 2}
    Cooldown = 2
    AlertIds = {a1}
    Rules <- EngineRules
    Messages <- EngineMessages
    Patches <- EnginePatches
    Deliveries = {d1, d2}
    Requests = {t1}
    MaxActive = 1
    MaxTime = 2
    MaxCrashes = 1
SPECIFICATION FairSpec
INVARIANTS
    TypeOK
    RepeatNeedsStaleRead
PROPERTIES
    FreshSavesCompose
    ImplementsAtLeastOnce
    EveryMessageSettles
CHECK_DEADLOCK FALSE
