\* Three alerts and a limit of two, two REST requests, one market message, one
\* restart; one of the rules has no event.  The clock stands still.
CONSTANTS
    Null = Null
    asset = asset
    blue = blue
    Users = {u1}
    Scopes <- MCScopes
    Thresholds = {0, 1, 2}
    Cooldown = 2
    AlertIds = {a1, a2, a3}
    Rules <- QuotaRules
    Messages <- QuotaMessages
    Patches <- QuotaPatches
    Deliveries = {d1}
    Requests = {t1, t2}
    MaxActive = 2
    MaxTime = 0
    MaxCrashes = 1
SYMMETRY QuotaSymmetry
SPECIFICATION Spec
INVARIANTS
    FiresAccounted
    LimitHoldsUnlessRaced
CHECK_DEADLOCK FALSE
