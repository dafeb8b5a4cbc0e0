\* The instance of alert_quota, against the limit stated for every user.
CONSTANTS
    Null = Null
    asset = asset
    blue = blue
    Users = {u1}
    Scopes <- MCScopes
    Thresholds = {0, 1, 2}
    Cooldown = 2
    AlertIds = {a1, a2, a3}
    Rules <- QuotaRules
    Messages <- QuotaMessages
    Patches <- QuotaPatches
    Deliveries = {d1}
    Requests = {t1, t2}
    MaxActive = 2
    MaxTime = 0
    MaxCrashes = 1
SPECIFICATION Spec
INVARIANT ActiveLimit
CHECK_DEADLOCK FALSE
