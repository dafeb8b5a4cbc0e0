\* Two providers, two readings kept of each, one request for their health.
SPECIFICATION HealthSpec
CONSTANTS
    Sites = {s1, s2}
    Calls = {k1}
    Hour = 1
    Day = 1
    HealthTtl = 0
    KeepChecks = 2
    LastTick = 4
INVARIANTS
    HealthIsKnown
CHECK_DEADLOCK FALSE
