\* Two messages that carry one event, one restart, one REST request on the
\* inbox; preferences allow both channels or email only, and stand still.
CONSTANTS
    Null = Null
    u1 = u1
    EventTypes = {"alert.price.above"}
    MinutesPerDay = 1
    Users = {u1}
    Events <- OneEvent
    PreferenceChoices <- MCPreferences
    Deliveries = {d1, d2}
    Requests = {t1}
    MaxAttempts = 2
    MaxCrashes = 1
    MaxChanges = 0
SYMMETRY DispatchSymmetry
SPECIFICATION Spec
INVARIANTS
    AckMeansRecorded
    RepeatsNeedRestart
    BadgeTrueUnlessOvertaken
CHECK_DEADLOCK FALSE
