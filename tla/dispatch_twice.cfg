\* The instance of dispatch, against the rule that receiving a message twice is safe.
CONSTANTS
    Null = Null
    u1 = u1
    EventTypes = {"alert.price.above"}
    MinutesPerDay = 1
    Users = {u1}
    Events <- OneEvent
    PreferenceChoices <- MCPreferences
    Deliveries = {d1}
    Requests = {t1}
    MaxAttempts = 2
    MaxCrashes = 1
    MaxChanges = 0
SPECIFICATION Spec
INVARIANT OneNotificationPerEvent
CHECK_DEADLOCK FALSE
