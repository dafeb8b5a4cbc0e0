\* One message with its two email attempts, one restart, two REST requests on
\* the inbox, one preference update; the day has two minutes, one of them quiet.
CONSTANTS
    Null = Null
    u1 = u1
    EventTypes = {"alert.price.above"}
    MinutesPerDay = 2
    Users = {u1}
    Events <- OneEvent
    PreferenceChoices <- MCQuietPreferences
    Deliveries = {d1}
    Requests = {t1, t2}
    MaxAttempts = 2
    MaxCrashes = 1
    MaxChanges = 1
SPECIFICATION FairSpec
INVARIANT TypeOK
PROPERTIES
    InboxNeverReverts
    ImplementsAtLeastOnce
    EveryMessageSettles
CHECK_DEADLOCK FALSE
