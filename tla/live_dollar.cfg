\* One viewer of the web client, one notification, one push.
SPECIFICATION LiveSpec
CONSTANTS
    Viewers = {v1}
    Notices = {m1}
    NoViewer = NoViewer
    BellSize = 1
    MaxTokensSeen = 2
    LastPush = 1
CHECK_DEADLOCK FALSE
INVARIANTS
    PushesAreShown
