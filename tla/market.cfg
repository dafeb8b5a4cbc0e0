\* One component at a time moves; for each, two or three of whatever can overlap, and clocks
\* that run past every lifetime of a kept answer.
SPECIFICATION MarketSpec
VIEW FocusView
CONSTANTS
    Fetches = {f1, f2}
    Symbols = {x}
    SnapshotTtl = 1
    RobotsTtl = 1
    RateLimit = 1
    Timeout = 1
    LastInstant = 4
    Assets = {a1, a2}
    QuoteJobs = {j1, j2}
    ChunkSize = 1
    DayLength = 2
    StatusTtl = 1
    LastNow = 2
    Quotes = {q1, q2, q3}
    RateTypes = {blue}
    Rates = {1, 9}
    MaxDeviation = 60
    MaxSourceAge = 0
    RateCalls = {c1, c2}
    Rows = 2
    LastDay = 1
    Dated = {n1, n2}
    Undated = {n3}
    Overlong = {n2}
    Instances = {r1, r2}
    Retention = 1
    FirstToday = 1
    LastToday = 2
    Loads = {l1, l2}
    Instruments = {i1}
    LastMoment = 2
    Pages = {p1, p2}
    Mutations = {m1}
    NoData = NoData
    MaxAges = 1
    Viewers = {v1, v2}
    Notices = {m2, m3}
    NoViewer = NoViewer
    BellSize = 1
    MaxTokensSeen = 2
    LastPush = 3
    Sites = {s1, s2}
    Calls = {k1}
    Hour = 1
    Day = 1
    HealthTtl = 0
    KeepChecks = 2
    LastTick = 4
    Opening = 5
    Closing = 8
    LastRun = 9
    StepsOfDay = 12
    KeptFor = 1
    LastWall = 90
    Shares = {h1, h2}
    Moves = {1, 2}
    NoMove = NoMove
    Trades = {1, 2}
    TopSize = 1
    MoversTtl = 1
    Guests = {g1, g2}
    LastMinute = 2
    MaxStores = 2
    Listed = {b1, b2, b3, b4, b5}
    Bonds = {b1, b2, b3}
    Named = {b3, b4, b5}
    Mails = {w1, w2, w3, w4, w5}
    AlertMails = {w1, w2, w3}
    MarketMails = {w4}
    PerPage = 2
    MaxUpdates = 3
CHECK_DEADLOCK FALSE
INVARIANTS
    MarketTypeOK
    QuoteDataRecent
    QuotesReachClients
    OneQuoteCannotMove
    RecentNewsOnce
    ListsAreTrue
    HandedOnIsOnRecord
    KeptAnswersTrue
    LiveIsTrue
PROPERTIES
    SeenPartsStay
