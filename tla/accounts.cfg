\* One component at a time moves; for each, the number of users, rows and requests at which
\* requests overlap, a limit is reached and a clock passes its time-out.
SPECIFICATION AccountsSpec
CONSTANTS
    Logins = {l1, l2, l3}
    Registrations = {g1}
    MaxFailedLogins = 3
    Lockout = 2
    Users = {u1}
    EventTypes = {e1}
    Fields = {f1, f2}
    Values = {v1, v2}
    Saves = {s1, s2}
    Nothing = Nothing
    Stocks = {k1, k2}
    Watches = {w1, w2, w3, w4}
    NoStock = NoStock
    Demos = {d1}
    DemoTrades = {t1}
    DemoTickers = {i1}
    DemoAlerts = {a1}
    DemoNotices = {n1}
    Portfolio = Portfolio
    Day = 2
    MaxDemoTime = 6
    People = {p1, p2}
    Calls = {c1, c2}
    Nobody = Nobody
    NoToken = NoToken
    MaxTokens = 2
    MaxChoices = 2
    Alerts = {a1, a2}
    Asked = {a1}
    Presses = {b1, b2}
    AlertTypes = {"PRICE", "PCT_CHANGE", "DOLLAR"}
    Conditions = {"ABOVE", "PCT_UP"}
    NewAlert = NewAlert
    NoRow = NoRow
    MaxListed = 2
    MaxPicks = 2
    Texts = {x1, x2}
    Overlong = {x2}
    Submits = {z1, z2}
    Empty = Empty
    Views = 3
    Null = Null
    Requests = {r1, r2, r3}
    EventIds = {e1, e2}
    MaxCrashes = 1
    MaxExpiries = 1
CHECK_DEADLOCK FALSE
INVARIANTS
    AccountsTypeOK
    LockoutHolds
    RowIsLatestSave
    ListedUnlessRemoved
    SessionsSeeded
    TokensHaveUser
    SessionIsUsers
    FormsKeepWord
    OncePerKey
    GoodAnswersKept
    KeysHaveReason
PROPERTIES
    EveryCallSettles
