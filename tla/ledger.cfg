\* Four requests on one portfolio, two assets, quantities of one and two, two dates; for the
\* views one asset over three days.
CONSTANTS
    Null = Null
    Assets = {a1, a2}
    Requests = {t1, t2, t3, t4}
    Quantities = {1, 2}
    MaxTime = 1
    Papers = {p1}
    Prices = {0, 1, 2}
    Cost = 3
    NoQuote = NoQuote
    Period = 1
    LastDay = 2
SYMMETRY LedgerSymmetry
SPECIFICATION LedgerSpec
INVARIANTS
    LedgerTypeOK
    SolventUnlessOvertaken
    LotsAreLatestPurchases
    PortfolioShowsTrades
CHECK_DEADLOCK FALSE
