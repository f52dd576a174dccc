SPECIFICATION DashboardFairSpec
CONSTANTS
    op = op
    j1 = j1
    j2 = j2
    r1 = r1
    e1 = e1
    Nothing = Nothing
    Jobs = {j1}
    Evaluated = {j1}
    Pinned = {j1}
    Slots = {1, 2}
    Accounts = {op}
    Reasons = {r1}
    Evidence = {r1, e1}
    Client <- MCClient
    Budget <- MCBudget
    Configs <- MCConfigs
    Lookback = 0
    StaleAfter = 0
    MaxBlock = 3
    MaxFailures = 1
INVARIANTS
    RouterInv
    FeedInv
    QueueIsTrue
PROPERTIES
    VerdictsAreFinal
    IndexNeverGoesBack
    IndexHeals
CHECK_DEADLOCK FALSE
