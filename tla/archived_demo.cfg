SPECIFICATION FairSpec
CONSTANTS
    r1 = r1
    Runs = {r1}
    Jobs <- MCJobs
    Evaluated <- MCJobs
    DemoClient = client
    Accounts = {client}
    Client <- MCClient
    Budget <- MCBudget
    Word = word
    Evidence = {word}
    Nothing = Nothing
    Configs <- MCConfigs
    MaxJobs = 1
    MaxSends = 1
    MaxFaults = 0
PROPERTIES
    ReclaimedRunsEnd
CHECK_DEADLOCK FALSE
