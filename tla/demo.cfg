SPECIFICATION FairSpec
CONSTANTS
    r1 = r1
    Runs = {r1}
    Jobs <- MCJobs
    Evaluated <- MCJobs
    DemoClient = client
    Accounts = {client}
    Client <- MCClient
    Budget <- MCBudget
    Word = word
    Evidence = {word}
    Nothing = Nothing
    Configs <- MCConfigs
    MaxJobs = 3
    MaxSends = 3
    MaxFaults = 2
INVARIANTS
    RunsTellTheTruth
    NobodyElseWrites
    ArchivedUnlessFundLost
PROPERTIES
    RunsMoveOn
CHECK_DEADLOCK FALSE
