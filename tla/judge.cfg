SPECIFICATION FairSpec
CONSTANTS
    j1 = j1
    j2 = j2
    client = client
    Nothing = Nothing
    HumanLane = HumanLane
    HumanEvidence = HumanEvidence
    Jobs = {j1, j2}
    Evaluated = {j1, j2}
    Accounts = {client}
    Client <- MCClient
    Budget <- MCBudget
    Evidence <- MCEvidence
    Configs <- MCConfigs
    BlockRange = 1
    Attempts = 2
    MaxBlock = 3
    MaxJudgements = 4
    MaxMoves <- MCMoves
    MaxFaults = 1
INVARIANTS
    EvidenceInv
    NothingPassedOver
PROPERTIES
    HealthyMeansCaughtUp
    JobsAreDecided
CHECK_DEADLOCK FALSE
