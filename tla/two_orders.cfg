SPECIFICATION Spec
CONSTANTS
    e1 = e1
    e2 = e2
    p1 = p1
    p2 = p2
    a1 = a1
    a2 = a2
    a3 = a3
    treasury = treasury
    Accounts <- MCAccounts
    Freezable = {}
    Skims = {0}
    MaxTime = 2
    MaxUint64 = 9
    FeeBp = 5000
    Treasury = treasury
    Arbiters = {}
    InitialArbiters = {}
    StakeEligible = {}
    Escrows = {e1, e2}
    EvidenceWindow = 1
    CommitWindow = 1
    RevealWindow = 1
    NoCommitment = NoCommitment
    Parties = {p1, p2}
    NoAccount = NoAccount
    Amounts = {1}
    WorkDurations = {1}
    ReviewWindows = {1}
    DeadlockTimeout = 1
    MaxDonation = 1
    OfferTtl = 1
    LastOffer = 1
    InitialFunds = 2
SYMMETRY MCOrderSymmetry
INVARIANTS
    TypeOK
    ScoresMatchSettlements
    Custody
    PaidInFull
CHECK_DEADLOCK FALSE
