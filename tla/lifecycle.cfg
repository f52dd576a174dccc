SPECIFICATION FairSpec
CONSTANTS
    e1 = e1
    e2 = e2
    p1 = p1
    p2 = p2
    a1 = a1
    a2 = a2
    a3 = a3
    treasury = treasury
    Accounts <- MCAccounts1
    Freezable = {}
    Skims = {0, 1}
    MaxTime = 7
    MaxUint64 = 9
    FeeBp = 5000
    Treasury = treasury
    Arbiters = {a1, a2}
    InitialArbiters = {a1}
    StakeEligible = {a1}
    Escrows = {e1}
    EvidenceWindow = 1
    CommitWindow = 1
    RevealWindow = 1
    NoCommitment = NoCommitment
    Parties = {p1, p2}
    NoAccount = NoAccount
    Amounts = {3}
    WorkDurations = {1}
    ReviewWindows = {1, 9}
    DeadlockTimeout = 2
    MaxDonation = 0
    OfferTtl = 1
    LastOffer = 1
    InitialFunds = 3
INVARIANTS
    LedgersAgree
PROPERTIES
    OutcomeIsFinal
    KeepsPromise
    NoSilenceLocks
CHECK_DEADLOCK FALSE
