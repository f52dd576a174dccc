SPECIFICATION FairSpec
CONSTANTS
    Reviewers = {r1, r2}
    NoReviewer = NoReviewer
    MaxKeys = 3
    Rosters <- MCRosters
    Reclaimed = {"rejected", "expired"}
    MaxDispatches = 2
    MaxAttempts = 2
    MaxFaults = 1
INVARIANTS
    MoneyGoesOneWay
    BooksMatchCircle
    ClaimIsExclusive
PROPERTIES
    KeepsReviewPromise
    NobodyWaits
CHECK_DEADLOCK FALSE
