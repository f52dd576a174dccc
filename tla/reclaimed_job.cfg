SPECIFICATION FairSpec
CONSTANTS
    Reviewers = {r1}
    NoReviewer = NoReviewer
    MaxKeys = 3
    Rosters <- MCRosters
    Reclaimed = {"expired"}
    MaxDispatches = 1
    MaxAttempts = 2
    MaxFaults = 0
PROPERTIES
    VerdictsArePaid
CHECK_DEADLOCK FALSE
