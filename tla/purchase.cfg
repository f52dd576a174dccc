SPECIFICATION FairSpec
CONSTANTS
    Purchases = {p1, p2}
    Asks <- MCAsks
    NoAuth = NoAuth
    MaxCrashes = 1
INVARIANTS
    PurchaseInv
    NoSecondCharge
    ChargesAreKept
PROPERTIES
    KeepsPurchasePromise
    NoReservationStays
CHECK_DEADLOCK FALSE
