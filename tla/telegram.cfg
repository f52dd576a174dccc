SPECIFICATION FairSpec
CONSTANTS
    ann = ann
    bob = bob
    h1 = h1
    h2 = h2
    NoOne = NoOne
    Users = {ann, bob}
    Reviewers = {ann}
    Claimants = {NoOne, ann}
    FirstChoices = {"-", "approve"}
    Repertoire <- MCRepertoire
    Handlers = {h1, h2}
    MaxUpdates = 2
    MaxPrompts = 2
    MaxFaults = 1
INVARIANTS
    WorkflowInv
    VerdictWasMeant
PROPERTIES
    OnlyHolderCloses
    UpdatesAreHandled
CHECK_DEADLOCK FALSE
