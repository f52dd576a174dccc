SPECIFICATION AdmissionSpec
CONSTANTS
    Reviews = {v1, v2, v3}
    Prefund = 4
    MaxTransfers = 2
SYMMETRY MCSymmetry
INVARIANTS
    AdmissionsFit
CHECK_DEADLOCK FALSE
