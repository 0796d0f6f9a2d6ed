SPECIFICATION ReqSafety
CONSTANTS
    r1 = r1
    r2 = r2
    Reqs <- MCReqs
    MaxFaults = 1
    MaxKicks = 1
    MayCancel = FALSE
    OneShotOnConnect = FALSE
SYMMETRY ReqSymmetry
INVARIANTS
    ReqTypeOK
    NoLostWaiter
    OutcomeHonest
PROPERTIES
    ImplementsCorrelation
CHECK_DEADLOCK FALSE
