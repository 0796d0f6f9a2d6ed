SPECIFICATION ConnSpec
CONSTANTS
    MaxFaults <- MCMaxFaults
    MaxKicks <- MCMaxKicks
    MayCancel = TRUE
    OneShotOnConnect = TRUE
INVARIANTS
    BlocksUntilCancelled
CHECK_DEADLOCK FALSE
