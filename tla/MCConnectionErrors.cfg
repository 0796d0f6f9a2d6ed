SPECIFICATION ConnSpec
CONSTANTS
    MaxFaults <- MCMaxFaults
    MaxKicks <- MCMaxKicks
    MayCancel = TRUE
    OneShotOnConnect = TRUE
INVARIANTS
    ConnectErrorsReported
CHECK_DEADLOCK FALSE
