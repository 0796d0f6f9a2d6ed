SPECIFICATION ConnSpec
CONSTANTS
    MaxFaults <- MCMaxFaults
    MaxKicks <- MCMaxKicks
    MayCancel = TRUE
    OneShotOnConnect = TRUE
INVARIANTS
    ConnTypeOK
    ConnectedImpliesInstalled
    ReturnOnlyOnCancel
PROPERTIES
    ShutdownCompletes
    Converges
CHECK_DEADLOCK FALSE
