SPECIFICATION SubSpec
CONSTANTS
    blocks = blocks
    accounts = accounts
    a = a
    Types <- MCTypes
    Addrs <- MCAddrs
    Placeholder = accounts
    QueryOnly = FALSE
    InitialWant <- MCInitial
    Kinds <- MCKinds
    Args <- MCArgs
    MaxOps = 2
    MaxFaults = 1
    MaxKicks = 0
    MayCancel = FALSE
    OneShotOnConnect = FALSE
INVARIANTS
    SubTypeOK
    Agreement
    NoLostWakeup
PROPERTIES
    Reconciles
CHECK_DEADLOCK FALSE
