SPECIFICATION ProgSpec
CONSTANTS
    r1 = r1
    Reqs <- MCReqs
    MaxFaults = 1
    MaxKicks = 1
    MayCancel = TRUE
    OneShotOnConnect = TRUE
INVARIANTS
    ProgTypeOK
    ExitExplained
PROPERTIES
    ProgramEnds
    TargetFound
    DisconnectReleases
CHECK_DEADLOCK FALSE
