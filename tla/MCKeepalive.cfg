SPECIFICATION Spec
CONSTANTS
    PingInterval = 4
    MaxDelay = 2
    MaxCallback = 1
    Buffer = 1
INVARIANTS
    TypeOK
    LivePeerKept
PROPERTIES
    SilenceNoticed
    TeardownWaitsForWriterOnly
CHECK_DEADLOCK FALSE
