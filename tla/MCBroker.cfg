SPECIFICATION Spec
CONSTANTS
    t1 = t1
    t2 = t2
    blocks = blocks
    StatsLoop = StatsLoop
    Tabs <- MCTabs
    Kinds <- MCKinds
    MaxClients = 1
    Capacity = 1
    MaxEvents = 1
    MaxFlips = 1
    Heartbeat = 2
INVARIANTS
    TypeOK
    NoGap
    StatsConsistent
    CapacityHeld
    NoSlotLeak
PROPERTIES
    ConnectionShown
CHECK_DEADLOCK FALSE
