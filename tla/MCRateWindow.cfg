SPECIFICATION Spec
CONSTANTS
    W = 3
    LastSecond = 8
    MaxEvents = 4
    MaxLag = 1
INVARIANTS
    TypeOK
    RingMatchesHistory
    AgedIsIteratedAge
    RateIsTrailing
    NeverOverCounts
CHECK_DEADLOCK FALSE
