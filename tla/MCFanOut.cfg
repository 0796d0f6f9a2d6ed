SPECIFICATION Spec
CONSTANTS
    c1 = c1
    c2 = c2
    old = old
    current = current
    Consumers <- MCConsumers
    Readers <- MCReaders
    Capacity = 2
    MaxFrames = 2
INVARIANTS
    TypeOK
    NoChannelPanic
    NobodySkipped
    InOrder
PROPERTIES
    ConsumersEnd
CHECK_DEADLOCK FALSE
