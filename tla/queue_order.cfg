CONSTANTS
    Pushers = {p, q}
    Workers = {u, v}
    MaxCalls = 3
    NoCall = NoCall
SPECIFICATION FairSpec
INVARIANTS
    TypeOK
    OneProcessor
    NobodyIsForgotten
PROPERTIES
    CallsInOrder
    EveryCallIsMade
CHECK_DEADLOCK FALSE
