CONSTANTS
    Counts = {1, 2}
    StartPts = 1
    MaxPts = 4
    Ordered = FALSE
SPECIFICATION Spec
INVARIANTS
    TypeOK
    NoUpdateLost
    RetryNeverOverlaps
    GapIsWaitedFor
    HeldIsAhead
PROPERTIES
    AppliedInOrder
    AbstractSpec
