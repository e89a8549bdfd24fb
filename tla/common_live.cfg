CONSTANTS
    Counts = {1, 2}
    StartPts = 1
    MaxPts = 4
    Ordered = TRUE
SPECIFICATION FairSpec
PROPERTIES
    PushedIsApplied
    HeardIsReached
