CONSTANTS
    Counts = {1, 2}
    StartPts = 1
    MaxPts = 3
    Ordered = FALSE
    Probes = TRUE
    ServerFails = TRUE
SPECIFICATION FairSpec
INVARIANTS
    TypeOK
    NoUpdateLost
    RetryNeverOverlaps
PROPERTIES
    PollStaysOn
    OpenChannelCatchesUp
