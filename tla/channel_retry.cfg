CONSTANTS
    Counts = {1}
    StartPts = 1
    MaxPts = 3
    Ordered = TRUE
    Probes = FALSE
    ServerFails = TRUE
SPECIFICATION FairSpec
PROPERTIES
    FailedIsRetried
