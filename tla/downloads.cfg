CONSTANTS
    Tasks = {a, b}
    CdnTasks = {a}
    Parts = 2
    StartWaited = 2
    MaxWaited = 3
    MaxSessions = 2
    RetrySuccesses = 1
    RemoveTimeouts = 1
    MaxRemoves = 2
    MaxTimeouts = 2
    MaxTroubles = 2
SPECIFICATION Spec
INVARIANTS
    TypeOK
    Balanced
    NoPartIsLost
    NobodyIsStuck
CHECK_DEADLOCK FALSE
