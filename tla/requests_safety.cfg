SPECIFICATION Spec
CONSTANTS
    Requests = {1, 2}
    MaxMsgId = 4
    BufferSize = 9
    MayCut = TRUE
    Cancellable = {1}
    MaxTroubles = 1
INVARIANTS
    TypeOK
    NotForgotten
    ExecutedOnce
    AnsweredIsNotSent
CHECK_DEADLOCK FALSE
