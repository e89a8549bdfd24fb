CONSTANTS
    r = r
    q = q
    Sessions = {r, q}
    MediaSessions = {}
    Keys = {1, 2, 3, 4, 5}
    NoKey = 0
    MayStop = FALSE
    MayForget = TRUE
    MaxLosses = 1
SPECIFICATION OrderedSpec
PROPERTIES
    KeyInTheEnd
CHECK_DEADLOCK FALSE
