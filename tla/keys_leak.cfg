CONSTANTS
    r = r
    m = m
    k1 = k1
    k2 = k2
    k3 = k3
    k4 = k4
    k5 = k5
    Sessions = {r, m}
    MediaSessions = {m}
    Keys = {k1, k2, k3, k4, k5}
    NoKey = NoKey
    MayStop = FALSE
    MayForget = TRUE
    MaxLosses = 1
SPECIFICATION Spec
INVARIANTS
    SomeoneIsCreating
SYMMETRY Symmetry
CHECK_DEADLOCK FALSE
