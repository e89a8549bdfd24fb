CONSTANTS
    r = r
    m = m
    k1 = k1
    k2 = k2
    k3 = k3
    k4 = k4
    Sessions = {r, m}
    MediaSessions = {m}
    Keys = {k1, k2, k3, k4}
    NoKey = NoKey
    MayStop = TRUE
    MayForget = TRUE
    MaxLosses = 1
SPECIFICATION Spec
INVARIANTS
    TypeOK
    HeldAsExpected
    OneCreator
    BoundToPersistent
    SavedKeyIsCurrent
SYMMETRY Symmetry
CHECK_DEADLOCK FALSE
