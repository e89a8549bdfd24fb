CONSTANTS
    Pushers = {p, q}
    Workers = {t}
    MaxCalls = 1
    NoCall = NoCall
SPECIFICATION FairSpec
PROPERTIES
    PushedIsMade
CHECK_DEADLOCK FALSE
