CONSTANTS
    Chats = {c}
    MaxId = 2
    MaxRequests = 2
    MaxWishes = 1
SPECIFICATION FairSpec
INVARIANTS
    TypeOK
    NoDeletedMessageReturns
    NothingIsStranded
    ReadIsOnItsWay
    ReadsOnlyAdvance
CHECK_DEADLOCK FALSE
PROPERTIES
    PostponedIsSent
    EntryIsAwaited
