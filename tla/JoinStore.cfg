CONSTANTS
    RoomIDs = {r1}
    Pubs = {p1, p2}
    InboxPubs = {k1}
    Wraps = {w1}
    Messages = {m1}
    None = None
    RequestTTL = 2
    RejectCooldown = 1
    RoomRetention = 3
    MaxPending = 1
    MaxMessages = 1
    SaveMayFail = FALSE
SPECIFICATION FairSpec
INVARIANTS
    TypeOK
    LockoutRespected
PROPERTIES
    StaleForgotten
    DecisionIsFinal
    ConversationKept
    PendingLimit
