CONSTANTS
    RoomIDs = {r1}
    Pubs = {p1}
    InboxPubs = {k1}
    Wraps = {w1}
    Messages = {m1}
    None = None
    RequestTTL = 2
    RejectCooldown = 1
    RoomRetention = 0
    MaxPending = 1
    MaxMessages = 1
    SaveMayFail = FALSE
SPECIFICATION Spec
INVARIANT RejectionEndsOnTime
