CONSTANTS
    RoomIDs = {r1}
    Pubs = {p1}
    InboxPubs = {k1}
    Wraps = {w1, w2}
    Messages = {m1}
    None = None
    RequestTTL = 2
    RejectCooldown = 1
    RoomRetention = 2
    MaxPending = 1
    MaxMessages = 1
    SaveMayFail = TRUE
SPECIFICATION Spec
INVARIANT Durable
