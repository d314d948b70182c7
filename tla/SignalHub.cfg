CONSTANTS
    Conns = {c1, c2, c3}
    Rooms = {r1, r2}
    None = None
    All = All
    MaxPeers = 2
    QueueLen = 2
    MaxForwards = 1
SPECIFICATION FairSpec
INVARIANTS
    TypeOK
    HubConsistent
    GapFree
    KnownSenders
    RoomListed
PROPERTIES
    DroppedLeaves
    ImplementsFeed
CHECK_DEADLOCK FALSE
