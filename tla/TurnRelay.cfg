CONSTANTS
    Peers = {p1, p2}
    Addrs = {a1, a2}
    None = None
    Retention = 1
    MaxDay = 4
    MaxAllocs = 1
    MaxPerPeer = 1
    MaxFaults = 1
    MaxOvernight = 1
SPECIFICATION FairSpec
INVARIANTS
    TypeOK
    QuotaKept
    TurnLinesTraceable
    RelayLogged
PROPERTIES
    RelaysEnd
    OldFilesRemoved
CHECK_DEADLOCK FALSE
