CONSTANTS
    Browsers = {b1, b2}
    Texts = {t}
    Files = {f}
    Chunks = {k1, k2}
    None = None
    MaxDrops = 2
    MaxSends = 1
    ClosesWith = {t}
SPECIFICATION Spec
SYMMETRY Names
INVARIANTS
    TypeOK
    GapsFill
    ReceiptsAgree
PROPERTY LostOnlyToMarkRead
CHECK_DEADLOCK FALSE
