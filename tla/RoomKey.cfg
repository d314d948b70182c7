CONSTANTS
    Tabs = {t1, t2}
    Browsers = {b1, b2}
    None = None
    OldKey = OldKey
    MaxDrops = 2
SPECIFICATION Spec
SYMMETRY Names
INVARIANTS
    TypeOK
    OneKey
    KeysKept
    ApplicantCanWrite
    InboxSpreads
CHECK_DEADLOCK FALSE
