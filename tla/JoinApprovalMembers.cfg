CONSTANTS
    Members = {m1, m2}
    Applicants = {a1}
    Pubs = {p1}
    None = None
    MaxPending = 1
    MaxQueue = 2
    MaxDrops = 1
SPECIFICATION Spec
SYMMETRY Names
INVARIANTS
    DecisionReaches
    CardsCurrent
PROPERTY KeepsPromise
CHECK_DEADLOCK FALSE
