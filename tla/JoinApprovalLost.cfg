CONSTANTS
    Members = {m1}
    Applicants = {a1}
    Pubs = {p1}
    None = None
    MaxPending = 1
    MaxQueue = 4
    MaxDrops = 0
SPECIFICATION Spec
SYMMETRY Names
INVARIANT DecisionDelivered
CHECK_DEADLOCK FALSE
