CONSTANTS
    Members = {m1}
    Applicants = {a1, a2}
    Pubs = {p1, p2}
    None = None
    MaxPending = 1
    MaxQueue = 1
    MaxDrops = 0
SPECIFICATION Spec
SYMMETRY Names
INVARIANTS
    TypeOK
    DecisionReaches
    CardsUsable
CHECK_DEADLOCK FALSE
