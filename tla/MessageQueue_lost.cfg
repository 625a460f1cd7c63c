SPECIFICATION Spec
CONSTANTS
    Tabs = {t1, t2}
    Items = {m1, m2}
    NoTab = NoTab
    NoItem = NoItem
    Other = Other
    MaxQueue = 2
    MaxEdits = 2
    MaxMoves = 4
    MaxFaults = 1
SYMMETRY Symmetry
INVARIANTS
    AcceptedOrQueued
CHECK_DEADLOCK FALSE
