SPECIFICATION FairSpec
CONSTANTS
    Tabs = {t1}
    Items = {m1, m2}
    NoTab = NoTab
    NoItem = NoItem
    Other = Other
    MaxQueue = 2
    MaxEdits = 3
    MaxMoves = 2
    MaxFaults = 1
PROPERTIES
    QueueDrains
CHECK_DEADLOCK FALSE
