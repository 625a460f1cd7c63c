CONSTANTS
    Projects = {p1, p2}
    Fields = {f1, f2}
    Saves = {s1}
    NoProject = NoProject
    Written = {p1}
    AgentFields = {f1}
    MaxValues = 3
    MaxSaves = 2
    MaxTurns = 2
SPECIFICATION FairSpec
INVARIANTS
    TypeOK
    OwnSnapshot
    TypedIsKept
PROPERTIES
    NeverRollsBack
    NoBlindOverwrite
    Converges
\* The page was left and what the bounds allow is used up.
CHECK_DEADLOCK FALSE
