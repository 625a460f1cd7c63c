CONSTANTS
    Workspaces = {w1, w2, w3}
    Reloads = {c1, c2}
    Requests = {q1, q2}
    Backends = {b1, b2}
    Faulty = {w3}
    NoWs = NoWs
    MaxEdits = 1
SPECIFICATION Spec
SYMMETRY Symmetry
VIEW View
INVARIANTS
    TypeOK
    OneHolder
    RunsKept
    ServingMemoryOpen
    MemoryHasUser
PROPERTIES
    NoStaleSwap
    SwapAppliesSettings
\* All requests answered and all workspaces used up: nothing is left to do.
CHECK_DEADLOCK FALSE
