CONSTANTS
    Workspaces = {w1, w2, w3}
    Reloads = {c1}
    Requests = {q1}
    Backends = {b1, b2}
    Faulty = {}
    NoWs = NoWs
    MaxEdits = 2
SPECIFICATION Spec
SYMMETRY Symmetry
INVARIANT InFlightKeepsMemory
CHECK_DEADLOCK FALSE
