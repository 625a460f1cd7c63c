CONSTANTS
    Keys = {k1}
    Runs = {r1}
    Queues = {q1, q2, q3}
    Stoppers = {p1}
    Events = {e1, e2}
    ErrorEvent = ErrorEvent
    ReplayEnd = ReplayEnd
    Sentinel = Sentinel
    NoRun = NoRun
    NoKey = NoKey
    MaxEvents = 2
SPECIFICATION Spec
INVARIANT CleanupWhenTaskCompletes
CHECK_DEADLOCK FALSE
