CONSTANTS
    Keys = {k1}
    Runs = {r1, r2}
    Queues = {q1, q2}
    Stoppers = {p1, p2}
    Events = {e1}
    ErrorEvent = ErrorEvent
    ReplayEnd = ReplayEnd
    Sentinel = Sentinel
    NoRun = NoRun
    NoKey = NoKey
    MaxEvents = 1
SPECIFICATION FairSpec
INVARIANTS
    TypeOK
    StreamIsPrefix
    NothingMissed
    EndMeansComplete
    LiveIsRegistered
PROPERTIES
    NeverDisplaced
    ImplementsEventLog
    StreamEndsUnlessAborted
    StopEnds
\* A tracker whose runs are all over and whose clients are gone is at rest.
CHECK_DEADLOCK FALSE
