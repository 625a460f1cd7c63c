CONSTANTS
    Keys = {k1, k2}
    States = {s1, s2, s3}
    Msgs = {m1, m2}
    NoState = NoState
    NoKey = NoKey
    Console = Console
    Shared = {k1}
    MaxSize = 1
SPECIFICATION FairSpec
INVARIANTS
    TypeOK
    OnePlace
    RegisteredHasConsumer
    SerialUnlessSwept
PROPERTIES
    IgnoredOnlyBehindOthers
    QueuedIsTaken
    StopEndsUnlessCleanerWaits
\* All messages settled and the manager stopped: nothing is left to do.
CHECK_DEADLOCK FALSE
