CONSTANTS
    Keys = {k1}
    States = {s1, s2}
    Msgs = {m1, m2}
    NoState = NoState
    NoKey = NoKey
    Console = Console
    Shared = {k1}
    MaxSize = 1
SPECIFICATION FairSpec
PROPERTY CleanupGoesOn
CHECK_DEADLOCK FALSE
