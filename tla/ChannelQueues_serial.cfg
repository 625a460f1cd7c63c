CONSTANTS
    Keys = {k1}
    States = {s1, s2, s3}
    Msgs = {m1, m2, m3}
    NoState = NoState
    NoKey = NoKey
    Console = Console
    Shared = {k1}
    MaxSize = 1
SPECIFICATION Spec
INVARIANT StrictSerialization
CHECK_DEADLOCK FALSE
