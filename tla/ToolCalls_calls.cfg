SPECIFICATION FairSpec
CONSTANTS
    Calls = {c1}
    MaxChunks = 1
    MaxOps = 2
    MaxStops = 2
INVARIANTS
    TypeOK
    BoundedBackground
    OutcomeIsReal
    ListedIsAttended
PROPERTIES
    CancelTakesEffect
    OffloadedIsReported
    ImplementsToolAnswers
\* Calls that are over leave nothing to do.
CHECK_DEADLOCK FALSE
