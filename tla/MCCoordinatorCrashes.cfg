SPECIFICATION FairSpec
CONSTANTS
    Workstreams = 3
    MaxFixCycles = 3
    MaxCrashes = 2
INVARIANTS
    TypeOK
    NothingLeftOut
    FinalIsVerified
    TestedIsReviewed
    NoMarkersCommitted
    SavedWorkIsKept
    FixesBounded
    PauseIsResumable
    FinalizedIsClean
PROPERTIES
    AdvanceEnds
    ImplementsLifecycle
CHECK_DEADLOCK FALSE
