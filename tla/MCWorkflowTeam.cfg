SPECIFICATION Spec
CONSTANTS
    Workers = {w1, w2}
    Requests = {q1, q2, q3}
    Calls = {c1, c2, c3}
    NoCall = NoCall
    NoRequest = NoRequest
    NoWorker = NoWorker
    StaleAfter = 2
    MaxRunTime = 1
    MaxMessages = 4
    MaxFaults = 3
    ApiCanCrash = TRUE
    ClaimCanFail = TRUE
    DoubleSubmit = FALSE
SYMMETRY Symmetry
INVARIANTS
    TypeOK
    OneTaskAdvances
    AdvancingTaskHoldsClaim
    ResumedRunIsDecided
    AgentsActOnRecordedDecisions
PROPERTIES
    ImplementsLifecycle
CHECK_DEADLOCK FALSE
