SPECIFICATION Spec
CONSTANTS
    Workers = {w1, w2}
    Requests = {q1, q2}
    Calls = {c1, c2}
    NoCall = NoCall
    NoRequest = NoRequest
    NoWorker = NoWorker
    StaleAfter = 2
    MaxRunTime = 1
    MaxMessages = 2
    MaxFaults = 0
    ApiCanCrash = FALSE
    ClaimCanFail = FALSE
    DoubleSubmit = TRUE
SYMMETRY Symmetry
INVARIANTS
    PendingRunHasPendingApproval
    ProcessingIsHeld
    QueuedIsDeliverable
CHECK_DEADLOCK FALSE
