SPECIFICATION FairSpec
CONSTANTS
    Workers = {w1, w2}
    Requests = {q1, q2}
    Calls = {c1, c2}
    NoCall = NoCall
    NoRequest = NoRequest
    NoWorker = NoWorker
    StaleAfter = 2
    MaxRunTime = 1
    MaxMessages = 4
    MaxFaults = 2
    ApiCanCrash = FALSE
    ClaimCanFail = FALSE
    DoubleSubmit = FALSE
PROPERTIES
    AutomaticStatesEnd
CHECK_DEADLOCK FALSE
