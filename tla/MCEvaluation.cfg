SPECIFICATION EvalSpec
CONSTANTS
    Workstreams = 2
    MaxFixCycles = 1
    MaxCrashes = 0
    Cases = 2
INVARIANTS
    EvalTypeOK
    PassedIsVerified
    CasesCleanUp
    ErrorsBecomeRows
CHECK_DEADLOCK FALSE
