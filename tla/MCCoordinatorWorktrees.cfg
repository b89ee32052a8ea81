SPECIFICATION Spec
CONSTANTS
    Workstreams = 2
    MaxFixCycles = 3
    MaxCrashes = 0
INVARIANTS
    TerminalIsClean
CHECK_DEADLOCK FALSE
