SPECIFICATION Spec
CONSTANTS
    Workstreams = 2
    MaxFixCycles = 3
    MaxCrashes = 1
PROPERTIES
    FinishedWorkIsNotRepeated
CHECK_DEADLOCK FALSE
