SPECIFICATION FairSpec
CONSTANTS
    Runs = {r1, r2}
    NoRun = NoRun
    LastVersion = 3
    MaxClicks = 2
    MaxReplies = 2
    MaxDrops = 0
    MaxFailures = 0
    MaxOvertakes = 0
PROPERTIES
    ViewCatchesUp
CHECK_DEADLOCK FALSE
