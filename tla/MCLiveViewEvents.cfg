SPECIFICATION FairSpec
CONSTANTS
    Runs = {r1, r2}
    NoRun = NoRun
    LastVersion = 3
    MaxClicks = 2
    MaxReplies = 3
    MaxDrops = 1
    MaxFailures = 1
    MaxOvertakes = 1
INVARIANTS
    TypeOK
    PanelIsCurrent
PROPERTIES
    EventsCatchUp
CHECK_DEADLOCK FALSE
