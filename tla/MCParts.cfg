SPECIFICATION FairSpec
CONSTANTS
    Paths = {p1, p2, p3, p4}
    MaxWorkstreams = 3
    MaxPaths = 2
    Agents = {a1, a2}
    MaxCalls = 3
    Base = main
    DefaultBranches = {main, master}
    EnclosingBranches = {main, dev, NoBranch}
    NoBranch = NoBranch
    Names = {n1, n2, n3}
    NoName = NoName
    MaxRenames = 1
    AgentCrashes = 1
    MaxCrashes = 2
INVARIANTS
    TypeOK
    VerdictIsRight
    AppliedWasApproved
    NoQuestionIsLost
    ReplayConverges
    ReadyIsUsable
    OutcomeIsTrue
    ResultIsNotLost
PROPERTIES
    WorkIsKept
    TaskReturns
    OnePublication
CHECK_DEADLOCK FALSE
