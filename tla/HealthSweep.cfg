SPECIFICATION FairSpec
CONSTANTS
    Pods = {p1, p2}
    Steady = {p1}
    Admins = {admin}
    CustomerCount = 1
    Changing = {1}
    SweepInterval = 3
    LockTTL = 2
    StartDelay = 1
    MaxRun = 3
    MaxFaults = 1
    DedupWindow = 6
    Triggers = {null}
    NoIssue = null
    RedisMayFail = TRUE
INVARIANTS
    TypeOK
    NoDuplicateBriefings
    OneSweepAtATime
    SweepGapBounded
PROPERTIES
    RiskSurfaced
