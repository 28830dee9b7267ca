SPECIFICATION Spec
CONSTANTS
    first = r1
    Requests = {r1, r2, r3, r4}
    Earlier <- MCEarlier
    MaxHistory = 3
    SessionTTL = 1
    SessionFails = TRUE
    Users = {ann}
    Polls = {p1, p2}
    UserOf <- MCUserOf
    Watching = {p1}
    CustomerCount = 1
    Visible <- MCVisible
    Sources = {"health_sweep"}
    AlertTTL = 2
    PollGap = 1
    AlertsFail = TRUE
INVARIANTS
    TypeOK
    AlertsBounded
    SilenceBounded
PROPERTIES
    LossExcused
SYMMETRY MCSymmetry
