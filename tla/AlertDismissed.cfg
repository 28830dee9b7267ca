SPECIFICATION Spec
CONSTANTS
    first = r1
    Requests = {r1}
    Earlier <- MCEarlier
    MaxHistory = 2
    SessionTTL = 1
    SessionFails = FALSE
    Users = {ann}
    Polls = {p1, p2}
    UserOf <- MCUserOf
    Watching = {p1}
    CustomerCount = 1
    Visible <- MCVisible
    Sources = {"health_sweep"}
    AlertTTL = 2
    PollGap = 1
    AlertsFail = FALSE
PROPERTIES
    DismissalRearms
