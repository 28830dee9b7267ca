CONSTANTS
    Issues = {i1}
    Statuses = {open, resolved}
    NewStatus = open
    Writers = {w1, w2}
    Pods = {p1, p2}
    Steady = {p1}
    MaxUpdates = 3
    MaxFailures = 2

SPECIFICATION FairStoreSpec

INVARIANTS
    StatusNoted

PROPERTIES
    Searchable
    NotificationsCease
