SPECIFICATION Spec
CONSTANTS
    Pods = {p1, p2}
    CustomerCount = 2
    RedisDown = FALSE
    MaxFailures = 1
    NoSnapshot = NoSnapshot
    DedupWindow = 1
    Triggers = {"green", "amber", "red"}
INVARIANTS
    TypeOK
    TransitionBriefedOnce
PROPERTIES
    EachTransitionBriefed
