SPECIFICATION FairSpec
CONSTANTS
    Pods = {p1, p2}
    Steady = {p1}
    Issues = {i1, i2}
    Triggers = {i1, i2}
    Customers = {acme}
    CustomerOf <- MCCustomerOf
    MaxQueue = 2
    DedupWindow = 1
INVARIANTS
    TypeOK
    DuplicatesBounded
PROPERTIES
    NoteSurfaced
