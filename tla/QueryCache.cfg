SPECIFICATION Spec
CONSTANTS
    ann = ann
    bob = bob
    status = status
    fragment = fragment
    Users = {ann, bob}
    Queries = {status, fragment}
    Asked <- MCAsked
    Customers = {acme}
    CustomerOf <- MCCustomerOf
    Ambiguous = {fragment}
    Hinted = {}
    Similar <- MCSimilar
    CacheTTL = 2
    ProfileTTL = 2
    MaxReading = 2
    MaxPending = 3
    ReadDelay = 1
    StoreDelay = 1
    SemanticLookups = TRUE
    MaxFaults = 1
    None = None
INVARIANTS
    TypeOK
    OwnAnswersOnly
    ExactAnswersFresh
