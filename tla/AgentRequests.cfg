SPECIFICATION FairSpec
CONSTANTS
    Names <- MCNames
    NoName <- MCNoName
    Directory <- MCDirectory
    Requests <- MCRequests
    MaxBatch = 2
    RecursionLimit = 25
    NotBuilt = NotBuilt
INVARIANTS
    TypeOK
    WritesAuthorised
    WritesAudited
    WritesNeedIssues
    IterationBounded
    RulePlanCompleted
PROPERTIES
    DataFollowsCustomer
    NoToolRepeated
    ImplementsContract
    Terminates
