SPECIFICATION FairSpec
CONSTANTS
    Names <- MCNames
    NoName <- MCNoName
    Directory <- MCDirectory
    Requests <- MCFallbackRequests
    MaxBatch = 1
    RecursionLimit = 25
    NotBuilt = NotBuilt
PROPERTIES
    ToolsNeverRepeat
