SPECIFICATION SyncSpec
CONSTANTS
    Names <- MCNames
    NoName <- MCNoName
    Directory <- MCDirectory
    Queries <- MCQueries
    RoleSets <- MCRoleSets
    LlmTools <- MCLlmTools
    MaxPlan = 3
    KeyConfigured = TRUE
    ToolsMayFail = TRUE
    RedisMayFail = TRUE
INVARIANTS
    SyncTypeOK
    AnswerOnCustomer
PROPERTIES
    ImplementsContract
