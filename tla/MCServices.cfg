SPECIFICATION ServicesSpec
CONSTANTS
    Paths <- MCPaths
    ValidPaths <- MCValidPaths
    MaxId = 11
    PermissionInputs = {}
    MetadataInputs = {}
    UpdateInputs = {}
    FileLists <- MCFileLists
    Clients = {c1, c2}
    AuthorizationModes = {"Enabled"}
    Requests <- MCRequests
    MaxCalls = 2
    ErrorCapacity = 1
    MaxMessages = 2
    StreamMessages <- MCStreamMessages
CHECK_DEADLOCK FALSE

    
    
PROPERTIES
    LoadedAsWritten
    TokensGrantTheirScopes
    GetAnswersAsDocumented
    SetsAreAccountedFor
    StreamsEndAtShutdown
