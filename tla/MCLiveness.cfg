SPECIFICATION FairSpec
CONSTANTS
    Paths <- MCPaths
    ValidPaths <- MCPaths
    MaxId = 3
    PermissionInputs = {}
    MetadataInputs <- MCMetadataInputs
    UpdateInputs = {}
    Writers = {w1}
    Registrars = {}
    Subscribers = {s1}
    Queriers = {q1}
    Housekeeper = housekeeper
    Terminator = terminator
    PermissionOf <- MCPermissionOf
    Expiring = {}
    Cancellable = {w1, s1, q1}
    BatchInputs <- MCOneBatch
    SubscribeInputs <- MCOneSubscription
    QueryInputs <- MCOneQuery
    Preloaded <- MCPreloaded
    Capacity = 1
    MaxCalls = 1
PROPERTIES
    CallsReturn
    LeaversAreRemoved
    StreamsEndAtShutdown
