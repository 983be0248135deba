SPECIFICATION BrokerSpec
CONSTANTS
    Paths <- MCPaths
    ValidPaths <- MCPaths
    MaxId = 3
    PermissionInputs = {}
    MetadataInputs <- MCMetadataInputs
    UpdateInputs = {}
    Writers = {w1, w2}
    Registrars = {}
    Subscribers = {s1}
    Queriers = {}
    Housekeeper = housekeeper
    Terminator = terminator
    PermissionOf <- MCPermissionOf
    Expiring = {}
    Cancellable = {}
    BatchInputs <- MCContinuousBatches
    SubscribeInputs <- MCSubscribeInputs
    QueryInputs <- MCQueryInputs
    Preloaded <- MCPreloaded
    Capacity = 2
    MaxCalls = 2
INVARIANTS
    SubscribersUpToDate
