SPECIFICATION BrokerSpec
CONSTANTS
    Paths <- MCPaths
    ValidPaths <- MCPaths
    MaxId = 3
    PermissionInputs = {}
    MetadataInputs <- MCMetadataInputs
    UpdateInputs = {}
    Writers = {w1}
    Registrars = {r1}
    Subscribers = {s1}
    Queriers = {q1}
    Housekeeper = housekeeper
    Terminator = terminator
    PermissionOf <- MCPermissionOf
    Expiring = {s1, q1}
    Cancellable = {}
    BatchInputs <- MCBatchesOnC
    SubscribeInputs <- MCSubscriptionToB
    QueryInputs <- MCQueryOfC
    Preloaded <- MCPreloaded
    Capacity = 2
    MaxCalls = 1
PROPERTIES
    NoValueAfterExpiry
