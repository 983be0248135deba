SPECIFICATION BrokerSpec
CONSTANTS
    Paths <- MCPaths
    ValidPaths <- MCPaths
    MaxId = 3
    PermissionInputs = {}
    MetadataInputs <- MCMetadataInputs
    UpdateInputs = {}
    Writers = {w1, w2}
    Registrars = {}
    Subscribers = {s1}
    Queriers = {q1}
    Housekeeper = housekeeper
    Terminator = terminator
    PermissionOf <- MCPermissionOf
    Expiring = {}
    Cancellable = {}
    BatchInputs <- MCBatchInputs
    SubscribeInputs <- MCSubscribeInputs
    QueryInputs <- MCQueryInputs
    Preloaded <- MCPreloaded
    Capacity = 2
    MaxCalls = 2
INVARIANTS
    BrokerTypeOK
    NotifiesOwnCommit
    InCommitOrder
    QueriesUpToDate
    OnlyTheGapIsMissed
PROPERTIES
    ImplementsFeed
