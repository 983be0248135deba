SPECIFICATION VissSpec
CONSTANTS
    Paths <- MCPaths
    ValidPaths <- MCPaths
    MaxId = 4
    PermissionInputs = {}
    MetadataInputs = {}
    UpdateInputs = {}
    Connections = {w1}
    Authorization = "Enabled"
    Leaves <- MCLeaves
    Provided = 0
    Requests <- MCRequests
    Buffer = 1
    Capacity = 1
    MaxRequests = 2
    MaxSubscriptions = 1
    MaxUpdates = 3
CHECK_DEADLOCK FALSE
INVARIANTS
    ResponsesInOrder
    EventsInOrder
    UnsubscribeStops
PROPERTIES
    DropsOnlyWhenFull
    ValuesNeedPermission
    SetsTakeEffect
    MetadataIsComplete
    UpdatesGoThrough
    ClosedConnectionsEnd
