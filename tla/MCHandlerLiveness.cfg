SPECIFICATION FairHandlerSpec
CONSTANTS
    w = w
    g = g
    w1 = w1
    g1 = g1
    k1 = k1
    Setters = {s1}
    Channels = {w, g}
    GrpcChannels = {g}
    Ids = {w1, g1}
    Keys = {k1}
    Closing = {g}
    InitialRun = {TRUE, FALSE}
    MaxSets = 2
    ChannelOf <- MCChannelOf
    KeyOf <- MCKeyOf
PROPERTIES
    NotificationsLeave
    SetsReturn
    StopReturns
CHECK_DEADLOCK FALSE
