SPECIFICATION FairHandlerSpec
CONSTANTS
    w = w
    g = g
    w1 = w1
    g1 = g1
    k1 = k1
    Setters = {s1}
    Channels = {w}
    GrpcChannels = {}
    Ids = {w1}
    Keys = {k1}
    Closing = {w}
    InitialRun = {TRUE}
    MaxSets = 2
    ChannelOf <- MCChannelOf
    KeyOf <- MCKeyOf
PROPERTY
    DeadAreForgotten
CHECK_DEADLOCK FALSE
