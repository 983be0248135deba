SPECIFICATION HandlerSpec
CONSTANTS
    w = w
    g = g
    w1 = w1
    g1 = g1
    k1 = k1
    Setters = {s1, s2}
    Channels = {w, g}
    GrpcChannels = {g}
    Ids = {w1, g1}
    Keys = {k1}
    Closing = {w, g}
    InitialRun = {TRUE, FALSE}
    MaxSets = 3
    ChannelOf <- MCChannelOf
    KeyOf <- MCKeyOf
INVARIANTS
    FrontExists
    AsleepOnlyIfMissed
    SentInOrder
    LatestValueArrives
PROPERTY
    NoneAfterUnsubscribe
CHECK_DEADLOCK FALSE
