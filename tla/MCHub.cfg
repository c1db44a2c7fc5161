\* One connection, a broadcast that overtakes it and a watch; two streams at a time.
SPECIFICATION FairSpec
CONSTANTS
    Conns = {c1}
    Channels = {metrics, health}
    Watched = {health}
    Subs = {1, 2}
    Depth = 1
    SockCap = 1
    MaxPub = 2
    None = none
INVARIANTS StreamsAreOwned
PROPERTIES GapsAreTold SubscriberCatchesUp
