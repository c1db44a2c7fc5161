\* Units: two subscribers, one unit whose changes fill the streams, one fault.  The
\* poller: two subscribers, a service that changes twice, a round that fails.
SPECIFICATION EventsSpec
CONSTANTS
    Subscribers = {r1, r2}
    Units = {u1}
    NStreams = 2
    QueueCap = 1
    MaxVer = 2
    MaxTrouble = 1
    None = none
    Faults = {"slow", "cut", "panic"}
    MaxMoves = 2
INVARIANTS ListensOnce FloodLosesNothing
PROPERTIES ReceiversAreTold ReceiversAreServed
CHECK_DEADLOCK FALSE
