\* One request, the sweeper and the shutdown; elevation times out at once, the
\* session one tick later; the process may crash.
SPECIFICATION FairSpec
CONSTANTS
    Convs = {c1, c2}
    Reqs = {r1}
    Sweeper = sweeper
    Stopper = stopper
    NoConv = none
    IdleTimeout = 1
    ElevatedTimeout = 0
    PendingTimeout = 0
    MaxTime = 2
    Faults = {"crash"}
INVARIANTS NoStrayUserWorker ElevatedRowIsExplained
PROPERTIES TeardownCompletes IdleEnds
