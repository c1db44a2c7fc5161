\* Two requests, the sweeper and the shutdown over three conversations: a login
\* and two elevations of it, with every fault.  What is unused times out with
\* the first tick.
SPECIFICATION Spec
CONSTANTS
    Convs = {c1, c2, c3}
    Reqs = {r1, r2}
    Sweeper = sweeper
    Stopper = stopper
    NoConv = none
    IdleTimeout = 0
    ElevatedTimeout = 0
    PendingTimeout = 0
    MaxTime = 1
    Faults = {"db", "disconnect", "crash"}
SYMMETRY Symmetry
INVARIANTS OwnersAreSingle SessionsAreWhole
