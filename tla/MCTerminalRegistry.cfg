\* One session with one place, two opens at a time, every fault.
SPECIFICATION Spec
CONSTANTS
    Sessions = {s1}
    Terms = {t1, t2}
    Reqs = {r1, r2}
    Sweeper = sweeper
    None = none
    MaxPerSession = 1
    Faults = {"disconnect", "timeout", "crash", "read"}
SYMMETRY Symmetry
INVARIANTS PlacesHold ClosesAreOnce
