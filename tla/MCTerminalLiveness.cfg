\* Two places and failed reads, with every closer; fair tasks.
SPECIFICATION FairSpec
CONSTANTS
    Sessions = {s1}
    Terms = {t1, t2}
    Reqs = {r1}
    Sweeper = sweeper
    None = none
    MaxPerSession = 2
    Faults = {"read"}
INVARIANTS NoStrayShell
PROPERTIES TerminalsEnd
