\* One call and one subscription over full streams, with every fault.
SPECIFICATION FairSpec
CONSTANTS
    Calls = {c1}
    Subs = {s1}
    None = none
    ToCap = 1
    FromCap = 2
    QueueCap = 1
    MaxEvents = 3
    Faults = {"drop", "crash"}
INVARIANTS AnswersAreOwned NoEventIsLost StreamIsWatched
PROPERTIES EveryWaitEnds
