\* Metrics: ten ticks of two a minute, three tables, one round late, with every
\* fault.  Icons: two callers and the warmer over two names, room for one.  Calls: a
\* request of every kind, two elevations, two faults.  Services: two callers on one.
\* A log: three entries of any order and channel in three instants, two pages of
\* one.  Its page in the browser: three entries, two kept, one change of the filter.
SPECIFICATION DataSpec
CONSTANTS
    PerMin = 2
    RingSecs = 4
    Top = 3
    Widths <- SmallWidths
    Retain <- SmallRetain
    MaxPoints = 10
    MaxTime = 10
    MaxLate = 1
    None = none
    MaxTrouble = 2
    Faults = {"crash", "db"}
    Callers = {a1, a2}
    Warmers = {w1}
    Names = {n1, n2}
    Ttl = 2
    Interval = 1
    Capacity = 1
    MaxAttempts = 2
    Requests = {q1}
    User = u1
    Roots = {x1, x2}
    Hits = {"crash", "slow", "drop", "store"}
    Services = {s1}
    MaxMoves = 1
    MaxGiveUps = 1
    Limit = 1
    TailSlack = 1
    CursorSlack = 1
    MaxScan = 3
    PerSec = 2
    Default = 2
    Channels = {h1, h2}
    MaxLog = 3
    LogTime = 2
    MaxPages = 2
    PageSize = 1
    MaxEntries = 2
    Filters = {1, 2}
    MaxSize = 3
    MaxActs = 1
INVARIANTS MinutesAreKept LiveAnswerIsWhole RollupIsExact HistoryIsKept SharedWorkHasItsWorker
INVARIANTS OperationsAreTrue LogIsWhole
CHECK_DEADLOCK FALSE
