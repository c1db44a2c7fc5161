\* Three connections, two minutes of two series, one row per frame.
SPECIFICATION FairSpec
CONSTANTS
    MaxConn = 3
    NSeries = 2
    MaxTs = 2
    Batch = 1
    UpCap = 1
    DownCap = 1
    None = none
    Faults = {"cut", "db", "restart"}
INVARIANTS OnlineHasServer WatermarkIsBacked NoGap
PROPERTIES Delivered
CHECK_DEADLOCK FALSE
