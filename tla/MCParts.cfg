\* The table of terminals: two terminals over one pid, with reuse and shells
\* that exit at once.  An attachment: one client, four chunks that fill every
\* buffer.  A helper: two requests, two rounds of prompts, one fault.  Consoles:
\* two terminals over one pid.  A page: one view of a channel, three sockets, four
\* acts of the user, one connection that breaks.  A process: both kinds of host,
\* started in both ways, with a database, workers or a server that hang.  The log:
\* two followers, two filters, two children of one batch.
SPECIFICATION PartsSpec
CONSTANTS
    Terms = {t1, t2}
    Pids = {p1}
    None = none
    Stranger = stranger
    Faults = {"reuse", "late"}
    Clients = {c1}
    QueueCap = 1
    SocketCap = 1
    InputCap = 1
    ScrollCap = 1
    MaxOut = 4
    MaxIn = 2
    Requests = {r1, r2}
    MaxRounds = 2
    SessionPrompts = FALSE
    Failures = {"crash", "stuck", "late", "die"}
    MaxTrouble = 1
    MaxSock = 3
    Channels = {ch1}
    Views = {v1}
    Mishaps = {"drop", "cut", "late", "end"}
    WireCap = 2
    MaxActs = 4
    MaxBad = 1
    Slots = {p1}
    Breaks = {"db", "worker", "peer"}
    Followers = {f1, f2}
    Filters = {k1, k2}
    Children = {d1, d2}
    LogCap = 1
    MaxBatch = 1
INVARIANTS PartsAreSound HelperIsInStep SessionIsClosed
PROPERTIES EverybodyIsServed NothingIsLeft
