\* Two clients, four chunks, a queue of two and a scrollback that overflows.
SPECIFICATION Spec
CONSTANTS
    Clients = {c1, c2}
    None = none
    QueueCap = 2
    SocketCap = 1
    InputCap = 1
    ScrollCap = 2
    MaxOut = 4
    MaxIn = 1
SYMMETRY Symmetry
INVARIANTS ClientsAreServed NothingIsLost ExitFrameIsTrue
