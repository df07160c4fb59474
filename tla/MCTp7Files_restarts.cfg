SPECIFICATION FairSpec
CONSTANTS
    c1 = c1
    c2 = c2
    c3 = c3
    f = f
    g = g
    Clients = {c1, c2, c3}
    NoClient = NoClient
    Files = {f, g}
    Requests <- Mixed
    MaxTable = 10
    MaxStarts = 2
    Faults = {"kill", "crash", "sigpipe", "busy", "glue"}
INVARIANTS
    TypeOK
    OneWriter
    UpdatesReplaceWhatWasRead
PROPERTIES
    EveryRunEnds
    StoredUpdateUnlocks
CHECK_DEADLOCK FALSE
