SPECIFICATION FairSpec
CONSTANTS
    j1 = j1
    j2 = j2
    d1 = d1
    d2 = d2
    Jobs = {j1, j2}
    Servers = {d1, d2}
    NoServer = NoServer
    NoName = NoName
    Names = {"a", "b", "c"}
    Kind <- KindOf
    Disk <- TwoDisks
    Commands <- TwoMenus
    Requests <- Shared
    Texts = {"x"}
    MaxFiles = 1
    Faults = {"kill", "sigpipe", "glue", "overflow", "nofork"}
INVARIANTS
    TypeOK
    OneWriter
    UpdatesBuildOnEachOther
    UpdateReachesRegisteredServer
PROPERTIES
    ArrivedUpdateUnlocks
