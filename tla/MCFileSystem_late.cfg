SPECIFICATION FairSpec
CONSTANTS
    j1 = j1
    j2 = j2
    d1 = d1
    d2 = d2
    Jobs = {j1, j2}
    Servers = {d1}
    NoServer = NoServer
    NoName = NoName
    Names = {"a", "b", "c"}
    Kind <- KindOf
    Disk <- OneDisk
    Commands <- OneMenu
    Requests <- WriteOther
    Texts = {"x"}
    MaxFiles = 3
    Faults = {}
PROPERTIES
    ReachableServerUnlocks
CHECK_DEADLOCK FALSE
