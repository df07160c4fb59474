SPECIFICATION FairSpec
CONSTANTS
    c1 = c1
    c2 = c2
    Clients = {c1, c2}
    NoClient = NoClient
    MaxClients = 1
    Observed = c1
    Second = 2
    Offsets <- Far
    MaxNow = 4
    Faults = {"date", "quit", "stop", "nothread", "settime"}
INVARIANTS
    TypeOK
    OwnConnection
    OneThreadPerSlot
PROPERTIES
    CorrectionIsBounded
    NobodyWaitsForEver
    EveryoneStops

CHECK_DEADLOCK FALSE
