SPECIFICATION Spec
CONSTANTS
    c1 = c1
    c2 = c2
    Clients = {c1, c2}
    NoClient = NoClient
    MaxClients = 2
    Start <- Together
    Second = 1
    MaxTime = 0
    Faults = {"quit"}
INVARIANTS
    LostClientsDoNotKill
