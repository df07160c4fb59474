SPECIFICATION FairSpec
CONSTANTS
    p1 = p1
    p2 = p2
    Processes = {p1, p2}
    NoProcess = NoProcess
    MaxStamp = 8
    InitialClocks = {0, 1, 3}
    Backlog = 2
    MaxClock = 1
    MaxRestarts = 2
INVARIANTS
    TypeOK
    ClockCondition
PROPERTIES
    MessagesArrive
