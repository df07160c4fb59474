SPECIFICATION StubbornSpec
CONSTANTS
    c1 = c1
    c2 = c2
    Clients = {c1, c2}
    NoClient = NoClient
    MaxClients = 2
    Start <- Apart
    Second = 2
    MaxTime = 1
    Faults = {"slow", "quit", "stop", "settime"}
INVARIANTS
    TypeOK
    AnswersBelongToTheRound
    ClocksStayInRange
    CorrectedClientsAgree
PROPERTIES
    AcceptedClientsAreCorrected
    StopsWhenTold
CHECK_DEADLOCK FALSE
