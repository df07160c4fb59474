SPECIFICATION Spec
CONSTANTS
    s1 = s1
    s2 = s2
    s3 = s3
    Sessions = {s1, s2, s3}
    NoSession = NoSession
    NumPages = 1
    PageNums = {0}
    PageSize = 510
    MaxMsg = 512
    TextIds = {"a", "b", "c", "d"}
    Typed <- OneText
    Fds <- ThreeFds
    Ops = {"lock"}
    MaxQueue = 3
    Faults = {"disconnect"}
PROPERTIES
    TurnsInOrder
CHECK_DEADLOCK FALSE
