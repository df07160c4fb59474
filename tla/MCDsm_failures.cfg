SPECIFICATION Spec
CONSTANTS
    s1 = s1
    s2 = s2
    Sessions = {s1, s2}
    NoSession = NoSession
    NumPages = 2
    PageNums = {0, 1, 2}
    PageSize = 600
    MaxMsg = 512
    TextIds = {"a", "b", "c", "d"}
    Typed <- EdgeTexts
    Fds <- TwoFds
    Ops = {"read", "lock"}
    MaxQueue = 1
    Faults = {"disconnect", "malloc", "crash"}
SYMMETRY Symmetric
INVARIANTS
    FreePageHasNoQueue
    NoLostUpdate
    EveryPageCanBeSent
CHECK_DEADLOCK FALSE
