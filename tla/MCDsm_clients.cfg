SPECIFICATION Spec
CONSTANTS
    s1 = s1
    s2 = s2
    s3 = s3
    Sessions = {s1, s2, s3}
    NoSession = NoSession
    NumPages = 1
    PageNums = {0}
    PageSize = 100
    MaxMsg = 512
    TextIds = {"a", "b", "c", "d"}
    Typed <- TwoTexts
    Fds <- ThreeFds
    Ops = {"read", "lock"}
    MaxQueue = 1
    Faults = {"disconnect", "coalesce"}
SYMMETRY Symmetric
INVARIANTS
    TypeOK
    GrantExclusion
    LockedPageHasQueue
    EditedTextIsWhole
PROPERTIES
    ImplementsEditedPages
CHECK_DEADLOCK FALSE
