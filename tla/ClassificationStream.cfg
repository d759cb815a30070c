SPECIFICATION FairSpec
CONSTANTS
    MaxMessages = 3
    ResponseCap = 1
    Requests <- AllRequests
    MayFail = TRUE
    GenMayFail = TRUE
    MayLose = TRUE
    MayLeave = TRUE
INVARIANTS
    SliceIsExactOrEmpty
    ErrorIsLast
PROPERTIES
    AllTasksEnd
