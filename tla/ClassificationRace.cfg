SPECIFICATION Spec
CONSTANTS
    MaxMessages = 2
    ResponseCap = 2
    Requests <- AllRequests
    MayFail = FALSE
    GenMayFail = FALSE
    MayLose = FALSE
    MayLeave = FALSE
INVARIANTS
    ResponseUsesItsGenerations
