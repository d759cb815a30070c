SPECIFICATION FairSpec
CONSTANTS
    Choices = {0, 1}
    MaxMessages = 2
    ResponseCap = 1
    Requests <- OutputRequests
    MayFail = TRUE
    MayLose = TRUE
    MayLeave = TRUE
INVARIANTS
    NothingAfterNone
    FinishReasonSent
    NoUncheckedText
    LookupsSucceed
PROPERTIES
    HandlerEnds
