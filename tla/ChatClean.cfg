SPECIFICATION Spec
CONSTANTS
    Choices = {0, 1}
    MaxMessages = 3
    ResponseCap = 1
    Requests <- AllRequests
    CallMayFail = FALSE
    SetupMayFail = FALSE
    PipeMayFail = FALSE
    LlmMayFail = FALSE
    MayLose = FALSE
    MayLeave = FALSE
INVARIANTS
    TextComplete
    UsageReported
    NothingAfterNone
    EndsWithNone
