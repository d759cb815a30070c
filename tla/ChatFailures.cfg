SPECIFICATION FairSpec
CONSTANTS
    Choices = {0, 1}
    MaxMessages = 2
    ResponseCap = 1
    Requests <- FullRequests
    CallMayFail = TRUE
    SetupMayFail = TRUE
    PipeMayFail = TRUE
    LlmMayFail = TRUE
    MayLose = TRUE
    MayLeave = TRUE
INVARIANTS
    BatchIsBacked
    ChunksInOrder
    InputBlocksGeneration
PROPERTIES
    HandlerEnds
