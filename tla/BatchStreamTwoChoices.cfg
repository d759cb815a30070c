SPECIFICATION Spec
CONSTANTS
    Detectors = {d1, d2}
    d1 = d1
    d2 = d2
    Choices <- TwoChoices
    NumChunks <- TwoChoicesChunks
    ChunkRank <- TwoChoicesRanks
    BatcherKind = "Completion"
    StreamCap = 1
    MailboxCap = 2
    BatchCap = 1
    MayFail = FALSE
    MayEndShort = FALSE
    MayLeave = FALSE
INVARIANTS
    InOrder
    OneSetPerDetector
