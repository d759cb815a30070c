SPECIFICATION Spec
CONSTANTS
    Detectors = {d1}
    d1 = d1
    Choices <- OneInput
    NumChunks <- OneInputChunks
    ChunkRank <- OneInputRanks
    BatcherKind = "MaxProcessedIndex"
    StreamCap = 2
    MailboxCap = 1
    BatchCap = 1
    MayFail = TRUE
    MayEndShort = FALSE
    MayLeave = TRUE
INVARIANTS
    EveryChunkDelivered
