SPECIFICATION Spec
CONSTANTS
    Detectors = {d1, d2}
    d1 = d1
    d2 = d2
    Choices <- OneInput
    NumChunks <- OneInputChunks
    ChunkRank <- OneInputRanks
    BatcherKind = "MaxProcessedIndex"
    StreamCap = 2
    MailboxCap = 3
    BatchCap = 2
    MayFail = FALSE
    MayEndShort = FALSE
    MayLeave = FALSE
INVARIANTS
    EveryChunkDelivered
