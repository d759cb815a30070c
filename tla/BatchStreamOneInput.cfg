SPECIFICATION FairSpec
CONSTANTS
    Detectors = {d1, d2}
    d1 = d1
    d2 = d2
    Choices <- OneInput
    NumChunks <- OneInputChunks
    ChunkRank <- OneInputRanks
    BatcherKind = "MaxProcessedIndex"
    StreamCap = 1
    MailboxCap = 2
    BatchCap = 1
    MayFail = TRUE
    MayEndShort = TRUE
    MayLeave = TRUE
INVARIANTS
    TypeOK
    ClosedMeansDrained
PROPERTIES
    ImplementsBatchChannel
    StreamCloses
    ErrorReported
    ReadyBatchPopped
