SPECIFICATION FairSpec
CONSTANTS
    Detectors = {d1, d2}
    d1 = d1
    d2 = d2
    MaxMessages = 3
    InputCap = 1
    RingCap = 1
    MayFail = TRUE
INVARIANTS
    NoChunkMissed
    CompleteOrError
    NothingPastError
PROPERTIES
    ErrorReachesClient
    RequestEnds
