SPECIFICATION Spec
CONSTANTS
    DetectorType <- MCType
    Requests <- MCRequests
    Replies <- MCReplies
    Chunker <- MCChunker
    DefaultThreshold <- MCDefault
    Score <- MCScore
    ChunkerRequests = 2
    GrpcCodes = {"Unavailable", "DeadlineExceeded"}
    HttpCodes = {404, 502}
CHECK_DEADLOCK FALSE
INVARIANTS
    ErrorsAnswered
    InputGatesLLM
    DetectionsExact
PROPERTIES
    RequestAnswered
