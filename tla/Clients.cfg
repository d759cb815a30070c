SPECIFICATION Spec
CONSTANTS
    Configs <- AllConfigs
    Conns = {c1}
    HealthConns = {h1}
    DetectorType <- NoDetectorType
    MaxRetries = 2
    ChannelCap = 1
    MaxLines = 3
    GrpcCodes = {"Unavailable", "DeadlineExceeded"}
INVARIANTS
    LookupsWork
    TlsApplied
    RetriesRight
    StreamFaithful
PROPERTIES
    
    ReaderEnds
CHECK_DEADLOCK FALSE
