SPECIFICATION FairSpec
CONSTANTS
    MaxBlock = 6
    Oversized = {1, 5}
    ChunkSize = 3
    Lag = 2
    Faults = {"rpcError", "publishError", "recoveryPublishError", "asyncLoss", "shuffled", "restart"}
    MaxFaults = 3
INVARIANTS
    TypeOK
    GapsAreExplained
PROPERTIES
    BareAtTheTipOnly
    CatchesUp
