SPECIFICATION Spec
CONSTANTS
    MaxBlock = 6
    Oversized = {}
    ChunkSize = 2
    Lag = 0
    Faults = {"rpcError", "recoveryPublishError"}
    MaxFaults = 2
INVARIANTS
    NoGapSinceStart
