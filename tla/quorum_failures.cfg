SPECIFICATION Spec
CONSTANTS
    f1 = f1
    f2 = f2
    i1 = i1
    i2 = i2
    i3 = i3
    Instances = {i1, i2, i3}
    Findings = {f1}
    Wanted = {f1}
    Body <- OnlyBody
    QuorumSize = 2
    MaxDeliver = 0
    Faults = {"crash", "redisError", "sendError", "ackLost", "countExpiry", "cacheExpiry", "evict"}
    MaxFaults = 2
SYMMETRY Symmetry
INVARIANTS
    OneSender
    DeliveredAtMostOnce
    NothingDropped
CHECK_DEADLOCK FALSE
