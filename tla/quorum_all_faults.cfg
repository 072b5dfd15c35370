SPECIFICATION Spec
CONSTANTS
    f1 = f1
    f2 = f2
    i1 = i1
    i2 = i2
    i3 = i3
    Instances = {i1, i2}
    Findings = {f1}
    Wanted = {f1}
    Body <- OnlyBody
    QuorumSize = 2
    MaxDeliver = 4
    Faults = {"crash", "redisError", "lostReply", "sendError", "sendLost", "ackLost", "countExpiry", "statusExpiry", "cacheExpiry", "evict"}
    MaxFaults = 3
SYMMETRY Symmetry
INVARIANTS
    TypeOK
    SentIsTruthful
CHECK_DEADLOCK FALSE
