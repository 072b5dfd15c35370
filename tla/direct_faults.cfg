SPECIFICATION FairSpec
CONSTANTS
    MaxDeliver = 3
    Findings = {f1, f2}
    f1 = f1
    f2 = f2
    Faults = {"crash", "redisError", "lostReply", "sendError", "sendLost", "ackLost", "maxAge"}
    MaxFaults = 3
INVARIANTS
    TypeOK
    SettledMeansPosted
    PostedAtMostOnce
    GivenUpMeansFailed
PROPERTIES
    PublishedIsPosted
CHECK_DEADLOCK FALSE
