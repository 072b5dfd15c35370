SPECIFICATION FairSpec
CONSTANTS
    f1 = f1
    f2 = f2
    i1 = i1
    i2 = i2
    i3 = i3
    Instances = {i1, i2}
    Findings = {f1, f2}
    Wanted = {f1}
    Body <- OwnBody
    QuorumSize = 2
    MaxDeliver = 0
    Faults = {"sendError", "sendLost", "ackLost"}
    MaxFaults = 1
INVARIANTS
    SettledMeansNotified
PROPERTIES
    QuorumIsNotified
CHECK_DEADLOCK FALSE
