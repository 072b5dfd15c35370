SPECIFICATION TimedSpec
CONSTANTS
    f1 = f1
    f2 = f2
    i1 = i1
    i2 = i2
    i3 = i3
    Instances = {i1, i2}
    Findings = {f1}
    Wanted = {f1}
    Body <- OnlyBody
    QuorumSize = 2
    MaxDeliver = 10
    Faults = {"crash"}
    MaxFaults = 1
PROPERTIES
    ClaimIsPickedUp
CHECK_DEADLOCK FALSE
