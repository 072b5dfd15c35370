SPECIFICATION Spec
CONSTANTS
    f1 = f1
    f2 = f2
    i1 = i1
    i2 = i2
    i3 = i3
    Instances = {i1, i2}
    Findings = {f1, f2}
    Wanted = {f1, f2}
    Body <- SameBody
    QuorumSize = 2
    MaxDeliver = 0
    Faults = {"lostReply", "sendError", "countExpiry", "statusExpiry"}
    MaxFaults = 1
SYMMETRY Symmetry
INVARIANTS
    CoolDownSilences
CHECK_DEADLOCK FALSE
