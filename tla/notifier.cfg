SPECIFICATION FairSpec
CONSTANTS
    Channels = {"telegram", "discord", "slack", "opsgenie"}
    Limit = 16
    Warning = 3
    FallbackSuffix = 2
    MaxLength = 18
    Faults = {"limited", "limitedBody", "client", "server", "refused", "cutOff", "unsent", "unanswered"}
    MaxFaults = 2
INVARIANTS
    TruncatedFits
PROPERTIES
    KeepsContract
    PostedInTheEnd
CHECK_DEADLOCK FALSE
