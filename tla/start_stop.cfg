SPECIFICATION FairSpec
CONSTANTS
    Illegal <- IllegalPieces
    Blank <- BlankPieces
    Configs <- SmallConfigs
    Faults = {"setup", "config", "redis", "nats", "stream", "consumer", "listen", "drain"}
    MaxFaults = 2
INVARIANTS
    TypeOK
    ExitCodeTells
    ValidConfigStarts
    EverySubjectServed
    StoppedBeforeClose
PROPERTIES
    Stops
CHECK_DEADLOCK FALSE
