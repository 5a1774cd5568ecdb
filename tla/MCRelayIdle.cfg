CONSTANTS
    Idle = 2
    MaxBytes = 2
    RecvWindow = 2
    SendWindow = 1
    BufSize = 2
    SlowShutdown = {"ab"}
SPECIFICATION FairSpec
PROPERTY IdleCloses
CHECK_DEADLOCK FALSE
