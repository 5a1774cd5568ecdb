CONSTANTS
    Idle = 2
    MaxBytes = 2
    RecvWindow = 2
    SendWindow = 1
    BufSize = 2
    SlowShutdown = {"ab"}
SPECIFICATION DrainSpec
INVARIANTS BytesConserved EndAfterAllBytes
PROPERTIES Delivered IdleCloses
CHECK_DEADLOCK FALSE
