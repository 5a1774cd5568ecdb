CONSTANTS
    Stall = 30
    Poll = 1
    Beat = 1
    Hard = 15
    Quick = 2
SPECIFICATION WatchdogSpec
INVARIANTS DetectedInTime NoFalseAlarm
CHECK_DEADLOCK FALSE
