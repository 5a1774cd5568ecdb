CONSTANTS
    Names = {"none", "n1"}
    NoNames = "none"
    MaxCalls = 2
    MaxEdits = 1
    MaxLen = 3
    Files <- MixedFiles
SPECIFICATION Spec
INVARIANTS SecondSyncQuiet NoTempLeft
PROPERTIES KeepsRest CrashKeepsWhole
CHECK_DEADLOCK FALSE
