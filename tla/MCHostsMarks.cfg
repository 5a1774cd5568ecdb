CONSTANTS
    Names = {"none", "n1"}
    NoNames = "none"
    MaxCalls = 1
    MaxEdits = 0
    MaxLen = 4
    Files <- StrayFiles
SPECIFICATION Spec
PROPERTY LeavesRestUnchanged
CHECK_DEADLOCK FALSE
