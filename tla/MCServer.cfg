CONSTANTS
    Conn = {c1, c2}
    MaxConnections = 1
    Host = {"x", "y"}
    Hop = {"jp", "us"}
    Tables <- MCTables
SPECIFICATION FairSpec
INVARIANTS PermitsAccounted OneTable
PROPERTIES Answered SetupEnds
CHECK_DEADLOCK FALSE
