CONSTANTS
    LowerOf <- MCLowerOf
    Letter <- MCLetter
    MaxName = 5
    MaxLabel = 3
    Key <- MCKey
    Rank <- MCRank
    DefaultKey <- MCDefault
    HostKey <- MCHostKey
    Proxy = {"p", "q", "x"}
    Yaml <- MCYaml
    Written <- MCWritten
    DefaultPort = 80
SPECIFICATION Spec
INVARIANTS RoutesAsWritten FingerprintExact AcceptedIffGood
CHECK_DEADLOCK FALSE
