CONSTANTS
    Hops <- MCHops
    ClientStreams <- MCClientStreams
    Meant <- MCMeant
    Replies <- MCReplies
    Host = {"short", "long"}
    LongHost = {"long"}
    Spelling <- MCSpelling
    MaxHeader = 7
    MaxHello = 70
    ChunkSize = 3
    BufSize = 2
SPECIFICATION Spec
INVARIANTS TypeOK TargetRight StreamsExact VerdictRight
PROPERTY ImplementsHandler
CHECK_DEADLOCK FALSE
