CONSTANTS
    t1 = t1
    t2 = t2
    noThread = noThread
    Thread = {t1}
    NoThread <- noThread
    MaxInFlight = 1
    Text = {"a", "b"}
    MaxVersion = 3
    SourceKind = "file"
    Valid = {"a", "b"}
    Starts = {"a", "b"}
    Fingerprint <- MCFingerprint
    HostNames <- MCHostNames
    HostsPath = FALSE
    MaxEvents = 1
SPECIFICATION FairSpec
PROPERTIES EditNoticed WatchQuiesces CallReturns
CHECK_DEADLOCK FALSE
