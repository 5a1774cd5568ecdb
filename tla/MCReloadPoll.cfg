CONSTANTS
    t1 = t1
    t2 = t2
    noThread = noThread
    Thread <- MCThread
    NoThread <- noThread
    MaxInFlight = 2
    Text = {"a", "aCase", "noStart", "bad"}
    MaxVersion = 2
    SourceKind = "url"
    Valid = {"a", "aCase", "noStart"}
    Starts = {"a", "aCase"}
    Fingerprint <- MCFingerprint
    HostNames <- MCHostNames
    HostsPath = TRUE
    MaxEvents = 1
SPECIFICATION FairSpec
INVARIANTS ReloadTypeOK SlotAccounting FreshAnswer AnswerStillComing TableMatchesYaml HostsMatchYaml
PROPERTIES TableAdvances PollConverges
CHECK_DEADLOCK FALSE
