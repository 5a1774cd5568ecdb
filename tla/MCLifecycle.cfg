CONSTANTS
    Addr = {"lo", "lo2", "lan"}
    Loopback = {"lo", "lo2"}
    DefaultListen = "lo"
    DefaultHosts = "etc"
    DefaultRefresh = 30
    DefaultKeys = {"default", "DEFAULT"}
    Kinds = {"watched", "polled", "url"}
    Clis <- MCClis
    Documents <- MCDocuments
    Mixed <- MCMixed
    MaxBytes = 2
    Path = {"etc", "other"}
    ConfigHost = "c"
    Urls = {"url"}
    Sites = {"n", "N", "c"}
    Lower <- MCLower
SPECIFICATION FairSpec
INVARIANTS BlockIsOurs RestartRefusedOnlyFor
PROPERTIES BlockBacked WholeText BackInService
CHECK_DEADLOCK FALSE
