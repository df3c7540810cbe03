SPECIFICATION Spec
CONSTANTS
    Entries = {e1, e2}
    Stored = {e1}
    StoredData <- MCStoredData
    Dialogs = {d1, d2}
    Urls <- MCUrls
    Tokens = {t1, t2}
    Malformed <- MCMalformed
    HostOf <- MCHostOf
    Intervals <- MCIntervals
    None = None
    t1 = t1
    t2 = t2
    Failures <- MCFailures
    FirstGood <- MCFirstGood
    MaxEvents = 3
INVARIANTS
    TypeOK
    ClientCurrent
    IntervalLive
PROPERTIES
    UrlOnlyReconfigured
    AddsOnly
    SetupSettles
    ReauthEnds
CHECK_DEADLOCK FALSE
