SPECIFICATION SafeSpec
CONSTANTS
    Entries = {e1}
    Stored = {e1}
    StoredData <- MCStoredData
    Dialogs = {}
    Urls <- MCUrls
    Tokens = {t1, t2}
    Malformed <- MCMalformed
    HostOf <- MCHostOf
    Intervals <- MCIntervals
    None = None
    t1 = t1
    t2 = t2
    Failures <- MCFailures
    FirstGood <- MCFirstGood
    MaxEvents = 1
INVARIANTS
    ReauthOffered
