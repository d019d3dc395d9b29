\* One tab, and as many failed requests as the store retries by itself.
CONSTANTS
    Tab = {t1}
    Problem = {p1}
    Code = {c1}
    Now = {1}
    None = None
    Fault = {"refused", "timeout", "read"}
    MaxFaults = 3
    MaxEdits = 2
    MaxSubmissions = 1
    MaxReads = 1
SPECIFICATION FairSpec
INVARIANTS
    TypeOK
    StarsFollowClicks
    UnsavedIsHandled
PROPERTIES
    EverythingIsSaved
