CONSTANTS
    r1 = r1
    r2 = r2
    Calls = {r1, r2}
    Sites = {s1}
    NoSite = NoSite
    IsReady = IsReady
    Limit = 1
    MaxUrl <- Redirects
SPECIFICATION FairSpec
INVARIANTS
    ClearedFirst
PROPERTIES
    QuietAfterEnd
    GateHolds
    EveryRequestEnds
CHECK_DEADLOCK FALSE
