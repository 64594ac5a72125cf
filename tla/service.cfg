CONSTANTS
    Calls = {c1, c2, c3}
    Sites = {s1}
    NoSite = NoSite
    IsReady = IsReady
    Limit = 2
SPECIFICATION FairServiceSpec
INVARIANTS
    CallbackHeldOnce
    CountsAreVerdicts
PROPERTIES
    BlockOnlyProtected
    EventuallyAnswered
CHECK_DEADLOCK FALSE
