SPECIFICATION FairSpec
CONSTANTS
    Direct = {shell}
    Daemon = daemon
    None = none
    MaxMishaps = 2
INVARIANTS
    BuildIsOwned
    SuccessIsEarned
    LauncherTellsTruth
PROPERTY
    CompletedIsRecorded
CHECK_DEADLOCK FALSE
