CONSTANTS
    Runs = {A}
    N = 2
    Base = Base
    None = None
    MaxWaiting = 2
    MaxCrashes = 2
    MaxFaults = 2
    OperatorCleans = TRUE
    SignalsInPopen = FALSE
SPECIFICATION FairSpec
PROPERTIES
    EventuallySettled
CHECK_DEADLOCK FALSE
