CONSTANTS
    Runs = {A}
    N = 2
    Base = Base
    None = None
    MaxWaiting = 1
    MaxCrashes = 0
    MaxFaults = 0
    OperatorCleans = FALSE
    SignalsInPopen = FALSE
SPECIFICATION Spec
INVARIANTS
    FailureRestoresPreimage
CHECK_DEADLOCK FALSE
