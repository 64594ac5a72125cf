CONSTANTS
    Runs = {A}
    N = 2
    Base = Base
    None = None
    MaxWaiting = 1
    MaxCrashes = 0
    MaxFaults = 1
    OperatorCleans = FALSE
    SignalsInPopen = TRUE
SPECIFICATION Spec
INVARIANTS
    PreimageRecoverable
CHECK_DEADLOCK FALSE
