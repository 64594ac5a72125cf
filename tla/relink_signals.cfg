CONSTANTS
    Runs = {A, B}
    N = 2
    Base = Base
    None = None
    MaxWaiting = 1
    MaxCrashes = 2
    MaxFaults = 1
    OperatorCleans = FALSE
    SignalsInPopen = TRUE
SPECIFICATION Spec
SYMMETRY Symmetry
INVARIANTS
    WriteAhead
    OneTransaction
PROPERTIES
    CommitWithPreimages
    CommitIsFinal
CHECK_DEADLOCK FALSE
