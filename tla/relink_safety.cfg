CONSTANTS
    Runs = {A, B}
    N = 2
    Base = Base
    None = None
    MaxWaiting = 1
    MaxCrashes = 2
    MaxFaults = 1
    OperatorCleans = FALSE
    SignalsInPopen = FALSE
SPECIFICATION Spec
SYMMETRY Symmetry
INVARIANTS
    PreimageRecoverable
    GenuinePreimage
PROPERTIES
    UndisturbedBuild
    RecoveryIsExact
    AtomicRelink
CHECK_DEADLOCK FALSE
