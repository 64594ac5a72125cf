SPECIFICATION Spec
CONSTANTS
    Operators = {o1, o2}
    MaxEdits = 1
    MaxMishaps = 2
SYMMETRY Symmetry
INVARIANTS
    ReceiptsAreTrue
    
    MountsAreKept
PROPERTIES
    NothingReplaced
CHECK_DEADLOCK FALSE
