CONSTANTS
    Histories = {h0, h1, h2, h3, h4, h5}
    BuildHistory = h0
    MaxCrashes = 1
    MaxFaults = 0
    OutOfOrder = TRUE
SPECIFICATION Spec
PROPERTY
    AcceptedStays
CHECK_DEADLOCK FALSE
