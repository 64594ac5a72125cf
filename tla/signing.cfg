CONSTANTS
    Histories = {h0, h1, h2, h3, h4, h5}
    BuildHistory = h0
    MaxCrashes = 3
    MaxFaults = 2
    OutOfOrder = FALSE
SPECIFICATION FairSpec
INVARIANTS
    PreimageJournaled
    CleanupIsSafe
    ReceiptsCertify
    SingleFailureUndone
PROPERTIES
    StageOrder
    
