SPECIFICATION Spec
CONSTANTS
    Message <- MCMessage
    Channel <- TwoChannels
    Config = {c1, c2}
    Allowed <- AllAllowed
    Target <- OwnRoute
    PageSize = 1
    MaxPages = 2
    Batch = 1
    MaxAttempts = 1
    MaxSeen = 1
    MaxSessions = 2
    MaxLosses = 1
    MaxStops = 1
SYMMETRY Symmetry
INVARIANTS
    CheckpointsCoverOnlyStored
    ReadyMissesNothing
    StoredOnce
    OneRoute
    ReceiptsTellTruth
CHECK_DEADLOCK FALSE
