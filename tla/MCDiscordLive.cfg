SPECIFICATION LiveSpec
CONSTANTS
    Message <- MCMessage
    Channel <- TwoChannels
    Config = {"first", "second"}
    Allowed <- OneRejected
    Target <- OwnRoute
    PageSize = 1
    MaxPages = 1
    Batch = 1
    MaxAttempts = 1
    MaxSeen = 1
    MaxSessions = 2
    MaxLosses = 0
    MaxStops = 1
PROPERTIES
    EveryMessageIsStored
    EveryMessageIsOffered
    EveryReceiptIsShown
CHECK_DEADLOCK FALSE
