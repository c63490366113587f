SPECIFICATION LSpec
CONSTANTS
    k0 = k0
    k1 = k1
    q1 = q1
    q2 = q2
    Binding = {b1}
    Managed = {}
    Endpoint = {e1, e2}
    Key <- Keys
    Sent = {k0, k1}
    MaxRows = 3
    MaxAttempts = 2
    MaxReplays = 1
    None = None
    Request = {q1, q2}
    MaxUpdates = 2
    MaxNotices = 3
    Batch = 2
SYMMETRY Symmetry
INVARIANTS
    NoBlindReplay
    LookedForWhereSent
    OpenRequestsCanEnd
    ToldInOrder
PROPERTY KeepsItsPromise
CONSTRAINT Scope
CHECK_DEADLOCK FALSE
