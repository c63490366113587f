\* One request on one route with room for two more events.
CONSTANTS
    b1 = b1
    k0 = k0
    k1 = k1
    k2 = k2
    r1 = r1
    r2 = r2
    None = None
    Binding = {b1}
    Managed = {}
    EventId = {k0, k1, k2}
    MaxRows = 3
    MaxAttempts = 1
    MaxJobs = 1
    MaxCrashes = 0
    Request = {r1}
    KeyOf <- Keys
    MaxNotices = 2
    Batch = 2
SPECIFICATION AcceptedSpec
INVARIANTS
    LedgerIsAnnounced
    NoticeTellsTruth
    RevisionsInOrder
