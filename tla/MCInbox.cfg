\* One managed route, three rows, two attempts, two process deaths.
CONSTANTS
    b1 = b1
    k3 = k3
    k1 = k1
    k2 = k2
    b2 = b2
    None = None
    Binding = {b1}
    Managed = {b1}
    EventId = {k1, k2, k3}
    MaxRows = 3
    MaxAttempts = 2
    MaxJobs = 2
    MaxCrashes = 2
SPECIFICATION Spec
SYMMETRY Symmetry
INVARIANTS
    AtMostOnce
    FirstInFirstOut
    NothingTakenIsGivenUp
    JobOwnsItsRow
PROPERTIES
    HeldUntilEvidence
    KeepsItsPromise
