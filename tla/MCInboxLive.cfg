\* Two routes with one row each: one may be held while the other goes on.
CONSTANTS
    b1 = b1
    b2 = b2
    k1 = k1
    k2 = k2
    k3 = k3
    None = None
    Binding = {b1, b2}
    Managed = {}
    EventId = {k1}
    MaxRows = 2
    MaxAttempts = 1
    MaxJobs = 1
    MaxCrashes = 1
SPECIFICATION LiveSpec
PROPERTIES
    HeadIsSubmitted
    EvidenceSettles
