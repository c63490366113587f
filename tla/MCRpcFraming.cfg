\* What the comment in RequestGuard::drop says of the next caller.
CONSTANTS
    c1 = c1
    c2 = c2
    c3 = c3
    c4 = c4
    e1 = e1
    e2 = e2
    None = None
    Call = {c1, c2}
    Endpoint = {e1}
    EndpointOf <- Targets
    Cancellable = {c1}
    MaxSessions = 1
SPECIFICATION Spec
\* A finite number of calls: in the end all have returned.
CHECK_DEADLOCK FALSE
INVARIANTS
    NoSendOnUnknownFraming
