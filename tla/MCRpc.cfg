\* Three calls share an endpoint, a fourth needs the only place in the pool.
CONSTANTS
    c1 = c1
    c2 = c2
    c3 = c3
    c4 = c4
    e1 = e1
    e2 = e2
    None = None
    Call = {c1, c2, c3, c4}
    Endpoint = {e1, e2}
    EndpointOf <- Targets
    Cancellable = {c1, c2}
    MaxSessions = 1
SPECIFICATION LiveSpec
\* A finite number of calls: in the end all have returned.
CHECK_DEADLOCK FALSE
INVARIANTS
    AnswerIsOwn
    PoolWithinCapacity
    NobodyElseCloses
PROPERTIES
    KeepsItsContract
    CallsReturn
