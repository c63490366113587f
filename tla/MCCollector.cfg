\* One debounced watch with a condition, named through an alias of a directory.
CONSTANTS
    w1 = w1
    w2 = w2
    A = A
    B = B
    Bad = Bad
    d0 = d0
    d1 = d1
    None = None
    MaxWorkers = 1
    QueueCapacity = 1
    Observes <- Results
    Watch = {w1}
    ListOrder <- OneWatch
    Dir = {d0, d1}
    Refusable = {d0, d1}
    DirOf <- OneThroughAlias
    Target <- OneReally
    Content = {A, B, Bad}
    Debounced = {w1}
    MaxChanges <- ThreeChanges
    MaxEpoch <- TwoEpochs
    MaxCrashes = 1
SYMMETRY Contents
SPECIFICATION Spec
INVARIANTS
    EventsFormChain
    ChangeIsNoticed
PROPERTIES
    ReportedSinceResume
    DebouncedIsSeenTwice
