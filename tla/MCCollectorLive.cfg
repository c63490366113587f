\* One debounced watch under fairness.
CONSTANTS
    w1 = w1
    w2 = w2
    A = A
    B = B
    Bad = Bad
    d0 = d0
    d1 = d1
    None = None
    MaxWorkers = 1
    QueueCapacity = 1
    Observes <- Results
    Watch = {w1}
    ListOrder <- OneWatch
    Dir = {d1}
    Refusable = {d1}
    DirOf <- OneReally
    Target <- OneReally
    Content = {A, B}
    Debounced = {w1}
    MaxChanges <- TwoChanges
    MaxEpoch <- TwoEpochs
    MaxCrashes = 1
SPECIFICATION FairSpec
PROPERTIES
    LastingChangeIsReported
