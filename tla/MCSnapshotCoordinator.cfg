CONSTANTS
    c1 = c1
    c2 = c2
    Callers <- TwoCallers
    WorkerThread = w
    RetainedStates = 2
    MaxEpoch = 4
    None = None
SPECIFICATION FairSpec
CHECK_DEADLOCK FALSE
INVARIANTS
    TypeOK
    NoHiddenStateVisible
    
    PendingHasWorker
    LatestIsNewest
PROPERTIES
    ImplementsStore
    RequestResolved
    InvalidationReturns
