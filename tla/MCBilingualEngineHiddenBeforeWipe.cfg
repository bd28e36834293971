CONSTANTS
    Callers = {c1}
    WorkerThread = w
    q1 = q1
    q2 = q2
    Queriers = {q1}
    RetainedStates = 2
    CacheLimit = 1
    MaxEpoch = 3
    None = None
SPECIFICATION EngineSpec
INVARIANT HiddenBeforeWipe
