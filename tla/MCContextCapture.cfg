CONSTANTS
    e1 = e1
    e2 = e2
    Editors <- OneEditor
    MaxCapability = 2
    MaxRevision = 2
    MaxConnections = 2
    None = None
SPECIFICATION Spec
CHECK_DEADLOCK FALSE
INVARIANTS
    PredictionProvenByNewest
    FramesInOrder
    NothingAfterClear
