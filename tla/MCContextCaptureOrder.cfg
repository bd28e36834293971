CONSTANTS
    e1 = e1
    e2 = e2
    Editors <- TwoEditors
    MaxCapability = 2
    MaxRevision = 1
    MaxConnections = 2
    None = None
SPECIFICATION Spec
SYMMETRY Symmetry
CHECK_DEADLOCK FALSE
INVARIANT BridgeHasCurrentSource
