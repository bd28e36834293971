SPECIFICATION Spec
CONSTANTS
    A = A
    B = B
    C = C
    q1 = q1
    Baseline = Baseline
    None = None
    Sources = {A, B, C}
    Queries = {q1}
    MaxRevision = 2
    MaxClientEpoch = 1
    MaxBindings = 2
    RetainedStates = 2
    MaxEpoch = 4
    MaxSets = 1
SYMMETRY Symmetry
INVARIANTS
    PageCrossesNoBoundary
    PageOfItsIdentity
    RevisionsGrow
CHECK_DEADLOCK FALSE
