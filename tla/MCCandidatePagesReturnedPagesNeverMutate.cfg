CONSTANTS
    r1 = r1
    r2 = r2
    i1 = i1
    i2 = i2
    Requests = {r1, r2}
    Identities = {i1}
    Lexical <- OneLexical
    Candidates = {1, 2}
    PageSize = 1
    Capacity = 2
    MaxTokens = 1
    MaxSets = 1
    None = None
SPECIFICATION Spec
SYMMETRY Symmetry
CHECK_DEADLOCK FALSE
INVARIANT
    ReturnedPagesNeverMutate
