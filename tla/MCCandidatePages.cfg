CONSTANTS
    r1 = r1
    r2 = r2
    i1 = i1
    i2 = i2
    Requests = {r1, r2}
    Identities = {i1, i2}
    Lexical <- TwoLexical
    Candidates = {1}
    PageSize = 1
    Capacity = 2
    MaxTokens = 2
    MaxSets = 1
    None = None
SPECIFICATION Spec
SYMMETRY Symmetry
CHECK_DEADLOCK FALSE
INVARIANTS
    
    ClearedStaysCleared

    
