CONSTANTS
    s1 = s1
    s2 = s2
    Scorers <- TwoScorers
    Texts <- EditorTexts
    Batches <- TwoBranches
    bos = bos
    Tokens <- Vocabulary
    Fallback = bos
    MaxBeforeTokens = 3
    NCtx = 3
    MaxGeneration = 1
    None = None
SPECIFICATION Spec
SYMMETRY Symmetry
CHECK_DEADLOCK FALSE
INVARIANTS
    CacheDescribesSequence
    BranchesOfOneRoot
    RefreshPreempts
    NoLostWakeup
