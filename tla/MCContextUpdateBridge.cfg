CONSTANTS
    Sources = {s1}
    RecoveryAttempts = 2
    MaxSequence = 2
    MaxIncarnation = 2
    MaxOther = 1
    None = None
SPECIFICATION FairSpec
CHECK_DEADLOCK FALSE
INVARIANTS
    AcceptedNamesItsText
    NothingPublishedSinceReset
    
    CleanupGoesFirst
PROPERTIES
    WorkSettles
    StopTerminates
