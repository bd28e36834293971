CONSTANTS
    Raw <- MCRaw
    Entries <- MCEntries
    Matches <- MCMatches
    MaxTokens = 4
    MaxText = 4
    Slice = 1
    Batch = 2
    PageSize = 2
    Capacity = 4
SPECIFICATION FairSpec
 
PROPERTIES ShortBeforeLong 
CHECK_DEADLOCK FALSE
