CONSTANTS
    Letters <- MCLetters
    Entries <- MCEntries
    MaxKeys = 5
    PageSize = 2
    ShortLimit = 4
    MaxTokens = 4
    MaxText = 4
    MaxPending = 1
SPECIFICATION WalkSpec
INVARIANTS MatchesAreBest LexicalTailOffered WalkLosesNothing
PROPERTY YieldsInTurn
