SPECIFICATION FairSpec
CONSTANTS
    MaxOutages = 3
    MaxErrors = 3
INVARIANTS
    OpenIsWatched
    TriesCounted
PROPERTY Recovers
