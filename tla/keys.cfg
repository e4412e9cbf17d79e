SPECIFICATION FairSpec
CONSTANTS
    Visitors = {v1}
    Workers = {w1, w2}
    Cleaner = Cleaner
    Nobody = Nobody
    MaxIdle = 0
    MaxTime = 2
    MaxCrashes = 2
    MaxFailures = 1
INVARIANTS
    OneMutator
    ConfirmedSurvives
PROPERTIES
    WritesEnd
    IdleKeysGo
