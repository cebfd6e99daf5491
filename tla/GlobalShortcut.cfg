SPECIFICATION FairSpec
CONSTANTS
    MaxStarts = 3
    MaxMishaps = 2
    MaxKeys = 3
INVARIANTS
    HeldAsShown
    NothingLeftBehind
PROPERTIES
    StartsSettle
CHECK_DEADLOCK FALSE
