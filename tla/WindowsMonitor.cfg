SPECIFICATION FairSpec
CONSTANTS
    Others = {a, b}
    RetiringLimit = 1
    MaxStarts = 2
    MaxInputs = 5
INVARIANTS
    LatestOfGesture
    SourceInForeground
    HelpersBounded
PROPERTIES
    GestureAnswered
CHECK_DEADLOCK FALSE
