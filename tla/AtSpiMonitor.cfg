SPECIFICATION FairSpec
CONSTANTS
    MaxRuns = 3
    MaxEvents = 3
INVARIANTS
    LatestOfThisRun
    ListensAsShown
PROPERTIES
    EventAnswered
CHECK_DEADLOCK FALSE
