SPECIFICATION FairSpec
CONSTANTS
    Others = {a, b}
    RetiringLimit = 1
    MaxTurns = 5
    MaxDetections = 2
INVARIANTS
    NothingOfferedWhileBusy
    BarIsLive
    PaletteOfLastTurn
PROPERTIES
    TriggerEnds
