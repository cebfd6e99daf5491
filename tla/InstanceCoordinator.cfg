SPECIFICATION FairSpec
CONSTANTS
    Processes = {p1, p2, p3}
    NoProcess = NoProcess
    MaxClients = 1
    EndpointStays = TRUE
INVARIANTS
    PrimaryReachable
    ForwardedExecutedOnce
PROPERTIES
    StartEnds
