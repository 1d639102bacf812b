SPECIFICATION FairSpec
CONSTANTS
    b1 = b1
    b2 = b2
    b3 = b3
    c1 = c1
    c2 = c2
    Requests = {b1, b2}
    Clients = {c1, c2}
    LaneOf <- OneLane
    Blue <- Shown
    Red <- Shown
    Countered = {}
    Hopeless = {b2}
    Pooled = {b1, b2}
    Size = 2
    Slots = 1
    Strangers = TRUE
    MaxLive = 2
    MaxDeaths = 1
    MaxFaults = 1
    MaxLosses = 1
INVARIANTS
    NothingQueuedBehind StopsSoon
PROPERTIES
    WholePassRead
    ImplementsService
CHECK_DEADLOCK FALSE
