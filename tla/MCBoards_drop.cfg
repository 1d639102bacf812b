SPECIFICATION Spec
CONSTANTS
    b1 = b1
    b2 = b2
    b3 = b3
    c1 = c1
    c2 = c2
    Requests = {b1, b2, b3}
    Clients = {c1, c2}
    LaneOf <- TwoLanes
    Blue <- NoPicks
    Red <- NoPicks
    Countered = {}
    Hopeless = {}
    Pooled = {b1, b2, b3}
    Size = 2
    Slots = 2
    Strangers = FALSE
    MaxLive = 2
    MaxDeaths = 1
    MaxFaults = 1
    MaxLosses = 0
INVARIANTS
    NoneFails
CHECK_DEADLOCK FALSE
