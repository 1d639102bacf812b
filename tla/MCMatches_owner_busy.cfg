SPECIFICATION Spec
CONSTANTS
    g1 = g1
    g2 = g2
    g3 = g3
    h1 = h1
    h2 = h2
    Games = {g1, g3}
    Heroes = {h1, h2}
    Spellings = {a, b}
    HeroOf <- MCHeroOf
    Gone = Gone
    Rebuilders = {r1}
    OwnerWaits = FALSE
    OneAtATime = TRUE
    FailPoints <- NoPoints
    MaxId = 3
    MaxRebuilds = 1
    MaxFailures = 0
    MaxChanges = 0
INVARIANTS
    NothingLost
