\* The parts stop at their bounds, each by itself.
SPECIFICATION LiveSpec
CONSTANTS
    g1 = g1
    g2 = g2
    g3 = g3
    h1 = h1
    h2 = h2
    Games = {g1, g2}
    Heroes = {h1}
    Spellings = {a}
    HeroOf <- MCHeroOf
    Gone = Gone
    Rebuilders = {r1, r2}
    OwnerWaits = FALSE
    OneAtATime = FALSE
    FailPoints <- NoPoints
    MaxId = 2
    MaxRebuilds = 2
    MaxFailures = 0
    MaxChanges = 0
    FirstFiles = 3
    MaxFiles = 4
    HeroesAt = 1
    LedgerAt = 2
    Alters <- MCAlters
    Again = {4}
    RosterNeeds = {1}
    PullsNeed = {1, 3}
    Owners = {o}
    OneWriter = TRUE
    MaxFaults = 2
    MaxAsked = 2
    Drafts = {d1, d2}
    Played = {d1}
    Weights = {w1, w2}
    NoDraft = NoDraft
    NoWeight = NoWeight
    MaxClicks = 1
    MaxAsks = 4
    MaxFailed = 1
    Nil = Nil
INVARIANTS
    ReadyIsWhole
    VerdictSound
PROPERTIES
    RebuildEnds
    DataComes
    PageComes
CHECK_DEADLOCK FALSE
