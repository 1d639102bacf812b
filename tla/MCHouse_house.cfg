\* The parts stop at their bounds, each by itself.
SPECIFICATION HouseSpec
SYMMETRY Alike
CONSTANTS
    g1 = g1
    g2 = g2
    g3 = g3
    h1 = h1
    h2 = h2
    Games = {g1, g3}
    Heroes = {h1, h2}
    Spellings = {a, b}
    HeroOf <- MCHeroOf
    Gone = Gone
    Rebuilders = {r1}
    OwnerWaits = TRUE
    OneAtATime = TRUE
    FailPoints <- UntornPoints
    MaxId = 3
    MaxRebuilds = 3
    MaxFailures = 2
    MaxChanges = 2
    Tables = {t1, t2}
    Exporters = {x, y}
    Absent = Absent
    Torn = Torn
    MaxNow = 2
    MaxPosts = 4
    Callers = {c, d}
    Bodies <- MCBodies
    MaxBatch = 3
    RateLimit = 2
    RateWindow = 4
    MaxLag = 1
    MaxTracked = 1
    MaxClock = 4
    Logged = {l, m, n}
    Crashing = {l}
    Minute = 2
    Every = 1
    TailCells = 2
    MaxTime = 3
    Drafts = {d1, d2}
    Played = {d1}
    Weights = {w1, w2}
    NoDraft = NoDraft
    NoWeight = NoWeight
    MaxClicks = 3
    MaxAsks = 2
    MaxFailed = 1
INVARIANTS
    TypeOK
    NothingLost
    TableSound
    RateHeld
    RelayTellsWho
    LinesCounted
    ShownIsCurrent
    RecordedIsStored
PROPERTIES
    KeepsIds
    FileGoesLast
    LedgerClean
    MarkedWhole
    RecentExact
CHECK_DEADLOCK FALSE
