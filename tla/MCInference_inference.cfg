\* The parts stop at their bounds, each by itself.
SPECIFICATION InferenceSpec
CONSTANTS
    tune1 = tune1
    add1 = add1
    Ids = {1, 2}
    Calls = {tune1, add1}
    Target <- Aimed
    Adds = {add1}
    Shipped <- OneShipped
    MaxDrops = 1
    MaxCrashes = 1
    Heroes <- Roster9
    RoleOf <- Role9
    Released <- Playable
    TeamSize = 4
    MaxTanks = 2
    AllowedShapes <- TwoForms
    Rules <- Terms
    Weight <- Factors
    Minimize <- None
    Needs <- Guarded
    Boards <- Asked
    Raw <- RawOf
    Base <- Off
    Tiebreak <- WinMean
    Refused <- Limited
    Prior <- Ranking
    Locked <- Locks
    Banned <- Bans
    Synergies <- Partnered
    Samples <- Drawn
    Slices = 2
    PoolSize = 2
    ScalePool = 2
    Seeds = 2
    ShapeReach = 60
    PairTries = 2
    Restarts = 1
    Unit = 60
    NoReading = NoReading
    Headers <- MCHeaders
    Tunings <- MCTunings
    Metrics <- Known
    BoardKeys <- OnBoard
    MaxEdits = 2
    MaxDepth = 2
INVARIANTS
    TypeOK
    WrittenFirst
    LoggedWhenTold
    KnownLegal
    SplitFree
    LocalOptimum
    ExpressionsSound
    ScoresSound
PROPERTIES
    Settles
    BrokenGoes
    SearchComes
    TidyTurns
CHECK_DEADLOCK FALSE
