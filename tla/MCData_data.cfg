\* Four days, and one call of the owner's or one kill; the calculations stop at once.
SPECIFICATION DataSpec
CONSTANTS
    refresher = refresher
    session = session
    ana = ana
    cassidy = cassidy
    season = season
    rates = rates
    Articles = {ana, cassidy}
    SeasonPages = {season}
    RatesPages = {rates}
    Flaky = {cassidy, rates}
    Jobs <- OnePull
    Gaps <- NoneOrAll
    FullDays = 1
    Attempts = 2
    MaxDay = 4
    MaxUpsets = 1
    TopAnswers = 1
    NoMap = NoMap
    NoName = NoName
    Itself = Itself
INVARIANTS FreshOrNamed FetchedOnce StayYoung FactsSound ValidationSound
PROPERTIES SnapshotReal
CHECK_DEADLOCK FALSE
