\* One kill, and nobody but the refresher.
SPECIFICATION Spec
CONSTANTS
    refresher = refresher
    session = session
    ana = ana
    cassidy = cassidy
    season = season
    rates = rates
    Articles = {ana, cassidy}
    SeasonPages = {season}
    RatesPages = {rates}
    Flaky = {cassidy, rates}
    Jobs = {}
    Gaps <- NoneOrAll
    FullDays = 1
    Attempts = 2
    MaxDay = 4
    MaxUpsets = 1
PROPERTIES NeverEmptied
CHECK_DEADLOCK FALSE
