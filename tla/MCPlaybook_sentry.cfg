\* What the sentry renames, while a call writes.
SPECIFICATION Spec
CONSTANTS
    tune1 = tune1
    add1 = add1
    Ids = {1, 2}
    Calls = {tune1, add1}
    Target <- Aimed
    Adds = {add1}
    Shipped <- OneShipped
    MaxDrops = 1
    MaxCrashes = 1
PROPERTY TakesOnlyBad
