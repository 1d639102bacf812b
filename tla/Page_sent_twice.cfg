SPECIFICATION PageSpec
CONSTANTS
    Drafts = {d1, d2}
    Played = {d1}
    Weights = {w1, w2}
    NoDraft = NoDraft
    NoWeight = NoWeight
    MaxClicks = 2
    MaxAsks = 3
    MaxFailed = 1
INVARIANT
    SentOnce
CHECK_DEADLOCK FALSE
