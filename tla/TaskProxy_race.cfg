CONSTANTS
    slow = slow
    c1 = c1
    c2 = c2
    Tasks = {slow}
    CancelFast = {}
    Throwers = {slow}
    Cancellers = {c1, c2}
    PoolSize = 1
    Rank <- MCRank
    MaxUpdates = 1
SPECIFICATION Spec
INVARIANTS TypeOK ExclusiveOutcome
PROPERTIES NothingAfterFinished CancelBeatsSuccess ImplementsCallbacks
CHECK_DEADLOCK FALSE
