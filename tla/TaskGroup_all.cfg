CONSTANTS
    slow = slow
    fast = fast
    c1 = c1
    c2 = c2
    Tasks = {slow, fast}
    CancelFast = {}
    Throwers = {}
    Cancellers = {c1}
    PoolSize = 1
    Rank <- MCRank
    MaxUpdates = 0
SPECIFICATION GroupFairSpec
INVARIANTS AllFinishedSound
PROPERTIES AllFinishedOnce EventuallyFinished
CHECK_DEADLOCK FALSE
