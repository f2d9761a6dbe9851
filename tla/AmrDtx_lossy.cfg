SPECIFICATION FairSpec
CONSTANTS
    HangConst = 3
    ElapsedThresh = 4
    EmptyThresh = 5
    SidRate = 4
    FirstUpdate = 3
    MaxCount = 8
    LevelLimit = 1
    Levels <- Lowest
    ResetLevel = 0
    MaxDebt = 1
    Damage <- AllDamage
    reorderBits <- Reorder
    bitno <- Widths
INVARIANTS TypeOK SidsOnTime
PROPERTIES HangoverAgreed MutedOnlyWhenStale Recovers
