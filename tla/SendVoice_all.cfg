SPECIFICATION FairSpec
CONSTANTS
    a = a
    x = x
    y = y
    none = none
    Items = {a}
    Effects = {x}
    MaxRecords = 1
    MaxPlays = 2
    MaxSends = 2
    MaxWork = 3
    MaxScreens = 2
INVARIANTS TypeOK MarkHasThread AloneIsRight
PROPERTIES SendEnds
CHECK_DEADLOCK FALSE
