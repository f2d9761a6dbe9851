SPECIFICATION Spec
CONSTANTS
    a = a
    b = b
    none = none
    Items = {a, b}
    MaxPlays = 4
    MaxQueue = 2
INVARIANTS TypeOK ShownIsCurrent ResourcesFollow
CHECK_DEADLOCK FALSE
