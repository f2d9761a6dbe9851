SPECIFICATION FairSpec
CONSTANTS
    a = a
    b = b
    none = none
    Items = {a}
    MaxPlays = 1
    MaxQueue = 2
PROPERTIES CallResumes
CHECK_DEADLOCK FALSE
