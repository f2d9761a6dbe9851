CONSTANTS
    Keys = {k}
    Clients = {c1, c2}
    Gc = Gc
    Trim = Trim
    Old = Old
    None = None
SPECIFICATION FairSpec
INVARIANT TypeOK
INVARIANT CompleteOnly
PROPERTY OpenFilesStay
PROPERTY LocksReturn
