CONSTANTS
    t1 = t1
    t2 = t2
    t3 = t3
    p1 = p1
    p2 = p2
    None = None
    Procs = {p1, p2}
    Clients = {t1, t2, t3}
    Home <- MCHome
    Inodes = {i1, i2, i3}
    SharedTable = FALSE
SPECIFICATION Spec
INVARIANTS TypeOK InProcessExclusion MapExact NoLeakedLock
SYMMETRY Symmetry
