--------------------------- MODULE MCProcessLock ---------------------------
\* Instances of ProcessLock: two clients of process p1 and one of process p2.
EXTENDS ProcessLock, TLC

CONSTANTS t1, t2, t3, p1, p2

MCHome == [x \in Clients |-> IF x = t3 THEN p2 ELSE p1]

Symmetry == Permutations(Inodes)
=============================================================================
