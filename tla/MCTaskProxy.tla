---------------------------- MODULE MCTaskProxy ----------------------------
(* Instances of TaskProxy for TLC. *)
EXTENDS TaskProxy

CONSTANTS slow, c1, c2

\* One priority is enough for one task.
MCRank == [t \in Tasks |-> 6]
=============================================================================
