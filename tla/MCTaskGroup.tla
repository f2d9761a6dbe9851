---------------------------- MODULE MCTaskGroup ----------------------------
(* Instances of TaskGroup for TLC. *)
EXTENDS TaskGroup

CONSTANTS slow, fast, c1, c2

\* slow is BG_LOW, fast is UI_TOP: with one pool thread the second submitted
\* overtakes only while both are queued.
MCRank == [t \in Tasks |-> IF t = slow THEN 6 ELSE 0]
=============================================================================
