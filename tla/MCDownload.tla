----------------------------- MODULE MCDownload -----------------------------
(* Instances of Download for TLC. *)
EXTENDS Download

CONSTANTS first, second, other, here, there

\* Two downloads to one path, one to another.
MCPath == [t \in Tasks |-> IF t = other THEN there ELSE here]

\* The new version is shorter.  Each of its blocks has the bytes of the second
\* block of the old one, so a resumed file can mix the two.
MCBytes == <<<<"a", "b", "c">>, <<"b", "b">>>>
=============================================================================
