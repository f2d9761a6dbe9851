---------------------------- MODULE MCDiskCache ----------------------------
(* DiskCache with one key; the clients are interchangeable, but symmetry is *)
(* not sound with a liveness property.                                      *)
EXTENDS DiskCache
============================================================================
