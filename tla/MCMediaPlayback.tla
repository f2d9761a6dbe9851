-------------------------- MODULE MCMediaPlayback --------------------------
(* Instances of MediaPlayback for TLC.                                       *)
EXTENDS MediaPlayback

CONSTANTS a, b
=============================================================================
