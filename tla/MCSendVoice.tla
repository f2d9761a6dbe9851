---------------------------- MODULE MCSendVoice ----------------------------
(* Instances of SendVoice for TLC.                                           *)
EXTENDS SendVoice

CONSTANTS a, x, y
=============================================================================
