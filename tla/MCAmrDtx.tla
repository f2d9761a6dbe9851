------------------------------ MODULE MCAmrDtx ------------------------------
(* Small instances of AmrDtx for TLC, beside the tables of AmrFrame.         *)
EXTENDS AmrDtx, AmrFrame, AmrTables

\* Whatever a radio receiver may make of a frame it could not read.
AllDamage == RXFrameType \ {"RX_SPEECH_GOOD", "RX_SID_FIRST", "RX_SID_UPDATE"}

\* What a SID with index 0 gives.
Lowest == {-LevelLimit}

=============================================================================
