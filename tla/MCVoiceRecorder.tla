-------------------------- MODULE MCVoiceRecorder --------------------------
\* Instances of VoiceRecorder: the configurations choose the numbers.
EXTENDS VoiceRecorder
=============================================================================
