----------------------------- MODULE MCRecorder -----------------------------
(* SpeechRecorder with devices below, at and above the output rate; rates  *)
(* are in units of 100 Hz.                                                 *)
EXTENDS SpeechRecorder

MCLevels == {-5, -4, 0, 3, 5}
=============================================================================
