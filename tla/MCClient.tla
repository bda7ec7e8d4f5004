------------------------------ MODULE MCClient ------------------------------
(* SpeechlyClient with the two threads of the plugin that call it.         *)
EXTENDS SpeechlyClient
=============================================================================
