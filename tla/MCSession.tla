----------------------------- MODULE MCSession -----------------------------
(* Instances of Speechly for TLC; the constants are in the configurations. *)
EXTENDS Speechly
=============================================================================
