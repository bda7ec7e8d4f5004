---------------------------- MODULE MCResponses ----------------------------
(* Instances of SpeechlyResponses for TLC.  The members of a set of model  *)
(* values are interchangeable: no definition tells them apart.             *)
EXTENDS SpeechlyResponses, TLC
Symmetry == Permutations(Contexts) \union Permutations(Segments)
=============================================================================
