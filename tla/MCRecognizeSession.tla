------------------------ MODULE MCRecognizeSession ------------------------
(* Instances of RecognizeSession for TLC. *)
EXTENDS RecognizeSession, TLC

ModelSymmetry == Permutations(Models)
=============================================================================
