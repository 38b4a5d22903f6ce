--------------------------- MODULE MCStageIngest ---------------------------
(* Instances of StageIngest for TLC.                                         *)
EXTENDS StageIngest, TLC

PodSymmetry == Permutations(Pod)
=============================================================================
