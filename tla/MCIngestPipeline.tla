-------------------------- MODULE MCIngestPipeline --------------------------
(* Instances of IngestPipeline for TLC.                                       *)
EXTENDS IngestPipeline, TLC

SlotSymmetry == Permutations(Pod) \cup Permutations(Pass)
=============================================================================
