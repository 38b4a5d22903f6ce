---------------------------- MODULE MCIngestDag ----------------------------
(* Instances of IngestDag for TLC.                                           *)
EXTENDS IngestDag, TLC

DagSymmetry == Permutations(Pod) \cup Permutations(Pass) \cup Permutations(DagRun)
=============================================================================
