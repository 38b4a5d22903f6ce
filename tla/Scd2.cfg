\* Three snapshots and a replay, staged in any order, two overlapping passes.
SPECIFICATION Scd2Spec
CONSTANTS
  Run = {1, 2, 3, 4}
  FileOf <- Replayed
  Rows <- Snapshots
  Pass = {q1, q2}
  NoPass = NoPass
  DeleteSemantics = "invalidate"
  Threshold = 40
  MaxAborts = 1
SYMMETRY PassSymmetry
INVARIANTS
  ChainsSound
  CurrentIsRecompute
  SucceededKeysInGold
PROPERTY
  DeletionsBounded
