\* Three runs, two a DagRun; a pod fault, a publish attempt dies, one publish pod is lost, no DagRun times out.
SPECIFICATION DagSpec
CONSTANTS
  Run = {1, 2, 3}
  Pod = {p1}
  NoPod = NoPod
  MaxFaults = 1
  HeartbeatsFail = FALSE
  Pass = {q1, q2}
  NoPass = NoPass
  Strategy = "merge_orders"
  MaxAborts = 1
  DagRun = {d1}
  MaxUnits = 2
  TimesOut = FALSE
  MaxTaskFailures = 0
  MaxLost = 1
SYMMETRY DagSymmetry
INVARIANTS
  DagTypeOK
  FoldedBeforePublish
  SucceededInGold
  FinalizedByOnePass
