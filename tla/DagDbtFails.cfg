\* dbt_build is out of retries once.
SPECIFICATION DagSpec
CONSTANTS
  Run = {1, 2}
  Pod = {p1}
  NoPod = NoPod
  MaxFaults = 0
  HeartbeatsFail = FALSE
  Pass = {q1}
  NoPass = NoPass
  Strategy = "merge_orders"
  MaxAborts = 0
  DagRun = {d1}
  MaxUnits = 2
  TimesOut = FALSE
  MaxTaskFailures = 1
  MaxLost = 0
SYMMETRY DagSymmetry
INVARIANTS
  FoldedBeforePublish
