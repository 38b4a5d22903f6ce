\* Two runs, two attempt slots that Airflow keeps refilling, two faults of any kind.
SPECIFICATION StageFairSpec
CONSTANTS
  Run = {1, 2}
  Pod = {p1, p2}
  NoPod = NoPod
  MaxFaults = 2
  HeartbeatsFail = TRUE
INVARIANTS
  StageTypeOK
  StagedHasBronze
  LeaseExclusion
  SuccessMeansStaged
PROPERTY
  ReleaseNeverStomps
  EventuallyStaged
