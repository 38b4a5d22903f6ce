\* One publish pass is rolled back, at any point of its transaction.
SPECIFICATION FairSpec
CONSTANTS
  Run = {1}
  Pod = {p1}
  NoPod = NoPod
  MaxFaults = 0
  HeartbeatsFail = FALSE
  Pass = {q1}
  NoPass = NoPass
  Strategy = "scd"
  MaxAborts = 1
PROPERTY
  StagedIsSettled
