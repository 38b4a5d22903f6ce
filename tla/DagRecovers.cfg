\* Three runs, two a DagRun; one task given up on, one pod or DagRun lost; no publish attempt dies.
SPECIFICATION DagFairSpec
CONSTANTS
  Run = {1, 2, 3}
  Pod = {p1}
  NoPod = NoPod
  MaxFaults = 0
  HeartbeatsFail = FALSE
  Pass = {q1}
  NoPass = NoPass
  Strategy = "scd"
  MaxAborts = 0
  DagRun = {d1}
  MaxUnits = 2
  TimesOut = TRUE
  MaxTaskFailures = 1
  MaxLost = 1
PROPERTY
  EventuallySettled
