\* Two runs, stage crashes and publish rollbacks, one publish pass at a time.
SPECIFICATION Spec
CONSTANTS
  Run = {1, 2}
  Pod = {p1}
  NoPod = NoPod
  MaxFaults = 1
  HeartbeatsFail = FALSE
  Pass = {q1}
  NoPass = NoPass
  Strategy = "scd"
  MaxAborts = 1
SYMMETRY SlotSymmetry
PROPERTY
  TerminalStays
  LifecycleImplemented
