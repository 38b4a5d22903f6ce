\* A file, one that breaks the schema, a two-part delivery that holds a duplicate, a fragment; one pass, one stage task.
SPECIFICATION DiscoveryFairSpec
CONSTANTS
  Object <- Delivery
  Fragment <- Strays
  None = None
  Scan = {s1}
  Worker = {w1}
  MaxUnits = 1
  MaxFaults = 1
INVARIANTS
  DiscoveryTypeOK
  DuplicatesPointAtOriginal
  AssignmentDescribesRun
  HistoryNeverRepeats
PROPERTY
  EventuallyIngested
