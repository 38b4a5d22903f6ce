\* Two objects of one content; a rebuild, a pass and a fault.
SPECIFICATION Spec
CONSTANTS
  Object = {1, 2}
  ContentOf <- MCContentOf
  DatasetOf <- MCDatasetOf
  Datasets <- MCDatasets
  RawDays = 1
  MetadataDays = 1
  Deployments <- MCDeployments
  Drained = TRUE
  MaxDay = 2
  MaxRebuilds = 1
  MaxPasses = 1
  MaxFaults = 1
CHECK_DEADLOCK FALSE
INVARIANT
  LineageKept
PROPERTIES
  RetentionSpares
  RebuildRestores
