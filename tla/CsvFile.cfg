\* Files of up to six lines in reads of four units, a sample of fourteen, two records a chunk.
SPECIFICATION CsvSpec
CONSTANTS
  None = None
  Works <- AllWorks
  Numeric <- Figures
  CaseFold <- Folds
  Trim <- Strips
  Marked = "BOMid"
  Joined = "joined"
  Long <- Huge
  Impossible <- NoDay
  Sample = 14
  Ceiling = 24
  GuardChunk = 4
  ChunkSize = 2
  MaxParts = 3
  MaxSyncs = 1
INVARIANTS
  ReadAsWritten
  ColumnsAligned
  RowsDelivered
  BombBounded
  FacetsRead
CHECK_DEADLOCK FALSE
