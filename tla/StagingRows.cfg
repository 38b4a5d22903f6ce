\* Files of up to three rows in chunks of two, under every rule set; two-row files for the normalizers.
SPECIFICATION RowsSpec
CONSTANTS
  Absent = Absent
  Unparsed = Unparsed
  NaN = NaN
  Infinity = Infinity
  Places = 2
  Strptime <- Read
  Pivot = 29
  Offset <- Zone
  FoldPolicy = "latest"
  Jobs <- AllJobs
  NullTokens <- Nulls
  Nfc <- NfcForm
  Matching <- Keys
  Minimum = 0
  Maximum = 5000
  IntText <- Ints
  Known <- Ones
  ChunkSize = 2
  Threshold = 50
  MaxRows = 3
INVARIANTS
  RowsAccounted
  BronzeIsClean
  LossBounded
CHECK_DEADLOCK FALSE
