\* Two runs under two overlapping builds and a publish pass, one of which rolls back.
SPECIFICATION MergeFairSpec
CONSTANTS
  Run = {1, 2}
  Line <- Lines
  Survivors <- Files
  Build = {b1, b2}
  Pass = {q1}
  MaxAppends = 1
  MaxAborts = 1
INVARIANTS
  IncrementalEqualsFull
  AuditNeverOvercounts
  ClaimedOnce
  OneClaimant
  GoldFollowsSilver
PROPERTIES
  EventuallyProcessed
  DeliveredInGold
