\* Two processors share one batch of two jobs; crashes, take-overs and failed transactions.
CONSTANTS
  j1 = j1
  j2 = j2
  b1 = b1
  Jobs = {j1, j2}
  Batches = {b1}
  BatchOf <- MCBatchOf
  Processors = {p1, p2}
  Reach <- MCReach
  ClaimLimit = 2
  MaxAttempts = 2
  MaxDisturbances = 2
  NoJob = NoJob
SPECIFICATION FairSpec
CHECK_DEADLOCK FALSE
INVARIANTS
  TypeOK
  WriterOwnsLease
  AttemptLedger
  ClaimsBounded
  BatchVerdictSound
PROPERTIES
  PromiseKept
  EveryJobSettles
