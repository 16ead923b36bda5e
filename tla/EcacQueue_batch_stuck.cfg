\* Two processors settle the two jobs of one batch, nothing fails.
CONSTANTS
  j1 = j1
  j2 = j2
  b1 = b1
  Jobs = {j1, j2}
  Batches = {b1}
  BatchOf <- MCBatchOf
  Processors = {p1, p2}
  Reach <- MCReach
  ClaimLimit = 2
  MaxAttempts = 2
  MaxDisturbances = 0
  NoJob = NoJob
SPECIFICATION Spec
CHECK_DEADLOCK FALSE
INVARIANTS
  SettledBatchIsClosed
