\* Two findings, three jobs of one stream, one operator, one failed transaction.
CONSTANTS
  warning = warning
  critical = critical
  u1 = u1
  u2 = u2
  Keys = {k1, k2}
  Contents = {warning, critical}
  Severity <- MCSeverity
  LastJob = 3
  Users = {u1, u2}
  MinimumSeverity <- MCMinimumSeverity
  IncludeResolved <- MCIncludeResolved
  Operators = {o1}
  MaxRollBacks = 1
  NoContent = NoContent
  NoAlert = NoAlert
  NoKey = NoKey
SYMMETRY MCSymmetry
SPECIFICATION Spec
CHECK_DEADLOCK FALSE
INVARIANTS
  TypeOK
  AlertsFollowCursor
PROPERTIES
  ChangesAnnounced
  AppliedAtOnce
