\* An acknowledgement races the reconciliation that resolves its alert.
CONSTANTS
  warning = warning
  critical = critical
  u1 = u1
  u2 = u2
  Keys = {k1}
  Contents = {warning, critical}
  Severity <- MCSeverity
  LastJob = 2
  Users = {u1, u2}
  MinimumSeverity <- MCMinimumSeverity
  IncludeResolved <- MCIncludeResolved
  Operators = {o1}
  MaxRollBacks = 0
  NoContent = NoContent
  NoAlert = NoAlert
  NoKey = NoKey
SPECIFICATION Spec
CHECK_DEADLOCK FALSE
PROPERTIES
  ResolvedIsFinalForOperators
