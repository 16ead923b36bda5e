\* One rotation during a poll for the report.
CONSTANTS
  Processors = {p1, p2}
  Rotators = {r1}
  Keys = {v1, v2}
  SealKey <- MCSealKey
  TargetKey = v2
  FormerKey = v1
  MaxClaims = 2
  MaxProtocols = 2
  NoKey = NoKey
  NoSeal = NoSeal
  NoCheckpoint = NoCheckpoint
SYMMETRY MCSymmetry
SPECIFICATION Spec
CHECK_DEADLOCK FALSE
PROPERTIES
  RotationHolds
