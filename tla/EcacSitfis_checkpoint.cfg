\* Three processors, two rotations, four claims, three protocols.
CONSTANTS
  Processors = {p1, p2, p3}
  Rotators = {r1, r2}
  Keys = {v1, v2}
  SealKey <- MCSealKey
  TargetKey = v2
  FormerKey = v1
  MaxClaims = 4
  MaxProtocols = 3
  NoKey = NoKey
  NoSeal = NoSeal
  NoCheckpoint = NoCheckpoint
SYMMETRY MCSymmetry
SPECIFICATION Spec
CHECK_DEADLOCK FALSE
INVARIANTS
  TypeOK
  ProtocolMatchesHash
  CompletedMeansSucceeded
PROPERTIES
  CompletedTogether
