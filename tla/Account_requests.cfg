\* Two requests at a time on an account that has just been registered.
CONSTANTS
  r1 = r1  r2 = r2  s1 = s1  s2 = s2  s3 = s3  s4 = s4  c1 = c1  c2 = c2  c3 = c3  t1 = t1  t2 = t2
  Requests = {r1, r2}
  Sessions = {s1, s2, s3, s4}
  Challenges = {c1, c2, c3}
  Resets = {t1, t2}
  MaxAttempts = 2
  MaxOperations = 7
  None = None
SYMMETRY MCSymmetry
SPECIFICATION Spec
CHECK_DEADLOCK FALSE
INVARIANTS
  TypeOK
  SingleUse
  SurvivorsOverlap
  CodesBelongToEnrolment
  TriesBounded
  DeadlocksAreKnown
PROPERTIES
  RevokedNeverExchanged
