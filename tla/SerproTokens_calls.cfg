\* Two calls of one process; the connection changes once.
CONSTANTS
  Calls = {q1, q2}
  Secrets = {s1, s2}
  MaxChanges = 1
  MaxTokens = 4
SPECIFICATION FairSpec
CHECK_DEADLOCK FALSE
INVARIANTS
  TypeOK
  TokensMatchMaterial
  RenewalIsNewer
  AuthenticationsAccounted
PROPERTIES
  EveryCallEnds
