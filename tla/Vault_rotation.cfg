\* Two processes, restarted one by one with a new key; two certificates, one per batch.
CONSTANTS
  Processes = {p1, p2}
  Requests = {r1, r2}
  Certificates = {c1, c2}
  Secrets = {s1, s2}
  BatchSize = 1
  LastVersion = 2
  MaxCrashes = 1
  NoSecret = NoSecret
  NoProcess = NoProcess
SYMMETRY MCSymmetry
SPECIFICATION Spec
CHECK_DEADLOCK FALSE
INVARIANTS
  TypeOK
  EverySecretOpens
  DrainedForGood
PROPERTIES
  ConfigurationSurvives
