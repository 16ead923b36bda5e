\* Two requests at a time on one company with two powers of attorney.
CONSTANTS
  q1 = q1  q2 = q2  r1 = r1  p1 = p1  p2 = p2  c1 = c1  company = company
  Calls = {q1, q2}
  Companies = {company}
  Responsibles = {r1}
  Powers = {p1, p2}
  Certificates = {c1}
  NoCertificate = NoCertificate
  CompanyOf <- MCCompanyOf
  Scope <- MCScope
  Window <- MCWindow
  Periods <- MCPeriods
  RequestKeys = {k1}
  Thresholds = {1, 3}
  Day = 2
  LastTick = 4
  MaxOperations = 5
SYMMETRY MCSymmetry
SPECIFICATION Spec
CHECK_DEADLOCK FALSE
INVARIANTS
  TypeOK
  SkewNeedsOverlap
  AlertsMatchCalendar
  OneBatchPerKey
  QueriedUnderLivingAuthority
