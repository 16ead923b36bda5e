\* Two workers share an e-mail and an in-app event; a user interferes.
CONSTANTS
  mail = mail
  inApp = inApp
  Events = {mail, inApp}
  Channel <- MCChannel
  Workers = {w1, w2}
  Requests = {r1}
  ClaimLimit = 2
  MaxAttempts = 2
  MaxDisturbances = 1
  MaxRequests = 2
  NoEvent = NoEvent
SPECIFICATION FairSpec
CHECK_DEADLOCK FALSE
INVARIANTS
  TypeOK
  EndsAreEarned
  DeliveriesBounded
PROPERTIES
  EveryEventEnds
