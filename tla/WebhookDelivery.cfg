SPECIFICATION FairWebSpec
CONSTANTS
  r1 = r1
  e1 = e1
  e2 = e2
  Registrations = {r1}
  Events = {e1, e2}
  MAX_ATTEMPTS = 3
  CONCURRENCY = 1
  REQUEST_TIMEOUT = 1
  LEASE = 3
  MaxHandshakes = 2
  MaxCrashes = 2
INVARIANTS
  DeliveryTypeOK
  OneSender
  RequestsBounded
PROPERTIES
  AcceptedIsNotResent
  EventuallySettled
CHECK_DEADLOCK FALSE
