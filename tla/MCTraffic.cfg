SPECIFICATION Spec
CONSTANTS
  h1 = h1
  Requests = {r1, r2}
  Senders = {s1, s2}
  Hosts = {h1}
  hostOf <- MCHostOf
  burst = 2
  Grain = 2
  idleExpiry = 4
  MaxDay = 1
  NoDay = NoDay
  NoBucket = NoBucket
INVARIANT TypeOK VisitorsCounted
PROPERTY ImplementsTokenBucket
CHECK_DEADLOCK FALSE
