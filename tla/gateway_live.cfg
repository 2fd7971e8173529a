SPECIFICATION FairSpec
CONSTANTS
  d1 = d1
  d2 = d2
  c1 = c1
  c2 = c2
  m1 = m1
  m2 = m2
  k1 = k1
  k2 = k2
  Device <- OneDevice
  Client <- OneLoop
  Message <- OneMessage
  Call <- TwoCalls
  PhoneOf <- Phone1
  Batch = 1
  MaxAttempts = 5
  MaxFaults = 2
PROPERTY EveryRowSettles
