SPECIFICATION PairingSpec
CONSTANTS
  d1 = d1
  d2 = d2
  p1 = p1
  p2 = p2
  k1 = k1
  Device <- TwoDevices
  Client <- TwoPhones
  Code <- OneCode
INVARIANTS PairingTypeOK CodeMakesOneDevice UnheldIsExplained OnlineWasDelivered
PROPERTIES StaleGoesOffline StartedComesOnline
