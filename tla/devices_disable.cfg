SPECIFICATION DevicesSpec
CONSTANTS
  d1 = d1
  d2 = d2
  c1 = c1
  c2 = c2
  Device <- TwoDevices
  Client <- TwoClients
PROPERTY DisableHolds
