SPECIFICATION TrafficSpec
CONSTANTS
  d1 = d1
  c1 = c1
  s1 = s1
  Device <- OneDevice
  Client <- OneClient
  Sms <- OneSms
  MaxAgain = 1
  Actives <- SomeActives
  Country <- OneCountry
  Tables <- ThreeTables
  Penalty <- Penalties
  Configured <- Carriers
INVARIANTS TrafficTypeOK RouteIsExplained InboxIsExplained
