SPECIFICATION Spec
CONSTANTS
  w1 = w1
  w2 = w2
  w3 = w3
  h1 = h1
  h2 = h2
  i1 = i1
  i2 = i2
  r1 = r1
  r2 = r2
  NoResult = NoResult
  NoDoc = NoDoc
  Torn = Torn
  Items = {i1}
  Workers = {w1, w2}
  Hosts = {h1}
  HostOf <- OneHost
  CommandLine = {w1}
  Results = {r1, r2}
  MayForce = FALSE
  MaxClaims = 2
  MaxCrashes = 0
  MaxCorruptions = 0
PROPERTIES
  LiveClaimNotStolen
CHECK_DEADLOCK FALSE
