SPECIFICATION ForcedFairSpec
CONSTANTS
  p1 = p1
  p2 = p2
  p3 = p3
  h1 = h1
  h2 = h2
  NoOwner = NoOwner
  Procs = {p1, p2, p3}
  Hosts = {h1, h2}
  HostOf <- TwoHosts
  Forcing = {p3}
  SharedFlock = FALSE
  StaleAfter = 0
  Timeout = 1
  MaxAttempts = 3
  MaxTime = 2
PROPERTIES
  StolenOnlyByForce
  AcquireEnds
CHECK_DEADLOCK FALSE
