SPECIFICATION ForcedSpec
CONSTANTS
  p1 = p1
  p2 = p2
  p3 = p3
  h1 = h1
  h2 = h2
  NoOwner = NoOwner
  Procs = {p1, p2}
  Hosts = {h1}
  HostOf <- OneHost
  Forcing = {p2}
  SharedFlock = TRUE
  StaleAfter = 0
  Timeout = 1
  MaxAttempts = 3
  MaxTime = 3
INVARIANTS
  TypeOK
  MutualExclusion
PROPERTIES
  NeverStolen
CHECK_DEADLOCK FALSE
