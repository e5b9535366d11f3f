SPECIFICATION FairSpec
CONSTANTS
  A = A
  B = B
  x = x
  y = y
  c0 = c0
  c1 = c1
  c2 = c2
  main = main
  Operations = {A, B}
  Files = {x, y}
  Contents = {c0, c1, c2}
  Branches = {main}
  PathsOf <- MCPathsOf
  ContentOf <- MCContentOf
  BaseTree <- MCBaseTree
  Absent = Absent
  Detached = Detached
  NoOperation = NoOperation
  NoRecord = NoRecord
  MayIntend = TRUE
  MaxCommits = 3
  MaxUses = 2
  MaxCrashes = 1
INVARIANTS
  OneCommitPerOperation
  ExactOperation
  OnePending
PROPERTIES
  NoLostCommit
  StagedWorkKept
  FinalIsInHistory
  InterruptedFinishes
CHECK_DEADLOCK FALSE
