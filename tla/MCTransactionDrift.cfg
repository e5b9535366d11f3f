SPECIFICATION FairSpec
CONSTANTS
  A = A
  B = B
  a1 = a1
  a2 = a2
  b1 = b1
  b2 = b2
  x = x
  y = y
  c0 = c0
  c1 = c1
  c2 = c2
  Absent = Absent
  NoBundle = NoBundle
  NoId = NoId
  Ids = {A, B}
  Bundles = {a1}
  Paths = {x, y}
  Contents = {c0, c1, c2}
  IdOf <- MCIdOf
  Order <- MCOrder
  Old <- MCOld
  New <- MCNew
  Start <- MCStart
  Editable = {y}
  EditInWindow = FALSE
  WritesFail = FALSE
  MaxCrashes = 1
  MaxLosses = 0
INVARIANTS
  HistoryDriftNeverBlocks
CHECK_DEADLOCK FALSE
