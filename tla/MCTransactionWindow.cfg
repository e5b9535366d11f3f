SPECIFICATION FairSpec
CONSTANTS
  A = A
  B = B
  a1 = a1
  a2 = a2
  b1 = b1
  b2 = b2
  x = x
  y = y
  c0 = c0
  c1 = c1
  c2 = c2
  Absent = Absent
  NoBundle = NoBundle
  NoId = NoId
  Ids = {A, B}
  Bundles = {a1}
  Paths = {x, y}
  Contents = {c0, c1, c2}
  IdOf <- MCIdOf
  Order <- MCOrder
  Old <- MCOld
  New <- MCNew
  Start <- MCStart
  Editable = {y}
  EditInWindow = TRUE
  WritesFail = FALSE
  MaxCrashes = 0
  MaxLosses = 0
PROPERTIES
  NeverSilentOverwrite
CHECK_DEADLOCK FALSE
