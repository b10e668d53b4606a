CONSTANTS
  b1 = b1
  b2 = b2
  b3 = b3
  b4 = b4
  idC = idC
  dirC = dirC
  idA = idA
  idB = idB
  dirA = dirA
  dirB = dirB
  Bots = {b1, b2, b3, b4}
  Id <- Ids
  Dir <- Dirs
  GitFails = {b3}
  Builds = {9, 10}
  MaxOpens = 3
  MaxCrashes = 1
  MaxRetired = 1
CHECK_DEADLOCK FALSE
SPECIFICATION Spec
INVARIANTS
  SetUpIsKept
PROPERTIES
  DatabaseKeepsItsHost
