CONSTANTS
  Notes = {4}
  Triggers = {2, 3}
  Elsewhere = {1}
  Posts = {5}
  Watched = {4}
  Size <- ShortLines
  Split = {4}
  MaxLines = 1
  MaxBytes = 2
  Window = 0
  Drift = 0
  MaxTime = 1
  MaxCrashes = 1
  MaxFailures = 1
CHECK_DEADLOCK FALSE
SPECIFICATION FairSpec
INVARIANTS
  ContextIsSound
  PlaceTellsTheRest
PROPERTIES
  HeadIsAskedUnlessSplit
