CONSTANTS
  b1 = b1
  b2 = b2
  Bodies = {b1, b2}
  None = None
  Hold = 1
  Interval = 1
  Cap = 2
  Refused = {"create", "delete"}
  MaxTime = 4
  MaxHeard = 4
  MaxCrashes = 1
SPECIFICATION FairSpec
INVARIANTS
  PostIsSound
PROPERTIES
  PostKeepsPace
  CancelledPostIsDeleted
