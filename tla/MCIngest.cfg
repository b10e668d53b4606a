CONSTANTS
  t1 = t1
  n1 = n1
  n2 = n2
  e1 = e1
  e2 = e2
  Triggers = {t1}
  Notes = {n1}
  Edits = {e1}
  Deletes = {e1}
  Target <- OneTarget
  Overlap = 1
  None = None
  Fanned = {n1}
  MaxTime = 2
  MaxCrashes = 1
  MaxFailures = 1
SPECIFICATION FairSpec
INVARIANTS
  ReplayIsSound
PROPERTIES
  TriggersProcessedUnlessPassed
  MutationsAreApplied
