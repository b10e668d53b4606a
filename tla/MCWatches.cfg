CONSTANTS
  w1 = w1
  w2 = w2
  c1 = c1
  s1 = s1
  s2 = s2
  FireLimit = 2
  Seconds = 1
  Declarations = {w1, w2}
  Cancels = {c1}
  Sources = {s1, s2}
  Matches <- AllSources
  Limit <- Limits
  Lifetime <- Lifetimes
  Cooldown = 1
  None = None
  MaxTime = 1
  MaxCrashes = 1
  MaxFailures = 1
SPECIFICATION Spec
INVARIANTS
  LedgerIsSound
  WakesFollowFires
  DeclarationsStand
