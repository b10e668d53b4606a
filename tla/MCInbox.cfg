CONSTANTS
  m1 = m1
  m2 = m2
  m3 = m3
  Messages = {m1, m2, m3}
  Unanswerable = {m3}
  None = None
  MaxDrops = 2
SPECIFICATION FairSpec
CHECK_DEADLOCK FALSE
INVARIANTS
  InboxIsSound
PROPERTIES
  SettledUnlessOvertaken
