CONSTANTS
  e1 = e1
  e2 = e2
  e3 = e3
  c1 = c1
  c2 = c2
  Triggers = {e1}
  Channels = {c1}
  ChannelOf <- OneChannel
  MaxTurns = 2
  Bodies = {yes}
  Empty = blank
  Refused = {}
  NoticeBody = notice
  Tells = {}
  Times = {1, 2}
  RetryCap = 1
  LongOutage = TRUE
  NoEvent = NoEvent
  NoKey = NoKey
  NoMsg = NoMsg
  NoSession = NoSession
  Revocable = {}
  MaxCrashes = 1
  MaxErrors = 1
  Upgraded = TRUE
SPECIFICATION Spec
INVARIANTS
  ShownTurnKeepsItsAnswer
  NoticeOnlyForFailed
  OnePostedPerTrigger
PROPERTIES
  SpeaksOnlyOpen
  ImplementsLedger
