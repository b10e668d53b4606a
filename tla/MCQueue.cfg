CONSTANTS
  e1 = e1
  e2 = e2
  e3 = e3
  c1 = c1
  c2 = c2
  Triggers = {e1, e2, e3}
  Channels = {c1, c2}
  ChannelOf <- TwoChannels
  MaxTurns = 3
  Bodies = {}
  Empty = blank
  Refused = {}
  NoticeBody = notice
  Tells = {}
  Times = {1}
  RetryCap = 1
  LongOutage = FALSE
  NoEvent = NoEvent
  NoKey = NoKey
  NoMsg = NoMsg
  NoSession = NoSession
  Revocable = {e1}
  MaxCrashes = 1
  MaxErrors = 0
  Upgraded = TRUE
SPECIFICATION Spec
INVARIANTS
  QueueIsOrdered
  OpenTurnWasAsked
