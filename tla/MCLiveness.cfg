CONSTANTS
  e1 = e1
  e2 = e2
  e3 = e3
  c1 = c1
  c2 = c2
  Triggers = {e1}
  Channels = {c1}
  ChannelOf <- OneChannel
  MaxTurns = 1
  Bodies = {yes, bad}
  Empty = blank
  Refused = {bad}
  NoticeBody = notice
  Tells = {}
  Times = {1}
  RetryCap = 2
  LongOutage = TRUE
  NoEvent = NoEvent
  NoKey = NoKey
  NoMsg = NoMsg
  NoSession = NoSession
  Revocable = {e1}
  MaxCrashes = 1
  MaxErrors = 0
  Upgraded = TRUE
SPECIFICATION FairSpec
PROPERTIES
  AnswersSettle
  HeadLeavesQueue
