CONSTANTS
  e1 = e1
  e2 = e2
  e3 = e3
  c1 = c1
  c2 = c2
  Triggers = {e1}
  Channels = {c1}
  ChannelOf <- OneChannel
  MaxTurns = 1
  Bodies = {yes, bad}
  Empty = blank
  Refused = {bad}
  NoticeBody = notice
  Tells = {t1}
  Times = {1, 2}
  RetryCap = 1
  LongOutage = FALSE
  NoEvent = NoEvent
  NoKey = NoKey
  NoMsg = NoMsg
  NoSession = NoSession
  Revocable = {}
  MaxCrashes = 1
  MaxErrors = 1
  Upgraded = TRUE
SPECIFICATION Spec
INVARIANTS
  HostTypeOK
  OneEventPerKey
  RelayIsKnown
  AckedIsSettled
PROPERTIES
  AbandonedIsSilent
